------------------------------- MODULE Blocks -------------------------------
(***************************************************************************)
(* One core as the program runs it (Processor_IPE): guest code is          *)
(* translated a block at a time (InstBlock, BlockTranslation_IPE), kept in *)
(* a cache of blocks by address and ASID (TranslatedBlockCache_IPE) and    *)
(* executed by the host; between blocks, and where the emitted code asks   *)
(* for it, control is back in C2Assembly2C.                                *)
(*                                                                         *)
(* A block is its words up to a control instruction and its delay slot;    *)
(* executing entry i of it executes the code emitted for that word.  The   *)
(* branch, its delay slot and the branch's end are two steps: until the    *)
(* slot has been executed the branch is only what it has saved.            *)
(*                                                                         *)
(* phase says where the core is: in NewBlock before its test for           *)
(* interrupts ("int"), for NMI ("nmi") or of the block start ("next"), in  *)
(* fetchNextBlock ("fetch"), in translated code ("run", "slot"), leaving   *)
(* handlewait ("wait"); "halt" after exit, "astray" when the host executes *)
(* what nobody emitted.                                                    *)
(***************************************************************************)
EXTENDS Decoding, Sequences, FiniteSets

CONSTANTS Programs, WordIn(_, _), FrameIn(_, _, _),
          PageSize, UserBase, ResetVector, Vector, \* see GuestISA
          FirstLevel, SecondLevel, \* MAX_FIRST_, MAX_SECOND_LEVEL_BLOCK_COUNT
          MaxBlock                 \* longest block of the programs, in words

ASSUME SizesAssumption ==
  /\ PageSize \in Nat \ {0} /\ PageSize % 4 = 0
  /\ FirstLevel \in Nat \ {0} /\ SecondLevel \in Nat \ {0}
  /\ MaxBlock \in Nat

(* The vectors are addresses of the kernel, and not 0.                     *)
ASSUME VectorAssumption ==
  /\ UserBase \in Nat
  /\ Vector \in Value /\ Vector # 0 /\ Vector < UserBase
  /\ ResetVector \in Value /\ ResetVector # 0

VARIABLES prog,                            \* the guest's memory, page tables
          pc, gpr, status, epc, errorepc, asid,
          intr, nmi,                       \* see GuestISA
          cache,                           \* cacheBlk
          blk,                             \* the current block
          i,                               \* the word of it executed next
          saved,                           \* Memory_Temp4 and Memory_Temp5
          phase

regs == <<gpr, status, epc, errorepc, asid>>
vars == <<prog, pc, regs, intr, nmi, cache, blk, i, saved, phase>>

None == -1
Phases == {"int", "nmi", "next", "fetch", "run", "slot", "wait", "halt", "astray"}
Indices == (0 .. FirstLevel - 1) \X (0 .. SecondLevel - 1)
NoBlock == [start |-> 0, end |-> 0, asid |-> 0, code |-> << >>, calls |-> << >>]

StatusOf(v) ==
  [ie |-> v % 2 = 1, exl |-> (v \div 2) % 2 = 1, erl |-> (v \div 4) % 2 = 1,
   user |-> (v \div 8) % 4 = 2]

Block ==
  [start : Value, end : Nat, asid : 0 .. 255, code : Seq(Word), calls : Seq(Translators)]

(* Every register holds a value of its width, every block is one of words. *)
TypeOK ==
  /\ pc \in Value /\ epc \in Value /\ errorepc \in Value
  /\ gpr \in [GPRs -> Value]
  /\ status \in [ie : BOOLEAN, exl : BOOLEAN, erl : BOOLEAN, user : BOOLEAN]
  /\ asid \in 0 .. 255
  /\ intr \in BOOLEAN /\ nmi \in BOOLEAN
  /\ cache \in [Indices -> Block]
  /\ blk \in Block
  /\ i \in Nat
  /\ phase \in {"run", "slot"} => i \in DOMAIN blk.code
  /\ saved \in Value \X Value
  /\ phase \in Phases

(* C2Assembly2C, on the first core or once the first NMI has started it.   *)
Init ==
  /\ prog \in Programs
  /\ pc = ResetVector
  /\ gpr = [r \in GPRs |-> 0]
  /\ status = StatusOf(4)
  /\ epc = 0 /\ errorepc = 0 /\ asid = 0
  /\ intr = FALSE /\ nmi = FALSE
  /\ cache = [s \in Indices |-> NoBlock]
  /\ blk = NoBlock /\ i = 0
  /\ saved = <<0, 0>>
  /\ phase = "int"
-----------------------------------------------------------------------------
(* CP0_IPE::get_KSU, checking_previlige and isInterruptPending *)

UserMode == status.user /\ ~status.exl /\ ~status.erl
Pending == intr /\ status.ie /\ ~status.exl /\ ~status.erl

(* TLB_Exception_IPE::Perform_Exception, with the pc that goes to EPC or   *)
(* ErrorEPC.                                                               *)
Perform_Exception(at) ==
  /\ pc' = Vector
  /\ IF status.exl
     THEN errorepc' = at /\ status' = [status EXCEPT !.erl = TRUE] /\ UNCHANGED epc
     ELSE epc' = at /\ status' = [status EXCEPT !.exl = TRUE] /\ UNCHANGED errorepc
  /\ UNCHANGED <<prog, gpr, asid, intr, nmi>>

-----------------------------------------------------------------------------
(* Making a block *)

Physical(a) ==
  IF a < UserBase THEN IF UserMode THEN {} ELSE {a}
  ELSE {f * PageSize + (a % PageSize) : f \in FrameIn(prog, asid, a \div PageSize)}
WordAt(pa) == WordIn(prog, pa)

(* InstBlock::getBlock: words from a host address on, until a control      *)
(* instruction and its delay slot.                                         *)
getBlock(pa) ==
  LET ends(k) == isControlInst(WordAt(pa + 4 * k))
      n == CHOOSE k \in 0 .. MaxBlock : ends(k) /\ \A l \in 0 .. k - 1 : ~ends(l)
  IN SubSeq([k \in 1 .. MaxBlock + 2 |-> WordAt(pa + 4 * (k - 1))], 1, n + 2)

PageOf(a) == (a \div PageSize) * PageSize

(* Processor_IPE::fixBlock.  The second case, a delay slot alone on the    *)
(* next page, cannot occur: end is the address of the branch.              *)
fixBlock(code, start, end) ==
  LET validinstr == (PageOf(end) - start) \div 4
      kept == SubSeq(code, 1, validinstr)
  IN IF Len(code) - validinstr > 1
     THEN kept \o <<TERMINATION_INS, Nop>>
     ELSE kept \o [k \in 1 .. Cardinality(Physical(PageOf(end))) |->
                     WordAt(CHOOSE pa \in Physical(PageOf(end)) : TRUE)]

(* doBlockTranslation: every word of a block is given to the decoder.      *)
doBlockTranslation(start, end, code) ==
  [start |-> start, end |-> end, asid |-> asid, code |-> code,
   calls |-> SubSeq([k \in DOMAIN code |-> findInstrCase(code[k])], 1, Len(code))]

(* Mutant of Translated: a block is not cut at the end of its page.        *)
Translated_Uncut(start, code, user) ==
  doBlockTranslation(start, start + (Len(code) - 2) * 4, code)

(* The block fetchNextBlock makes for start, from the words found there.   *)
Translated(start, code, user) ==
  LET end == start + (Len(code) - 2) * 4
  IN doBlockTranslation(start, end, IF user /\ PageOf(start) # PageOf(end)
                                    THEN fixBlock(code, start, end) ELSE code)

(* Whether every word has a translation.  A control instruction in a delay *)
(* slot is translated with no slot of its own and ends the process, like   *)
(* not_an_Ins.                                                             *)
Untranslatable(b, k) ==
  \/ b.calls[k] \in {"exit", "astray"}
  \/ k = Len(b.code) /\ isControlInst(b.code[k])
Outcome(b) ==
  IF \A k \in DOMAIN b.code : ~Untranslatable(b, k) THEN "run"
  ELSE LET first == CHOOSE k \in DOMAIN b.code :
                      /\ Untranslatable(b, k)
                      /\ \A l \in 1 .. k - 1 : ~Untranslatable(b, l)
       IN IF b.calls[first] = "astray" THEN "astray" ELSE "halt"

updateIndex(key) ==
  <<(key \div 4) % FirstLevel, (key \div (4 * FirstLevel)) % SecondLevel>>

(* Mutant of doesExists: the ASID is not compared.                         *)
doesExists_AnyAsid(key) == cache[updateIndex(key)].start = key
doesExists(key) ==
  /\ cache[updateIndex(key)].start = key
  /\ cache[updateIndex(key)].asid = asid

-----------------------------------------------------------------------------
(* NewBlock *)

(* Mutant of TestInterrupt: a block that follows itself is executed again  *)
(* before the test.                                                        *)
TestInterrupt_Late ==
  /\ phase = "int"
  /\ phase' = "nmi"
  /\ IF Pending /\ pc # blk.start THEN Perform_Exception(pc)
     ELSE UNCHANGED <<prog, pc, regs, intr, nmi>>
  /\ UNCHANGED <<cache, blk, i, saved>>

TestInterrupt ==
  /\ phase = "int"
  /\ phase' = "nmi"
  /\ IF Pending THEN Perform_Exception(pc) ELSE UNCHANGED <<prog, pc, regs, intr, nmi>>
  /\ UNCHANGED <<cache, blk, i, saved>>

(* A pc of 0 is not handled, which ends the process.  handleNMI does not   *)
(* save the pc.                                                            *)
handleNMI ==
  /\ phase = "nmi"
  /\ phase' = IF pc = 0 THEN "halt" ELSE "next"
  /\ IF nmi /\ pc # 0
     THEN /\ status' = [status EXCEPT !.erl = TRUE]
          /\ pc' = ResetVector
          /\ blk' = [blk EXCEPT !.start = 0, !.end = 0]
          /\ nmi' = FALSE
     ELSE UNCHANGED <<status, pc, blk, nmi>>
  /\ UNCHANGED <<prog, gpr, epc, errorepc, asid, intr, cache, i, saved>>

(* The current block is executed again, or another one fetched.            *)
TestBlock ==
  /\ phase = "next"
  /\ IF pc = blk.start THEN phase' = "run" /\ i' = 1 ELSE phase' = "fetch" /\ UNCHANGED i
  /\ UNCHANGED <<prog, pc, regs, intr, nmi, cache, blk, saved>>

(* fetchNextBlock *)

(* Mutant of FetchCached: a block found in the cache is not entered at its *)
(* first word.                                                             *)
FetchCached_Index ==
  /\ phase = "fetch"
  /\ doesExists(pc)
  /\ blk' = cache[updateIndex(pc)]
  /\ phase' = "run"
  /\ UNCHANGED <<prog, pc, regs, intr, nmi, cache, i, saved>>

FetchCached ==
  /\ phase = "fetch"
  /\ doesExists(pc)
  /\ blk' = cache[updateIndex(pc)]
  /\ i' = 1 /\ phase' = "run"
  /\ UNCHANGED <<prog, pc, regs, intr, nmi, cache, saved>>

(* Puts a new block in the cache and enters it.  The container has been    *)
(* cleared by then.                                                        *)
Enter(b) ==
  /\ phase' = Outcome(b)
  /\ IF Outcome(b) = "run"
     THEN blk' = b /\ i' = 1 /\ cache' = [cache EXCEPT ![updateIndex(b.start)] = b]
     ELSE UNCHANGED <<blk, i, cache>>
  /\ UNCHANGED saved

FetchNew ==
  /\ phase = "fetch"
  /\ ~doesExists(pc)
  /\ \E code \in {getBlock(pa) : pa \in Physical(pc)} :
       \E b \in {Translated(pc, code, UserMode)} : Enter(b)
  /\ UNCHANGED <<prog, pc, regs, intr, nmi>>

(* The address of a new block does not translate: the block at the         *)
(* exception vector is made instead.                                       *)
FetchFault ==
  /\ phase = "fetch"
  /\ ~doesExists(pc)
  /\ pc >= UserBase \/ UserMode
  /\ Perform_Exception(pc)
  /\ \E b \in {Translated(Vector, getBlock(Vector), FALSE)} : Enter(b)
-----------------------------------------------------------------------------
(* Translated code.  Past the last word but one is the delay slot.         *)

word == blk.code[i]
translator == blk.calls[i]
InSlot == phase = "slot"
Body == phase = "run" /\ i < Len(blk.code) - 1
AtEnd == phase = "run" /\ i = Len(blk.code) - 1
Write(S, v) == [r \in GPRs |-> IF r \in S THEN v ELSE gpr[r]]

(* Where the branch that ends the block goes, from what it has saved       *)
(* before its delay slot (BranchPath, j, jr).  The offset of a branch is   *)
(* added as an immediate: 16 bits of it are kept.  The region of a jump is *)
(* that of its own address.                                                *)
AfterSlot == (blk.end + 8) % Wrap
BranchPath(b, s) ==
  IF Taken(b, s[1], s[2]) THEN (blk.end + Sext((Imm(b) * 4 + 4) % 65536)) % Wrap
                          ELSE AfterSlot
JTarget(b) ==
  ((blk.end \div Region) * Region + 4 * ((b.rs * 32 + b.rt) * 65536 + Imm(b))) % Wrap
Goes(b, s) ==
  LET k == findInstrCase(b)
  IN CASE k \in {"j", "jal"} -> JTarget(b)
       [] k \in {"jr", "jalr"} -> s[1]
       [] OTHER -> BranchPath(b, s)

(* update_pc after a word of the body; the end of the branch after a slot. *)
Done ==
  IF InSlot
  THEN /\ pc' = Goes(blk.code[Len(blk.code) - 1], saved)
       /\ phase' = "int" /\ UNCHANGED i
  ELSE pc' = (pc + 4) % Wrap /\ i' = i + 1 /\ UNCHANGED phase

(* Control goes to Syscall, Handle_BR, Handle_Trap, Handle_RI, handleLDST  *)
(* or handleSigFPE, which take the exception and fetch the vector's block. *)
(* In a delay slot the pc is still that of the branch.                     *)
Raise ==
  /\ Body \/ InSlot
  /\ Perform_Exception(pc)
  /\ phase' = "fetch"
  /\ UNCHANGED <<cache, blk, i, saved>>

Privileged == translator \in {"mfc0", "mtc0", "tlb", "di", "ei"}
Computing ==
  {"unprev_R", "shift_R", "mulDiv_R", "madd", "moveFromLoHi_R", "moveToLoHi_R", "ext_R",
   "ins_R", "unprev_I", "unprev_I_Load", "unprev_I_Store", "ll", "sc", "saa", "seqi_snei",
   "rdhwr", "v3mulu", "multiplier", "nop", "nothing"}

Compute ==
  /\ Body \/ InSlot
  /\ translator \in Computing
  /\ \E S \in {Stored(word)}, v \in {Computed(word, gpr)} : gpr' = Write(S, v)
  /\ Done
  /\ UNCHANGED <<prog, status, epc, errorepc, asid, intr, nmi, cache, blk, saved>>

(* The translation of the address fails; a load to register 0 has none.    *)
handleLDST ==
  /\ \/ translator \in {"unprev_I_Store", "saa"}
     \/ translator \in {"unprev_I_Load", "ll"} /\ word.rt # 0
  /\ Raise

(* The host traps the overflow.                                            *)
handleSigFPE ==
  /\ \/ translator = "unprev_R" /\ word.op = 0 /\ word.fn \in {32, 34, 44, 46} /\ word.rd # 0
     \/ translator = "unprev_I" /\ word.op \in {8, 24}
  /\ Raise

Handle_RI == Privileged /\ UserMode /\ Raise

Syscall == translator \in {"syscall", "br"} /\ Raise

teq_tne_R == IF word.fn = 52 THEN gpr[word.rs] = gpr[word.rt] ELSE gpr[word.rs] # gpr[word.rt]
teqi_tnei_I ==
  LET b == Sext(Imm(word)) % Wrap
  IN IF word.rt = 12 THEN gpr[word.rs] = b ELSE gpr[word.rs] # b
(* The difference is negative or it is not: equal operands trap for tlt    *)
(* too, and the unsigned variants differ from the signed ones only in the  *)
(* overflow of the subtraction.                                            *)
tge_tgeu_tlt_tltu_R ==
  LET d == Signed((gpr[word.rs] - gpr[word.rt] + Wrap) % Wrap)
  IN IF word.fn \in {48, 49} THEN d >= 0 ELSE -d >= 0
tgei_tgeiu_tlti_tltiu_I ==
  LET d == Signed((gpr[word.rs] - Sext(Imm(word)) + Wrap) % Wrap)
  IN IF word.rt \in {8, 9} THEN d >= 0 ELSE -d >= 0
TrapWord == {"teq_tne_R", "teqi_tnei_I", "tge_tgeu_tlt_tltu_R", "tgei_tgeiu_tlti_tltiu_I"}
Trapping ==
  CASE translator = "teq_tne_R" -> teq_tne_R
    [] translator = "teqi_tnei_I" -> teqi_tnei_I
    [] translator = "tge_tgeu_tlt_tltu_R" -> tge_tgeu_tlt_tltu_R
    [] translator = "tgei_tgeiu_tlti_tltiu_I" -> tgei_tgeiu_tlti_tltiu_I

Handle_Trap == translator \in TrapWord /\ Trapping /\ Raise

NoTrap ==
  /\ Body \/ InSlot
  /\ translator \in TrapWord /\ ~Trapping
  /\ Done
  /\ UNCHANGED <<prog, regs, intr, nmi, cache, blk, saved>>

mfc0 ==
  /\ Body \/ InSlot
  /\ translator = "mfc0" /\ ~UserMode
  /\ gpr' = Write({word.rt}, IF word.rd = 14 /\ word.fn % 8 = 0 THEN epc ELSE Result(word, 0, 0))
  /\ Done
  /\ UNCHANGED <<prog, status, epc, errorepc, asid, intr, nmi, cache, blk, saved>>

(* A write of EntryHi returns to HandleASIDchange at once.  A write of     *)
(* Compare takes the timer's interrupt back.                               *)
mtc0 ==
  LET v == gpr[word.rt]
      writes(reg) == word.rd = reg /\ word.fn % 8 = 0
  IN /\ Body \/ InSlot
     /\ translator = "mtc0" /\ ~UserMode
     /\ asid' = IF writes(10) THEN v % 256 ELSE asid
     /\ intr' = (intr /\ ~writes(11))
     /\ status' = IF writes(12) THEN StatusOf(v) ELSE status
     /\ epc' = IF writes(14) THEN v ELSE epc
     /\ errorepc' = IF writes(30) THEN v ELSE errorepc
     /\ Done
     /\ UNCHANGED <<prog, gpr, nmi, cache, blk, saved>>

di_ei ==
  /\ Body \/ InSlot
  /\ translator \in {"di", "ei"} /\ ~UserMode
  /\ status' = [status EXCEPT !.ie = (translator = "ei")]
  /\ gpr' = Write({word.rt} \ {0}, Result(word, 0, 0))
  /\ Done
  /\ UNCHANGED <<prog, epc, errorepc, asid, intr, nmi, cache, blk, saved>>

(* TlbRead, TlbWriteI, TlbWrite, TlbProbe: module MMU has what they do.    *)
tlb ==
  /\ Body \/ InSlot
  /\ translator = "tlb" /\ ~UserMode
  /\ Done
  /\ UNCHANGED <<prog, regs, intr, nmi, cache, blk, saved>>

(* No test of the privilege.                                               *)
eret ==
  /\ Body \/ InSlot
  /\ translator = "eret"
  /\ IF status.erl
     THEN pc' = errorepc /\ status' = [status EXCEPT !.erl = FALSE]
     ELSE pc' = epc /\ status' = [status EXCEPT !.exl = FALSE]
  /\ phase' = "int"
  /\ UNCHANGED <<prog, gpr, epc, errorepc, asid, intr, nmi, cache, blk, i, saved>>

(* handlewait: once an interrupt is pending, in two steps.                 *)
handlewait ==
  \/ /\ Body \/ InSlot
     /\ translator = "wait" /\ Pending
     /\ pc' = (pc + 4) % Wrap
     /\ phase' = "wait"
     /\ UNCHANGED <<prog, regs, intr, nmi, cache, blk, i, saved>>
  \/ /\ phase = "wait"
     /\ Perform_Exception(pc)
     /\ phase' = "fetch"
     /\ UNCHANGED <<cache, blk, i, saved>>

(* The control instruction at the end: links, saves its sources, and the   *)
(* delay slot is next.                                                     *)

LinksTo ==
  CASE translator = "jal" \/ (translator = "branch" /\ word.rt \in {16, 17}) -> {31}
    [] translator = "branch_likely" /\ word.rt \in {18, 19} -> {31}
    [] translator = "jalr" -> {word.rd}
    [] OTHER -> {}

Begin ==
  LET g == Write(LinksTo, AfterSlot)
  IN /\ AtEnd
     /\ translator \in {"j", "jal", "jr", "jalr", "bne_beq", "branch", "bbit"}
     /\ gpr' = g
     /\ saved' = <<g[word.rs], g[word.rt]>>
     /\ phase' = "slot" /\ i' = i + 1
     /\ UNCHANGED <<prog, pc, status, epc, errorepc, asid, intr, nmi, cache, blk>>

BranchPath_likely ==
  LET g == Write(LinksTo, AfterSlot)
  IN /\ AtEnd
     /\ translator \in {"bne_beq_likely", "branch_likely"}
     /\ gpr' = g
     /\ saved' = <<g[word.rs], g[word.rt]>>
     /\ IF Taken(word, g[word.rs], g[word.rt])
        THEN phase' = "slot" /\ i' = i + 1 /\ UNCHANGED pc
        ELSE phase' = "int" /\ pc' = AfterSlot /\ UNCHANGED i
     /\ UNCHANGED <<prog, status, epc, errorepc, asid, intr, nmi, cache, blk>>

TerminateBlock ==
  /\ Body \/ AtEnd \/ InSlot
  /\ translator = "TerminateBlock"
  /\ phase' = "int"
  /\ UNCHANGED <<prog, pc, regs, intr, nmi, cache, blk, i, saved>>

(* A drotr is emitted as a word that is no instruction, and after a        *)
(* control instruction without code the block just ends.                   *)
Astray ==
  /\ \/ (Body \/ InSlot) /\ translator = "drotr"
     \/ AtEnd /\ translator \in {"drotr", "nothing"}
  /\ phase' = "astray"
  /\ UNCHANGED <<prog, pc, regs, intr, nmi, cache, blk, i, saved>>

-----------------------------------------------------------------------------
Alive == phase \notin {"halt", "astray"}

RaiseInterrupt ==
  /\ Alive /\ ~intr /\ intr' = TRUE
  /\ UNCHANGED <<prog, pc, regs, nmi, cache, blk, i, saved, phase>>

setNMI ==
  /\ Alive /\ ~nmi /\ nmi' = TRUE
  /\ UNCHANGED <<prog, pc, regs, intr, cache, blk, i, saved, phase>>

C2Assembly2C ==
  \/ TestInterrupt \/ handleNMI \/ TestBlock
  \/ FetchCached \/ FetchNew \/ FetchFault
Executing ==
  /\ phase \in {"run", "slot", "wait"}
  /\ \/ Compute \/ handleLDST \/ handleSigFPE \/ Handle_RI \/ Syscall \/ Handle_Trap \/ NoTrap
     \/ mfc0 \/ mtc0 \/ di_ei \/ tlb \/ eret \/ handlewait
     \/ Begin \/ BranchPath_likely \/ TerminateBlock \/ Astray

Next == C2Assembly2C \/ Executing \/ RaiseInterrupt \/ setNMI

(* The core's own thread goes on running.                                  *)
Spec == Init /\ [][Next]_vars /\ WF_vars(C2Assembly2C \/ Executing)
-----------------------------------------------------------------------------
(* Properties *)

(* Translating a block at a time, with the cache, the cut at a page's end  *)
(* and the re-execution of the current block, the core does what executing *)
(* one instruction after the other does: every step of the block engine is *)
(* one of GuestISA's or none.  In a slot the branch is pending.            *)
ISA == INSTANCE GuestISA WITH
  pc <- IF phase = "slot" THEN (pc + 4) % Wrap ELSE pc,
  target <- IF phase = "slot" THEN Goes(blk.code[Len(blk.code) - 1], saved) ELSE None,
  running <- phase # "halt"
ImplementsISA == ISA!Spec

(* A block in the cache is what a translation of its address, for its      *)
(* ASID, would give: blocks of other address spaces, of the kernel and of  *)
(* evicted addresses are never mistaken for it.                            *)
CacheCurrent ==
  \A s \in Indices :
    LET b == cache[s]
    IN b # NoBlock =>
         /\ updateIndex(b.start) = s
         /\ IF b.start < UserBase
            THEN b.code = getBlock(b.start)
            ELSE \A f \in FrameIn(prog, b.asid, b.start \div PageSize),
                    k \in 1 .. Len(b.code) - 2 :
                   LET a == b.start + 4 * (k - 1)
                   IN /\ PageOf(a) = PageOf(b.start)
                      /\ b.code[k] = WordAt(f * PageSize + (a % PageSize))

(* An interrupt that is pending and enabled is taken, or the guest         *)
(* disables it, however short the loop it is in: interrupts are only       *)
(* looked at between blocks, and a block that branches to itself is not    *)
(* fetched again.                                                          *)
InterruptTaken == Pending ~> (~Pending \/ ~Alive)
=============================================================================
