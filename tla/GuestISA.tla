------------------------------ MODULE GuestISA ------------------------------
(***************************************************************************)
(* What a guest sees of one core: instructions executed one at a time,     *)
(* with the delay slot of the branches, exceptions, interrupts and NMI.    *)
(* This is the abstract specification that Processor_IPE, with its         *)
(* translated blocks and their cache, has to implement (module Blocks).    *)
(* Which instructions there are, and what they write, follow the           *)
(* mnemonics in the comments of IInfo and of InsDecoding's tables, and not *)
(* the decoder, which only says which words are reserved.                  *)
(*                                                                         *)
(* A program is a memory, by physical address, and page tables.            *)
(* Addresses below UserBase are the kernel's and translate to themselves.  *)
(* All the exception vectors are one.  Loads, stores and fetches may fault *)
(* at any time, signed additions may overflow.                             *)
(***************************************************************************)
EXTENDS Decoding

CONSTANTS Programs,         \* the guests that are run
          WordIn(_, _),     \* WordIn(g, pa): the word of g at an address
          FrameIn(_, _, _), \* FrameIn(g, asid, page): the frame of a page of
                            \* g, as a set, empty when it has none
          PageSize, UserBase,
          ResetVector, \* MIPS_REST_VEC
          Vector       \* exception entry

None == -1
StatusOf(v) ==
  [ie |-> v % 2 = 1, exl |-> (v \div 2) % 2 = 1, erl |-> (v \div 4) % 2 = 1,
   user |-> (v \div 8) % 4 = 2]

VARIABLES prog,
          pc,
          target,         \* where the pending branch goes, None outside a slot
          gpr,
          status,         \* IE, EXL, ERL and KSU of Status
          epc, errorepc,
          asid,           \* EntryHi.ASID
          intr,           \* an enabled line of Cause is up
          nmi,            \* an NMI pulse has been received
          running         \* FALSE once the machine has stopped

cpu == <<pc, target, gpr, status, epc, errorepc, asid>>
vars == <<prog, cpu, intr, nmi, running>>

InitCore ==
  /\ prog \in Programs
  /\ gpr = [r \in GPRs |-> 0]
  /\ status = StatusOf(4)
  /\ epc = 0 /\ errorepc = 0 /\ asid = 0
  /\ intr = FALSE /\ nmi = FALSE

Init == InitCore /\ pc = ResetVector /\ target = None /\ running = TRUE
-----------------------------------------------------------------------------
UserMode == status.user /\ ~status.exl /\ ~status.erl
Enabled == status.ie /\ ~status.exl /\ ~status.erl
Pending == intr /\ Enabled

(* Fetching: Physical is the set that holds the physical address of a, and *)
(* is empty when a has none.                                               *)
Physical(a) ==
  IF a < UserBase THEN IF UserMode THEN {} ELSE {a}
  ELSE {f * PageSize + (a % PageSize) : f \in FrameIn(prog, asid, a \div PageSize)}
WordAt(pa) == WordIn(prog, pa)
Fetched(a) == {WordAt(pa) : pa \in Physical(a)}

-----------------------------------------------------------------------------
(* The instructions *)

Likely(w) == w.op \in 20 .. 23 \/ (w.op = 1 /\ w.rt \in {2, 3, 18, 19})
Branch(w) ==
  \/ w.op \in (4 .. 7) \cup {50, 54, 58, 62}
  \/ w.op = 1 /\ w.rt \in {0, 1, 16, 17}
  \/ Likely(w)
Jump(w) == w.op \in {2, 3} \/ (w.op = 0 /\ w.fn \in {8, 9})
LinkRegister(w) ==
  CASE w.op = 3 \/ (w.op = 1 /\ w.rt \in 16 .. 19) -> 31
    [] w.op = 0 /\ w.fn = 9 -> w.rd
    [] OTHER -> 0

ALU0 == {0, 2, 3, 4, 6, 7, 10, 11, 16, 18, 20, 22, 23} \cup (32 .. 39) \cup (42 .. 47)
          \cup {56, 58, 59, 60, 62, 63}
ALU28 == {2, 3, 15, 16, 17, 32, 33, 36, 37, 40, 42, 43, 44, 45}
LoadOp == {26, 27, 48, 52, 55} \cup (32 .. 39)
StoreOp == (40 .. 46) \cup {63}

(* The registers an instruction that computes or loads writes.             *)
Written(w) ==
  (CASE w.op = 0 /\ w.fn \in ALU0 -> {w.rd}
     [] w.op = 0 /\ w.fn = 17 -> {HI}
     [] w.op = 0 /\ w.fn = 19 -> {LO}
     [] w.op = 0 /\ w.fn \in 24 .. 31 -> {HI, LO}
     [] w.op = 28 /\ w.fn \in ALU28 -> {w.rd}
     [] w.op = 28 /\ w.fn \in {46, 47, 50, 51, 58, 59} -> {w.rt}
     [] w.op = 28 /\ w.fn \in {0, 1, 4, 5} -> {HI, LO}
     [] w.op = 31 /\ w.fn \in (0 .. 7) \cup {59} -> {w.rt}
     [] w.op = 31 /\ w.fn \in {32, 36} -> {w.rd}
     [] w.op \in (8 .. 15) \cup {24, 25, 56, 60} \cup LoadOp -> {w.rt}
     [] OTHER -> {}) \ {0}

MayOverflow(w) == w.op \in {8, 24} \/ (w.op = 0 /\ w.fn \in {32, 34, 44, 46})
MayFault(w) == w.op \in LoadOp \cup StoreOp \/ (w.op = 28 /\ w.fn \in {24, 25})

Syscall(w) == w.op = 0 /\ w.fn \in {12, 13}
Traps(w) ==
  LET a == gpr[w.rs]
      b == IF w.op = 1 THEN Sext(Imm(w)) % Wrap ELSE gpr[w.rt]
      c == IF w.op = 1 THEN w.rt + 40 ELSE w.fn
  IN /\ \/ w.op = 0 /\ w.fn \in (48 .. 52) \cup {54}
        \/ w.op = 1 /\ w.rt \in (8 .. 12) \cup {14}
     /\ CASE c = 48 -> Signed(a) >= Signed(b)
          [] c = 49 -> a >= b
          [] c = 50 -> Signed(a) < Signed(b)
          [] c = 51 -> a < b
          [] c = 52 -> a = b
          [] c = 54 -> a # b

Coprocessor0(w) == w.op = 16
Eret(w) == w.op = 16 /\ w.rs = 16 /\ w.fn = 24
Wait(w) == w.op = 16 /\ w.rs = 16 /\ w.fn = 32
Mtc0(w) == w.op = 16 /\ w.rs \in {4, 5}
Mfc0(w) == w.op = 16 /\ w.rs \in {0, 1}
DiEi(w) == w.op = 16 /\ w.rs = 11 /\ w.fn \in {0, 32}

(* A word that is no instruction of this machine.                          *)
Reserved(w) == findInstrCase(w) = "exit"

Special(w) ==
  Reserved(w) \/ Branch(w) \/ Jump(w) \/ Syscall(w) \/ Traps(w) \/ Coprocessor0(w)
-----------------------------------------------------------------------------
(* Steps *)

(* The address n bytes on, as wide as the registers.                       *)
After(n) == (pc + n) % Wrap

WriteRegs(S, v) == [r \in GPRs |-> IF r \in S THEN v ELSE gpr[r]]

(* The instruction ends and the next one, or the branch target, follows.   *)
Advance ==
  /\ pc' = IF target = None THEN After(4) ELSE target
  /\ target' = None

Exception(from) ==
  /\ pc' = Vector
  /\ target' = None
  /\ epc' = IF status.exl THEN epc ELSE from
  /\ status' = [status EXCEPT !.exl = TRUE]
  /\ UNCHANGED <<prog, gpr, errorepc, asid, intr, nmi, running>>

(* Where an exception of the current instruction restarts.                 *)
Restart == IF target = None THEN pc ELSE After(-4)

FetchFault ==
  /\ pc >= UserBase \/ UserMode
  /\ Exception(Restart)

Compute(w) ==
  /\ ~Special(w)
  /\ gpr' = WriteRegs(Written(w), Computed(w, gpr))
  /\ Advance
  /\ UNCHANGED <<prog, status, epc, errorepc, asid, intr, nmi, running>>

Fault(w) ==
  /\ \/ Syscall(w) \/ Traps(w)
     \/ MayFault(w) \/ MayOverflow(w)
     \/ Coprocessor0(w) /\ ~Reserved(w) /\ UserMode
  /\ Exception(Restart)

TakeBranch(w) ==
  LET there == After(4 + 4 * Sext(Imm(w)))
      taken == Taken(w, gpr[w.rs], gpr[w.rt])
  IN /\ Branch(w)
     /\ target = None
     /\ gpr' = WriteRegs({LinkRegister(w)} \ {0}, After(8))
     /\ IF Likely(w) /\ ~taken
        THEN pc' = After(8) /\ target' = None
        ELSE pc' = After(4) /\ target' = IF taken THEN there ELSE After(8)
     /\ UNCHANGED <<prog, status, epc, errorepc, asid, intr, nmi, running>>

(* A jump stays in the region of its delay slot.                           *)
JumpTarget(w) ==
  (After(4) \div Region) * Region + 4 * ((w.rs * 32 + w.rt) * 65536 + Imm(w))

TakeJump(w) ==
  /\ Jump(w)
  /\ target = None
  /\ gpr' = WriteRegs({LinkRegister(w)} \ {0}, After(8))
  /\ pc' = After(4)
  /\ target' = IF w.op = 0 THEN gpr[w.rs] ELSE JumpTarget(w)
  /\ UNCHANGED <<prog, status, epc, errorepc, asid, intr, nmi, running>>

MoveFromCP0(w) ==
  /\ ~UserMode
  /\ Mfc0(w)
  /\ gpr' = WriteRegs({w.rt} \ {0},
                      IF w.rd = 14 /\ w.fn % 8 = 0 THEN epc ELSE Result(w, 0, 0))
  /\ Advance
  /\ UNCHANGED <<prog, status, epc, errorepc, asid, intr, nmi, running>>

(* Compare acknowledges the timer.                                         *)
MoveToCP0(w) ==
  LET v == gpr[w.rt]
      writes(reg) == w.rd = reg /\ w.fn % 8 = 0
  IN /\ ~UserMode
     /\ Mtc0(w)
     /\ asid' = IF writes(10) THEN v % 256 ELSE asid
     /\ intr' = (intr /\ ~writes(11))
     /\ status' = IF writes(12) THEN StatusOf(v) ELSE status
     /\ epc' = IF writes(14) THEN v ELSE epc
     /\ errorepc' = IF writes(30) THEN v ELSE errorepc
     /\ Advance
     /\ UNCHANGED <<prog, gpr, nmi, running>>

EnableInterrupts(w) ==
  /\ ~UserMode
  /\ DiEi(w)
  /\ status' = [status EXCEPT !.ie = (w.fn = 32)]
  /\ gpr' = WriteRegs({w.rt} \ {0}, Result(w, 0, 0))
  /\ Advance
  /\ UNCHANGED <<prog, epc, errorepc, asid, intr, nmi, running>>

ReturnFromException(w) ==
  /\ ~UserMode
  /\ Eret(w)
  /\ target = None
  /\ IF status.erl
     THEN pc' = errorepc /\ status' = [status EXCEPT !.erl = FALSE]
     ELSE pc' = epc /\ status' = [status EXCEPT !.exl = FALSE]
  /\ UNCHANGED <<prog, target, gpr, epc, errorepc, asid, intr, nmi, running>>

(* WAIT, and what of CP0 does not show here (the TLB instructions).        *)
OtherCP0(w) ==
  /\ ~UserMode
  /\ Coprocessor0(w)
  /\ ~(Reserved(w) \/ Mfc0(w) \/ Mtc0(w) \/ DiEi(w) \/ Eret(w))
  /\ Wait(w) => Pending
  /\ Advance
  /\ UNCHANGED <<prog, gpr, status, epc, errorepc, asid, intr, nmi, running>>

(* The machine ends at a reserved word, and at address 0.                  *)
Stop ==
  /\ pc = 0 \/ \E w \in Fetched(pc) : Reserved(w)
  /\ running' = FALSE
  /\ UNCHANGED <<prog, cpu, intr, nmi>>

Interrupt == Pending /\ target = None /\ Exception(pc)

NMI ==
  /\ nmi /\ target = None
  /\ pc' = ResetVector
  /\ status' = [status EXCEPT !.erl = TRUE]
  /\ nmi' = FALSE
  /\ UNCHANGED <<prog, target, gpr, epc, errorepc, asid, intr, running>>

Instruction ==
  \E w \in Fetched(pc) :
    \/ Compute(w) \/ Fault(w) \/ TakeBranch(w) \/ TakeJump(w)
    \/ MoveFromCP0(w) \/ MoveToCP0(w) \/ EnableInterrupts(w)
    \/ ReturnFromException(w) \/ OtherCP0(w)

(* The timer and the devices; another core, through the CIU.               *)
RaiseInterrupt == intr' = TRUE /\ UNCHANGED <<prog, cpu, nmi, running>>
RaiseNMI == nmi' = TRUE /\ UNCHANGED <<prog, cpu, intr, running>>

Next ==
  /\ running
  /\ \/ Instruction \/ FetchFault \/ Stop \/ Interrupt \/ NMI
     \/ RaiseInterrupt \/ RaiseNMI

Spec == Init /\ [][Next]_vars
=============================================================================
