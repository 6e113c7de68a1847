------------------------------ MODULE MCBlocks ------------------------------
(***************************************************************************)
(* Guests for Blocks.  Each one boots, enters code at user or kernel level *)
(* that has one word put in a given place, and has an exception handler    *)
(* that acknowledges the timer, switches to another address space and      *)
(* returns.                                                                *)
(***************************************************************************)
EXTENDS Blocks

I(op, rs, rt, imm) ==
  [op |-> op, rs |-> rs, rt |-> rt, rd |-> imm \div 2048, sh |-> (imm \div 64) % 32,
   fn |-> imm % 64]
R(op, rs, rt, rd, sh, fn) ==
  [op |-> op, rs |-> rs, rt |-> rt, rd |-> rd, sh |-> sh, fn |-> fn]
Ori(r, v) == I(13, 0, r, v)
Mtc0(r, cp) == R(16, 4, r, cp, 0, 0)
EretWord == R(16, 16, 0, 0, 0, 24)
Lui(r, v) == I(15, 0, r, v)
Add(r, s, v) == I(13, s, r, v)
Jmp(a) == I(2, 0, 0, (a % Region) \div 4)
Beq(imm) == I(4, 0, 0, imm)

(* Where things are: user code in another region than the kernel's.        *)
(* Frames of user pages are never neighbours.                              *)
Kernel == 192
User == Region + 256
Frame(n) == 320 + 32 * n

(* Register 4 has the entry, register 1 the address of its second page.    *)
Boot(entry, st) ==
  <<Ori(1, 1), Mtc0(1, 10), Lui(4, entry \div 65536), Add(4, 4, entry % 65536), Mtc0(4, 14),
    Ori(2, st), Mtc0(2, 12), Add(1, 4, 16), EretWord, Jmp(64), Nop>>
Handler == <<Ori(3, 2), Mtc0(3, 10), Mtc0(0, 11), EretWord, Jmp(64), Nop>>

(* Four words of the first page; the second page goes back to the first.   *)
Second(e) == <<Ori(2, 7), Jmp(e), Ori(2, 3), Nop>>
Templates == {"first", "last", "slot"}
First(place, x) ==
  CASE place = "first" -> <<x, Add(1, 4, 16), Ori(2, 9), Nop>>
    [] place = "last" -> <<Add(1, 4, 16), x, Ori(1, 1), Nop>>
    [] place = "slot" -> <<Add(1, 4, 16), Beq(2), x, Nop>>

(* What lies after the frame of a user page.                               *)
Foreign == <<Nop, Ori(2, 11), R(0, 2, 0, 0, 0, 8), Nop>>

(* A guest: the level its code runs at, its word and the word's place.  In *)
(* address space 2 the first page has other code.                          *)
Guest(user, place, x) == [user |-> user, place |-> place, word |-> x]
Entry(g) == IF g.user THEN User ELSE Kernel
Pad(s, n) == s \o SubSeq([k \in 1 .. n |-> Nop], 1, n - Len(s))
Memory(g) ==
  Pad(<<Nop>>, 16) \o Pad(Boot(Entry(g), IF g.user THEN 19 ELSE 1), 20) \o Pad(Handler, 12)
    \o IF g.user
       THEN Pad(<<Nop>>, 32)
              \o First(g.place, g.word) \o Foreign
              \o Second(User) \o Foreign
              \o First("first", Ori(2, 5)) \o Foreign
       ELSE First(g.place, g.word) \o Second(Kernel)
MCFrameIn(g, a, page) ==
  CASE g.user /\ a = 1 /\ page = User \div 16 -> {Frame(0) \div 16}
    [] g.user /\ a = 2 /\ page = User \div 16 -> {Frame(2) \div 16}
    [] g.user /\ a \in {1, 2} /\ page = User \div 16 + 1 -> {Frame(1) \div 16}
    [] OTHER -> {}

-----------------------------------------------------------------------------
(* The words: for each translator the encodings that differ in what they   *)
(* read, write or may raise, and for each table a word it has no handler   *)
(* for.                                                                    *)

Computers ==
  {R(0, 1, 2, 2, 0, fn) : fn \in {0, 15, 16, 24, 32, 33}}
    \cup {I(op, 1, 2, 12) : op \in {8, 9, 35, 43, 47, 48, 56}}
    \cup {R(28, 1, 2, 2, 0, fn) : fn \in {0, 2, 8, 17, 24, 46, 50, 58}}
    \cup {R(31, 1, 2, 2, 0, fn) : fn \in {0, 4, 32, 59}}
Exceptions ==
  {R(0, 1, 2, 2, 0, fn) : fn \in {12, 13, 48, 52, 54}}
    \cup {I(1, 1, rt, 12) : rt \in {8, 12, 14, 31}} \cup {I(1, 1, 8, 65535)}
Privileges ==
  {R(16, rs, 2, 14, 0, 0) : rs \in {0, 4}} \cup {R(16, 4, 2, 12, 0, 0)}
    \cup {R(16, 11, 2, 0, 0, fn) : fn \in {0, 32}}
    \cup {R(16, 16, 0, 0, 0, fn) : fn \in {2, 24, 31, 32}}
Reserveds ==
  {R(0, 1, 2, 2, 0, 5), I(1, 1, 4, 12), R(16, 2, 2, 0, 0, 0), R(16, 16, 0, 0, 0, 3),
   R(28, 1, 2, 2, 0, 6), R(31, 1, 2, 2, 0, 8), I(29, 1, 2, 3)}
(* The same with register 0 as the destination.                            *)
Zeros ==
  {[w EXCEPT !.rd = 0] : w \in {x \in Computers : x.op \in {0, 28, 31}}}
    \cup {[w EXCEPT !.rt = 0] : w \in {x \in Computers : x.op \notin {0, 28}}}
    \cup {R(16, 11, 0, 0, 0, fn) : fn \in {0, 32}}
Branches(imm) ==
  {I(op, r, 2 * r, imm) : op \in {4, 5, 20, 21}, r \in {0, 1}}
    \cup {I(op, 1, 0, imm) : op \in {6, 7, 22, 23}}
    \cup {I(1, 1, rt, imm) : rt \in {0, 1, 2, 3, 17, 19}}
    \cup {I(50, 1, 4, imm)}
Registers == {R(0, 1, 2, 2, 0, fn) : fn \in {8, 9}}

Jumps(e) == Registers \cup {Jmp(e + 16), I(3, 0, 0, ((e + 20) % Region) \div 4)}

(* The longest branches whose offset, counted from the branch itself, is a *)
(* number of 16 bits.                                                      *)
Longest == {I(op, 0, 0, imm) : op \in {4, 20}, imm \in {8190, 57343}}

(* The translators that store to register 0 when it is named: nothing sets *)
(* it to zero again.                                                       *)
CorruptsZero(w) ==
  LET t == findInstrCase(w)
  IN 0 \in Stored(w) \/ (t = "mfc0" /\ w.rt = 0) \/ (t = "jalr" /\ w.rd = 0)

(* The guests this engine is made for have no ERET or WAIT in a slot, and  *)
(* at user level none of the privileged instructions that are translated   *)
(* without a test of the privilege.  Their words leave out, too, MTHI and  *)
(* MTLO, VMULU and VMM0, for which nothing is emitted; the traps           *)
(* on an order but TGE, decided by the sign of a difference; coprocessor   *)
(* branches, opcode 59, branches in a slot, and reserved words behind      *)
(* others in their block, where the process ends before they are reached;  *)
(* the words that corrupt register 0, branches longer than Longest, whose  *)
(* offset is cut to 16 bits, and jumps in the last word of a region.       *)
Plain(g) ==
  LET t == findInstrCase(g.word)
      returns == t \in {"eret", "wait"}
  IN /\ ~CorruptsZero(g.word)
     /\ g.place = "slot" => ~returns
     /\ g.user => ~returns /\ ~(g.word.op = 16 /\ t = "nop")

(* A branch taken for a drotr, and a word past the end of a table: the     *)
(* core goes astray and nothing is said of what follows.                   *)
Strays == {I(1, 0, 1, 58), R(16, 16, 0, 0, 0, 40)}

(* Branches to the second page, and to themselves.                         *)
Sample ==
  UNION {
    [user : {TRUE}, place : {"slot"}, word : Computers \cup Exceptions],
    [user : {FALSE}, place : {"first"}, word : Computers \cup Exceptions \cup Reserveds \cup Zeros],
    [user : {TRUE}, place : {"first"}, word : Privileges],
    [user : {FALSE}, place : {"last", "slot"}, word : Privileges],
    [user : {TRUE}, place : {"last"}, word : Branches(3) \cup Jumps(User) \cup Longest],
    [user : {FALSE}, place : {"first"}, word : Branches(65535) \cup Jumps(Kernel) \cup Longest]}

(* Each with its memory, as the words from address 0 on.                   *)
Loaded(g) == [user |-> g.user, place |-> g.place, word |-> g.word, memory |-> Memory(g)]
MCPrograms ==
  {Loaded(g) : g \in {h \in Sample : Plain(h)}
                       \cup [user : {FALSE}, place : {"first"}, word : Strays]}
MCWordIn(g, pa) == IF pa \div 4 < Len(g.memory) THEN g.memory[pa \div 4 + 1] ELSE Nop
=============================================================================
