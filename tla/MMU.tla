-------------------------------- MODULE MMU --------------------------------
(***************************************************************************)
(* Address translation of one core: the software TLB (TLB_IPE), the        *)
(* segments and privileges in front of it (MMU_IPE), the exceptions a      *)
(* failed translation raises (TLB_Exception_IPE), and the cache of         *)
(* translated pages that is asked first (AddrTranslationCache, used by     *)
(* Processor_IPE::addrTranslation).                                        *)
(*                                                                         *)
(* An address is its page: a segment and a page number.  A TLB entry maps  *)
(* a pair of equal blocks of map.size pages each.  The segments are        *)
(*   "useg"      user and kernel, through the TLB unless ERL is set        *)
(*   "kseg"      kernel, through the TLB (sseg, kseg3, xsseg, xkseg)       *)
(*   "unmapped"  kernel, translated statically (kseg0, kseg1, xkphys)      *)
(*   "cvmseg"    scratch memory of the core                                *)
(*   "hole"      beyond the last valid address of a 64-bit segment         *)
(* The two halves READ < WRITE of LDST are also the values of prot.        *)
(***************************************************************************)
EXTENDS Integers

CONSTANTS N,           \* TLB_MAX_ENTERIES
          CacheSize,   \* INS_CACHE_SIZE
          Pages,       \* the pages the guest touches
          VectorPage,  \* where the exception vectors are
          Asids,
          Maps,        \* values of PageMask, EntryLo0 and EntryLo1
          Wireds,      \* values of Wired
          Statuses,    \* what the guest writes to Status
          Disciplined  \* the guest keeps to GuestRule

READ == 0
WRITE == 1
Idx == 0 .. N - 1
Slots == 0 .. CacheSize - 1
Segments == {"useg", "kseg", "unmapped", "cvmseg", "hole"}
Lo == [pfn : Nat, v : BOOLEAN, d : BOOLEAN, g : BOOLEAN]
Map == [size : Nat \ {0}, lo : [{0, 1} -> Lo]]
Status == [ksu : {"kernel", "supervisor", "user"}, exl : BOOLEAN, erl : BOOLEAN]

ASSUME SizeAssumption == N \in Nat \ {0} /\ CacheSize \in Nat \ {0}
ASSUME PageAssumption ==
  /\ Pages \subseteq [seg : Segments, n : Nat]
  /\ VectorPage \in [seg : {"unmapped"}, n : Nat]
ASSUME RegisterAssumption ==
  /\ Asids \subseteq Nat /\ Maps \subseteq Map /\ Statuses \subseteq Status
  /\ Disciplined \in BOOLEAN
\* tlb_random adds Wired to a random index below it and checks no bound: a
\* guest that wires more than half of the TLB makes it write past the table.
ASSUME WiredAssumption == Wireds \subseteq {w \in Nat : 2 * w <= N}

VARIABLES tlb,         \* tlb_entry
          EntryHi,     \* region, VPN2 and ASID
          EntryLo,     \* PageMask, EntryLo0 and EntryLo1
          Index,       \* the index of Index; its P bit is for the guest only
          Wired,
          status,      \* KSU, EXL and ERL
          cache,       \* InsCache
          Asid,        \* Processor_IPE::Asid
          due,         \* history: the page EntryHi was last set for by an
                       \* exception, NoPage once it has been written again
          astray       \* fetchNextBlock used the result of a translation
                       \* that had failed

vars == <<tlb, EntryHi, EntryLo, Index, Wired, status, cache, Asid, due, astray>>

NoPage == [seg |-> "none", n |-> 0]
Empty == [page |-> NoPage, frame |-> 0, prot |-> READ]
EmptyCache == [s \in Slots |-> Empty]

AllPages == [seg : Segments, n : Nat]
Entry == [r : {0, 3}, vpn : Nat, asid : Nat, g : BOOLEAN, valid : BOOLEAN, map : Map]

\* Every register, TLB entry and cache slot keeps its shape.
TypeOK ==
  /\ tlb \in [Idx -> Entry]
  /\ EntryHi \in [r : {0, 3}, vpn : Nat, asid : Nat]
  /\ EntryLo \in Map
  /\ Index \in Idx
  /\ Wired \in {w \in Nat : 2 * w <= N}
  /\ status \in Status
  /\ cache \in [Slots -> [page : AllPages \cup {NoPage}, frame : Nat, prot : {READ, WRITE}]]
  /\ Asid \in Nat
  /\ due \in AllPages \cup {NoPage}
  /\ astray \in BOOLEAN

ZeroLo == [pfn |-> 0, v |-> FALSE, d |-> FALSE, g |-> FALSE]
ZeroMap == [size |-> 1, lo |-> [h \in {0, 1} |-> ZeroLo]]

\* PageMask, EntryLo0 and EntryLo1 as CP0_IPE::initCP0 sets them: 0, 0, 0x12ebc6
InitLo1 == [pfn |-> 19375, v |-> TRUE, d |-> TRUE, g |-> FALSE]
InitMap == [size |-> 1, lo |-> [h \in {0, 1} |-> IF h = 0 THEN ZeroLo ELSE InitLo1]]

\* reset_Entry leaves G, R, V and D as they were in memory; of these only G is
\* looked at in an entry that is not valid, by tlb_probe.
ResetEntry(g) == [r |-> 0, vpn |-> 0, asid |-> 0, g |-> g, valid |-> FALSE, map |-> ZeroMap]

\* The cache is not cleared by its constructor: its zeroed memory holds the tag
\* of page 0 of useg in slot 0.
ZeroedCache ==
  [EmptyCache EXCEPT ![0] = [page |-> [seg |-> "useg", n |-> 0], frame |-> 0, prot |-> READ]]

\* The last page pair of a segment (2^36 - 1 in the code)
TopVPN == 1048575

Init ==
  /\ \E g \in BOOLEAN : tlb = [i \in Idx |-> ResetEntry(g)]
  /\ EntryHi = [r |-> 3, vpn |-> TopVPN, asid |-> 0]
  /\ EntryLo = InitMap
  /\ Index = 0 /\ Wired = 0
  /\ status = [ksu |-> "kernel", exl |-> FALSE, erl |-> TRUE]
  /\ cache = ZeroedCache
  /\ Asid = 0
  /\ due = NoPage /\ astray = FALSE
-----------------------------------------------------------------------------
(* The TLB *)

Region(p) == IF p.seg \in {"useg", "hole"} THEN 0 ELSE 3
EntryHiFor(p, asid) == [r |-> Region(p), vpn |-> p.n \div 2, asid |-> asid]

\* TLB_Entry_IPE::set_Entry
set_Entry ==
  [r |-> EntryHi.r, vpn |-> EntryHi.vpn, asid |-> EntryHi.asid,
   g |-> EntryLo.lo[0].g /\ EntryLo.lo[1].g, valid |-> TRUE, map |-> EntryLo]

Covers(e, p) == e.r = Region(p) /\ e.vpn \div e.map.size = p.n \div (2 * e.map.size)
ForAsid(e, asid) == e.g \/ e.asid = asid
Matches(t, p, asid) == {i \in Idx : ForAsid(t[i], asid) /\ Covers(t[i], p) /\ t[i].valid}
First(S) == CHOOSE i \in S : \A j \in S : i <= j

Half(e, p) == e.map.lo[(p.n \div e.map.size) % 2]
PFN(e, p) == (Half(e, p).pfn \div e.map.size) * e.map.size + (p.n % e.map.size)

\* What TLB_IPE::GVAtoGPA makes of page p: "match" or the exception it raises.
TLBResult(p, op) ==
  LET m == Matches(tlb, p, EntryHi.asid)
      h == Half(tlb[First(m)], p)
  IN  CASE m = {}                        -> "refill"
        [] m # {} /\ ~h.v                -> "invalid"
        [] m # {} /\ h.v /\ op = WRITE /\ ~h.d -> "modified"
        [] OTHER                         -> "match"
-----------------------------------------------------------------------------
(* Segments and privileges *)

Mode(st) == IF st.exl \/ st.erl THEN "kernel" ELSE st.ksu

\* The supervisor tests of the code are joined by || and refuse every address.
verify_priviliges(st, p) ==
  /\ Mode(st) = "kernel" => p.seg # "hole"
  /\ Mode(st) = "user" => p.seg = "useg"
  /\ Mode(st) # "supervisor"

TLB_NOT_REQUIRED(st, p) == p.seg = "unmapped" \/ (p.seg = "useg" /\ st.erl)

\* MMUTranslator_IPE::GVAtoGPA and TLB_IPE::GVAtoGPA for page p, as a cache slot
Translated(p) ==
  IF TLB_NOT_REQUIRED(status, p)
  THEN [page |-> p, frame |-> p.n, prot |-> WRITE]
  ELSE LET e == tlb[First(Matches(tlb, p, EntryHi.asid))]
       IN  [page |-> p, frame |-> PFN(e, p), prot |-> IF Half(e, p).d THEN WRITE ELSE READ]

Outcome(p, op) ==
  CASE ~verify_priviliges(status, p) -> "address error"
    [] verify_priviliges(status, p) /\ TLB_NOT_REQUIRED(status, p) -> "match"
    [] OTHER -> TLBResult(p, op)
-----------------------------------------------------------------------------
(* The cache of translated pages *)

Slot(p) == p.n % CacheSize
Update_cache(c, entry) == [c EXCEPT ![Slot(entry.page)] = entry]
Check_cache(p, op) == cache[Slot(p)].page = p /\ cache[Slot(p)].prot >= op
-----------------------------------------------------------------------------
(* Exceptions *)

\* Mutant: the status is not changed.
Perform_Exception_NoEXL == status

\* Perform_Exception: a second exception sets ERL.
Perform_Exception == IF status.exl THEN [status EXCEPT !.erl = TRUE]
                                   ELSE [status EXCEPT !.exl = TRUE]

\* Mutant: the region of the page is forgotten.
TLB_Excep_NoRegion(p, outcome) ==
  IF outcome = "address error"
  THEN UNCHANGED <<EntryHi, due>>
  ELSE /\ EntryHi' = [EntryHiFor(p, EntryHi.asid) EXCEPT !.r = 0]
       /\ due' = p

\* TLB_Excep points EntryHi at the page; an address error leaves it alone.
TLB_Excep(p, outcome) ==
  IF outcome = "address error"
  THEN UNCHANGED <<EntryHi, due>>
  ELSE /\ EntryHi' = EntryHiFor(p, EntryHi.asid)
       /\ due' = p

\* fetchNextBlock at the vector, under the new status: the block is there
\* already, or the vector is translated and the outcome is not looked at.
FetchVector(st) ==
  \/ UNCHANGED <<cache, astray>>
  \/ IF verify_priviliges(st, VectorPage)
     THEN /\ cache' = Update_cache(cache, [page |-> VectorPage, frame |-> VectorPage.n, prot |-> WRITE])
          /\ UNCHANGED astray
     ELSE UNCHANGED cache /\ astray' = TRUE

Raise(p, outcome) ==
  /\ TLB_Excep(p, outcome)
  /\ status' = Perform_Exception
  /\ FetchVector(Perform_Exception)
-----------------------------------------------------------------------------
(* Accesses of the guest *)

\* What the guest must keep to for cached translations to be right: it touches
\* no user page while ERL maps useg directly, and no mapped page between a TLBR,
\* which changes the ASID of EntryHi, and the write that restores it.
GuestRule(p) ==
  /\ p.seg = "useg" => ~status.erl
  /\ p.seg \in {"useg", "kseg"} => EntryHi.asid = Asid

\* addrTranslation, for a load or store (handleLDST) or, as a READ, for the next
\* block (fetchNextBlock); both go on at the vector if it fails.
addrTranslation(p, op) ==
  /\ Disciplined => GuestRule(p)
  /\ ~Check_cache(p, op) /\ p.seg # "cvmseg"
  /\ IF Outcome(p, op) = "match"
     THEN /\ cache' = Update_cache(cache, Translated(p))
          /\ UNCHANGED <<EntryHi, status, due, astray>>
     ELSE Raise(p, Outcome(p, op))
  /\ UNCHANGED <<tlb, EntryLo, Index, Wired, Asid>>

\* System call, break, trap, reserved instruction, overflow, interrupt
Trap ==
  /\ status' = Perform_Exception
  /\ FetchVector(Perform_Exception)
  /\ UNCHANGED <<tlb, EntryHi, EntryLo, Index, Wired, Asid, due>>

\* The reset vector is in the segment of the exception vectors.
handleNMI ==
  /\ status' = [status EXCEPT !.erl = TRUE]
  /\ FetchVector([status EXCEPT !.erl = TRUE])
  /\ UNCHANGED <<tlb, EntryHi, EntryLo, Index, Wired, Asid, due>>

eret ==
  /\ status' = IF status.erl THEN [status EXCEPT !.erl = FALSE] ELSE [status EXCEPT !.exl = FALSE]
  /\ UNCHANGED <<tlb, EntryHi, EntryLo, Index, Wired, cache, Asid, due, astray>>
-----------------------------------------------------------------------------
(* Privileged instructions: checking_previlige lets them pass but in user mode *)

checking_previlige == Mode(status) # "user"

mtc0_Status(st) ==
  /\ checking_previlige
  /\ status' = st
  /\ UNCHANGED <<tlb, EntryHi, EntryLo, Index, Wired, cache, Asid, due, astray>>

HandleASIDchange(asid) ==
  /\ cache' = IF Asid # asid THEN EmptyCache ELSE cache
  /\ Asid' = asid

mtc0_EntryHi(p, asid) ==
  /\ checking_previlige
  /\ EntryHi' = EntryHiFor(p, asid)
  /\ due' = NoPage
  /\ HandleASIDchange(asid)
  /\ UNCHANGED <<tlb, EntryLo, Index, Wired, status, astray>>

\* PageMask, EntryLo0 and EntryLo1 matter only together, to a TLB write.
mtc0_EntryLo(m) ==
  /\ checking_previlige
  /\ EntryLo' = m
  /\ UNCHANGED <<tlb, EntryHi, Index, Wired, status, cache, Asid, due, astray>>

mtc0_Index(i) ==
  /\ checking_previlige
  /\ Index' = i
  /\ UNCHANGED <<tlb, EntryHi, EntryLo, Wired, status, cache, Asid, due, astray>>

mtc0_Wired(w) ==
  /\ checking_previlige
  /\ Wired' = w
  /\ UNCHANGED <<tlb, EntryHi, EntryLo, Index, status, cache, Asid, due, astray>>

\* Mutant: the cache is not cleared.
WriteEntry_CacheKept(i) ==
  /\ tlb' = [tlb EXCEPT ![i] = set_Entry]
  /\ UNCHANGED <<EntryHi, EntryLo, Index, Wired, status, cache, Asid, due, astray>>

WriteEntry(i) ==
  /\ tlb' = [tlb EXCEPT ![i] = set_Entry]
  /\ cache' = EmptyCache
  /\ UNCHANGED <<EntryHi, EntryLo, Index, Wired, status, Asid, due, astray>>

TlbWriteI == checking_previlige /\ WriteEntry(Index)

\* Mutant: wired entries are not skipped.
RandomIndex_Any(rnd) == rnd

\* tlb_random: rnd is rand() % TLB_MAX_ENTERIES
RandomIndex(rnd) == IF rnd < Wired THEN rnd + Wired ELSE rnd
TlbWrite(rnd) == checking_previlige /\ WriteEntry(RandomIndex(rnd))

\* The region is not given back.
TlbRead ==
  /\ checking_previlige
  /\ EntryHi' = [r |-> 0, vpn |-> tlb[Index].vpn, asid |-> tlb[Index].asid]
  /\ EntryLo' = tlb[Index].map
  /\ due' = NoPage
  /\ UNCHANGED <<tlb, Index, Wired, status, cache, Asid, astray>>

\* A probe looks neither at the region nor, for the entry it reports, at
\* Validity; it invalidates the next valid entry of the same address.
Probed ==
  {i \in Idx : /\ ForAsid(tlb[i], EntryHi.asid)
               /\ tlb[i].vpn \div tlb[i].map.size = EntryHi.vpn \div tlb[i].map.size}
Duplicates == {i \in Probed : i > First(Probed) /\ tlb[i].valid}

\* Mutant: a probe that finds nothing reports the loop counter.
TlbProbe_Counter ==
  /\ checking_previlige
  /\ Index' = IF Probed = {} THEN N ELSE First(Probed)
  /\ UNCHANGED <<tlb, EntryHi, EntryLo, Wired, status, cache, Asid, due, astray>>

TlbProbe ==
  /\ checking_previlige
  /\ Index' = IF Probed = {} THEN Index ELSE First(Probed)
  /\ tlb' = IF Duplicates = {} THEN tlb
            ELSE [tlb EXCEPT ![First(Duplicates)].valid = FALSE]
  /\ UNCHANGED <<EntryHi, EntryLo, Wired, status, cache, Asid, due, astray>>

Next ==
  \/ \E p \in Pages, op \in {READ, WRITE} : addrTranslation(p, op)
  \/ Trap \/ handleNMI \/ eret
  \/ \E st \in Statuses : mtc0_Status(st)
  \/ \E p \in {q \in Pages : q.seg \in {"useg", "kseg"}}, a \in Asids : mtc0_EntryHi(p, a)
  \/ \E m \in Maps : mtc0_EntryLo(m)
  \/ \E i \in Idx : mtc0_Index(i)
  \/ \E w \in Wireds : mtc0_Wired(w)
  \/ TlbWriteI \/ (\E rnd \in Idx : TlbWrite(rnd)) \/ TlbRead \/ TlbProbe

Spec == Init /\ [][Next]_vars
-----------------------------------------------------------------------------
(* Properties *)

\* Entry e, as the guest wrote it, maps page p to frame f for an op.
Gives(e, p, op, asid, f) ==
  /\ ForAsid(e, asid) /\ Covers(e, p)
  /\ Half(e, p).v /\ (op = WRITE => Half(e, p).d)
  /\ PFN(e, p) = f

\* No stale translation: what addrTranslation finds in the cache for an access
\* the guest may make is what the segment or an entry that is still in the TLB
\* says, for the current ASID and with the permission the access needs.  The
\* cache is cleared by TlbWrite, TlbWriteI and HandleASIDchange only.
CacheAgrees ==
  \A p \in Pages, op \in {READ, WRITE} :
    Check_cache(p, op) /\ GuestRule(p) =>
      \/ p.seg = "unmapped" /\ cache[Slot(p)].frame = p.n
      \/ \E i \in Idx : Gives(tlb[i], p, op, EntryHi.asid, cache[Slot(p)].frame)

\* A refill works: what TLB_Excep leaves in EntryHi makes the next TLB write,
\* whatever the page size, an entry that GVAtoGPA matches with the page that
\* failed.
RefillHits ==
  [][ /\ due # NoPage
      /\ TlbWriteI \/ \E rnd \in Idx : TlbWrite(rnd)
      => Matches(tlb', due, EntryHi.asid) # {} ]_vars

\* fetchNextBlock does not look whether the exception vector could be
\* translated; it always can, since every exception leaves the core in kernel
\* mode.
VectorReached == ~astray

\* A wired entry changes only by a write to its index or by the probe that drops
\* a duplicate: tlb_random never picks it.
WiredKept ==
  [][\A i \in Idx : i < Wired /\ tlb'[i] # tlb[i] => (i = Index /\ TlbWriteI) \/ TlbProbe]_vars
=============================================================================
