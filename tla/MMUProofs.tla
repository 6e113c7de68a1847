----------------------------- MODULE MMUProofs -----------------------------
(* Theorems about MMU, for a TLB and a cache of any size and any pages. *)
EXTENDS MMU, WellFoundedInduction, TLAPS

\* First(S) is the index at which the loops over tlb_entry stop.
LEMMA FirstIn ==
  ASSUME NEW S \in SUBSET Idx, S # {}
  PROVE  First(S) \in S /\ \A j \in S : First(S) <= j
<1>1. S \subseteq Nat
  BY SizeAssumption DEF Idx
<1>2. \E x \in S : \A y \in S : ~(<<y, x>> \in OpToRel(<, Nat))
  BY <1>1, NatLessThanWellFounded, WFMin
<1>3. \E x \in S : \A y \in S : x <= y
  <2>1. PICK x \in S : \A y \in S : ~(<<y, x>> \in OpToRel(<, Nat))
    BY <1>2
  <2>2. ASSUME NEW y \in S PROVE x <= y
    <3>1. ~(y < x)
      BY <2>1, <1>1, <2>2 DEF OpToRel
    <3> QED BY <3>1, <1>1, <2>2
  <2> QED BY <2>2
<1> QED BY <1>3 DEF First

\* Quotients and remainders of page numbers by page sizes are numbers.
LEMMA Quotients ==
  ASSUME NEW a \in Nat, NEW b \in Nat \ {0}
  PROVE  a \div b \in Nat /\ a % b \in Nat /\ a % b < b
OBVIOUS

\* The half of an entry that maps a page, and the frame, have their types.
LEMMA HalfType ==
  ASSUME NEW e \in Entry, NEW p \in AllPages
  PROVE  Half(e, p) \in Lo /\ PFN(e, p) \in Nat
<1> DEFINE z == e.map.size
<1>1. z \in Nat \ {0} /\ e.map.lo \in [{0, 1} -> Lo] /\ p.n \in Nat
  BY DEF Entry, Map, AllPages
<1>2. p.n \div z \in Nat /\ p.n % z \in Nat
  BY <1>1, Quotients
<1>3. (p.n \div z) % 2 \in {0, 1}
  BY <1>2
<1>4. Half(e, p) \in Lo
  BY <1>1, <1>3 DEF Half
<1>5. Half(e, p).pfn \div z \in Nat
  BY <1>4, <1>1, Quotients DEF Lo
<1>6. (Half(e, p).pfn \div z) * z \in Nat
  BY <1>5, <1>1
<1> QED BY <1>2, <1>4, <1>6 DEF PFN

\* EntryHi as an exception or a write sets it for a page
LEMMA EntryHiType ==
  ASSUME NEW p \in AllPages, NEW a \in Nat
  PROVE  EntryHiFor(p, a) \in [r : {0, 3}, vpn : Nat, asid : Nat]
<1>1. p.n \div 2 \in Nat
  BY Quotients DEF AllPages
<1> QED BY <1>1 DEF EntryHiFor, Region

\* A translated page makes a cache slot of the right shape.
LEMMA TranslatedType ==
  ASSUME TypeOK, NEW p \in AllPages, NEW op, Outcome(p, op) = "match"
  PROVE  Translated(p) \in [page : AllPages \cup {NoPage}, frame : Nat, prot : {READ, WRITE}]
<1>1. CASE TLB_NOT_REQUIRED(status, p)
  BY <1>1 DEF Translated, AllPages
<1>2. CASE ~TLB_NOT_REQUIRED(status, p)
  <2> DEFINE m == Matches(tlb, p, EntryHi.asid)
  <2>1. m # {}
    BY <1>2 DEF Outcome, TLBResult
  <2>2. m \in SUBSET Idx
    BY DEF Matches
  <2>3. First(m) \in Idx
    BY <2>1, <2>2, FirstIn
  <2>4. tlb[First(m)] \in Entry
    BY <2>3 DEF TypeOK
  <2>5. Half(tlb[First(m)], p) \in Lo /\ PFN(tlb[First(m)], p) \in Nat
    BY <2>4, HalfType
  <2> QED BY <1>2, <2>5 DEF Translated
<1> QED BY <1>1, <1>2

CacheLine == [page : AllPages \cup {NoPage}, frame : Nat, prot : {READ, WRITE}]

\* Storing a line in the slot of its page keeps the shape of the cache.
LEMMA UpdateType ==
  ASSUME NEW c \in [Slots -> CacheLine], NEW l \in CacheLine
  PROVE  Update_cache(c, l) \in [Slots -> CacheLine]
BY DEF Update_cache

VectorLine == [page |-> VectorPage, frame |-> VectorPage.n, prot |-> WRITE]

\* The line that caches the page of the vectors is a cache line.
LEMMA VectorLineType == VectorLine \in CacheLine
BY PageAssumption DEF VectorLine, CacheLine, AllPages, Segments, READ, WRITE

\* The cache after Clear_cache, and before its first use, has its shape.
LEMMA EmptyType == EmptyCache \in [Slots -> CacheLine] /\ ZeroedCache \in [Slots -> CacheLine]
<1>1. Empty \in CacheLine
  BY DEF Empty, CacheLine, READ, WRITE
<1>2. [page |-> [seg |-> "useg", n |-> 0], frame |-> 0, prot |-> READ] \in CacheLine
  BY DEF CacheLine, AllPages, Segments, READ, WRITE
<1> QED BY <1>1, <1>2 DEF EmptyCache, ZeroedCache

\* An exception keeps the shape of Status.
LEMMA ExceptionType ==
  ASSUME TypeOK
  PROVE  Perform_Exception \in Status
BY DEF TypeOK, Perform_Exception, Status

\* The fetch at the vector keeps the shape of the cache.
LEMMA FetchVectorType ==
  ASSUME TypeOK, NEW st \in Status, FetchVector(st)
  PROVE  cache' \in [Slots -> CacheLine] /\ astray' \in BOOLEAN
<1>1. cache \in [Slots -> CacheLine] /\ astray \in BOOLEAN
  BY DEF TypeOK, CacheLine
<1>2. CASE UNCHANGED <<cache, astray>>
  BY <1>1, <1>2
<1>3. CASE cache' = Update_cache(cache, VectorLine) /\ UNCHANGED astray
  BY <1>1, <1>3, UpdateType, VectorLineType
<1>4. CASE UNCHANGED cache /\ astray' = TRUE
  BY <1>1, <1>4
<1> QED BY <1>2, <1>3, <1>4 DEF FetchVector, VectorLine

\* An invalidated entry is an entry.
LEMMA InvalidatedType ==
  ASSUME NEW e \in Entry
  PROVE  [e EXCEPT !.valid = FALSE] \in Entry
BY DEF Entry

\* Every variable of MMU keeps its type: in particular TLB_Excep, tlb_probe and
\* tlb_random leave indices inside the table.
THEOREM TypeCorrect == Spec => []TypeOK
<1>1. Init => TypeOK
  <2> SUFFICES ASSUME Init PROVE TypeOK
    OBVIOUS
  <2>0. 0 \in Idx /\ 0 \in {w \in Nat : 2 * w <= N}
    BY SizeAssumption DEF Idx
  <2>1. ZeroLo \in Lo
    BY DEF ZeroLo, Lo
  <2>2. ZeroMap \in Map
    BY <2>1 DEF ZeroMap, Map
  <2>3. InitMap \in Map
    <3>1. InitLo1 \in Lo
      BY DEF InitLo1, Lo
    <3> QED BY <2>1, <3>1 DEF InitMap, Map
  <2>4. \A g \in BOOLEAN : ResetEntry(g) \in Entry
    BY <2>2 DEF ResetEntry, Entry
  <2>5. tlb \in [Idx -> Entry]
    BY <2>4 DEF Init
  <2>6. EntryHi \in [r : {0, 3}, vpn : Nat, asid : Nat]
    BY DEF Init, TopVPN
  <2>7. status \in Status
    BY DEF Init, Status
  <2> QED BY <2>0, <2>3, <2>5, <2>6, <2>7, EmptyType DEF Init, TypeOK, CacheLine
<1>2. TypeOK /\ [Next]_vars => TypeOK'
  <2> SUFFICES ASSUME TypeOK, [Next]_vars PROVE TypeOK'
    OBVIOUS
  <2> USE DEF CacheLine
  <2>1. ASSUME NEW p \in Pages, NEW op \in {READ, WRITE}, addrTranslation(p, op) PROVE TypeOK'
    <3>0. p \in AllPages
      BY PageAssumption DEF AllPages
    <3>1. CASE Outcome(p, op) = "match"
      <4>1. Translated(p) \in CacheLine
        BY <3>0, <3>1, TranslatedType
      <4>2. cache' \in [Slots -> CacheLine]
        BY <4>1, <2>1, <3>1, UpdateType DEF addrTranslation, TypeOK
      <4> QED BY <4>2, <2>1, <3>1 DEF addrTranslation, TypeOK
    <3>2. CASE Outcome(p, op) # "match"
      <4>0. Raise(p, Outcome(p, op)) /\ UNCHANGED <<tlb, EntryLo, Index, Wired, Asid>>
        BY <2>1, <3>2 DEF addrTranslation
      <4>1. EntryHi' \in [r : {0, 3}, vpn : Nat, asid : Nat] /\ due' \in AllPages \cup {NoPage}
        <5>1. EntryHi.asid \in Nat
          BY DEF TypeOK
        <5>2. EntryHiFor(p, EntryHi.asid) \in [r : {0, 3}, vpn : Nat, asid : Nat]
          BY <3>0, <5>1, EntryHiType
        <5> QED BY <4>0, <3>0, <5>2 DEF Raise, TLB_Excep, TypeOK
      <4>2. status' \in Status
        BY <4>0, ExceptionType DEF Raise
      <4>3. cache' \in [Slots -> CacheLine] /\ astray' \in BOOLEAN
        BY <4>0, ExceptionType, FetchVectorType DEF Raise
      <4> QED BY <4>0, <4>1, <4>2, <4>3 DEF TypeOK
    <3> QED BY <3>1, <3>2
  <2>2. CASE Trap
    <3>1. cache' \in [Slots -> CacheLine] /\ astray' \in BOOLEAN /\ status' \in Status
      BY <2>2, ExceptionType, FetchVectorType DEF Trap
    <3> QED BY <2>2, <3>1 DEF Trap, TypeOK
  <2>3. CASE handleNMI
    <3>1. [status EXCEPT !.erl = TRUE] \in Status
      BY DEF TypeOK, Status
    <3>2. cache' \in [Slots -> CacheLine] /\ astray' \in BOOLEAN /\ status' \in Status
      BY <2>3, <3>1, FetchVectorType DEF handleNMI
    <3> QED BY <2>3, <3>2 DEF handleNMI, TypeOK
  <2>4. CASE eret
    <3>1. status' \in Status
      BY <2>4 DEF eret, TypeOK, Status
    <3> QED BY <2>4, <3>1 DEF eret, TypeOK
  <2>5. ASSUME NEW st \in Statuses, mtc0_Status(st) PROVE TypeOK'
    BY <2>5, RegisterAssumption DEF mtc0_Status, TypeOK
  <2>6. ASSUME NEW p \in Pages, NEW a \in Asids, mtc0_EntryHi(p, a) PROVE TypeOK'
    <3>1. p \in AllPages /\ a \in Nat
      BY PageAssumption, RegisterAssumption DEF AllPages
    <3>2. EntryHi' \in [r : {0, 3}, vpn : Nat, asid : Nat]
      BY <2>6, <3>1, EntryHiType DEF mtc0_EntryHi, HandleASIDchange
    <3>3. cache' \in [Slots -> CacheLine]
      BY <2>6, EmptyType DEF mtc0_EntryHi, HandleASIDchange, TypeOK
    <3> QED BY <2>6, <3>1, <3>2, <3>3 DEF mtc0_EntryHi, HandleASIDchange, TypeOK
  <2>7. ASSUME NEW m \in Maps, mtc0_EntryLo(m) PROVE TypeOK'
    BY <2>7, RegisterAssumption DEF mtc0_EntryLo, TypeOK
  <2>8. ASSUME NEW i \in Idx, mtc0_Index(i) PROVE TypeOK'
    BY <2>8 DEF mtc0_Index, TypeOK
  <2>9. ASSUME NEW w \in Wireds, mtc0_Wired(w) PROVE TypeOK'
    BY <2>9, WiredAssumption DEF mtc0_Wired, TypeOK
  <2>10. ASSUME NEW i \in Idx, WriteEntry(i) PROVE TypeOK'
    <3>1. set_Entry \in Entry
      BY DEF set_Entry, Entry, TypeOK, Map, Lo
    <3>2. tlb' \in [Idx -> Entry]
      BY <2>10, <3>1 DEF WriteEntry, TypeOK
    <3> QED BY <2>10, <3>2, EmptyType DEF WriteEntry, TypeOK
  <2>11. CASE TlbWriteI
    BY <2>10, <2>11 DEF TlbWriteI, TypeOK
  <2>12. ASSUME NEW rnd \in Idx, TlbWrite(rnd) PROVE TypeOK'
    <3>1. RandomIndex(rnd) \in Idx
      BY SizeAssumption DEF RandomIndex, Idx, TypeOK
    <3> QED BY <2>10, <2>12, <3>1 DEF TlbWrite
  <2>13. CASE TlbRead
    <3>1. tlb[Index] \in Entry
      BY DEF TypeOK
    <3> QED BY <2>13, <3>1 DEF TlbRead, TypeOK, Entry
  <2>14. CASE TlbProbe
    <3>1. Probed \in SUBSET Idx /\ Duplicates \in SUBSET Idx
      BY DEF Probed, Duplicates
    <3>2. Index' \in Idx
      BY <2>14, <3>1, FirstIn DEF TlbProbe, TypeOK
    <3>3. tlb' \in [Idx -> Entry]
      <4>1. CASE Duplicates = {}
        BY <2>14, <4>1 DEF TlbProbe, TypeOK
      <4>2. CASE Duplicates # {}
        <5>1. First(Duplicates) \in Idx
          BY <4>2, <3>1, FirstIn
        <5>2. [tlb[First(Duplicates)] EXCEPT !.valid = FALSE] \in Entry
          BY <5>1, InvalidatedType DEF TypeOK
        <5>3. tlb' = [tlb EXCEPT ![First(Duplicates)] = [tlb[First(Duplicates)] EXCEPT !.valid = FALSE]]
          BY <2>14, <4>2 DEF TlbProbe
        <5> QED BY <5>1, <5>2, <5>3 DEF TypeOK
      <4> QED BY <4>1, <4>2
    <3> QED BY <2>14, <3>2, <3>3 DEF TlbProbe, TypeOK
  <2>15. CASE UNCHANGED vars
    BY <2>15 DEF vars, TypeOK
  <2> QED BY <2>1, <2>2, <2>3, <2>4, <2>5, <2>6, <2>7, <2>8, <2>9, <2>11, <2>12, <2>13, <2>14, <2>15
          DEF Next
<1> QED BY <1>1, <1>2, PTL DEF Spec
-----------------------------------------------------------------------------
(* The cache *)

\* An entry maps a page of a mapped segment to a frame for address space a.
MappedBy(e, c, a) ==
  /\ ForAsid(e, a) /\ Covers(e, c.page)
  /\ Half(e, c.page).v /\ (c.prot = WRITE => Half(e, c.page).d)
  /\ PFN(e, c.page) = c.frame

\* A cache line says what its segment or an entry of the TLB says, under the
\* ASID the processor last saw.
Backed(c, t, a) ==
  \/ c.page \notin Pages
  \/ c.page.seg = "unmapped" /\ c.frame = c.page.n
  \/ c.page.seg \in {"useg", "kseg"} /\ \E i \in Idx : MappedBy(t[i], c, a)

CacheInv == \A s \in Slots : Backed(cache[s], tlb, Asid)

NullPageUnused == [seg |-> "useg", n |-> 0] \notin Pages

\* A cleared cache says nothing.
LEMMA EmptyBacked ==
  ASSUME NEW t, NEW a, NEW s \in Slots
  PROVE  Backed(EmptyCache[s], t, a)
BY PageAssumption DEF Backed, EmptyCache, Empty, NoPage, Segments

\* Updating one slot with a backed line keeps the others.
LEMMA UpdateBacked ==
  ASSUME TypeOK, CacheInv, NEW l \in CacheLine, Backed(l, tlb, Asid),
         cache' = Update_cache(cache, l), UNCHANGED <<tlb, Asid>>
  PROVE  CacheInv'
<1> SUFFICES ASSUME NEW s \in Slots PROVE Backed(cache'[s], tlb, Asid)
  BY DEF CacheInv
<1>1. cache'[s] = l \/ cache'[s] = cache[s]
  BY DEF Update_cache, TypeOK
<1> QED BY <1>1 DEF CacheInv

\* The line for the exception vectors is backed by its segment.
LEMMA FetchVectorBacked ==
  ASSUME TypeOK, CacheInv, NEW st, FetchVector(st), UNCHANGED <<tlb, Asid>>
  PROVE  CacheInv'
<1>1. Backed(VectorLine, tlb, Asid)
  BY PageAssumption DEF Backed, VectorLine
<1>2. CASE UNCHANGED cache
  BY <1>2 DEF CacheInv
<1>3. CASE cache' = Update_cache(cache, VectorLine)
  BY <1>1, <1>3, VectorLineType, UpdateBacked
<1> QED BY <1>2, <1>3 DEF FetchVector, VectorLine

\* A translation that succeeds, for an access within GuestRule, is backed by the
\* segment or by the first entry that matches.
LEMMA TranslatedBacked ==
  ASSUME TypeOK, NEW p \in Pages, NEW op, GuestRule(p), p.seg # "cvmseg",
         Outcome(p, op) = "match"
  PROVE  Backed(Translated(p), tlb, Asid)
<1>1. CASE TLB_NOT_REQUIRED(status, p)
  BY <1>1 DEF TLB_NOT_REQUIRED, GuestRule, Translated, Backed
<1>2. CASE ~TLB_NOT_REQUIRED(status, p)
  <2> DEFINE m == Matches(tlb, p, EntryHi.asid)
             e == tlb[First(m)]
  <2>1. verify_priviliges(status, p) /\ TLBResult(p, op) = "match"
    BY <1>2 DEF Outcome
  <2>2. p.seg \in {"useg", "kseg"}
    <3>1. Mode(status) \in {"kernel", "supervisor", "user"}
      BY DEF Mode, TypeOK, Status
    <3>2. p.seg \in Segments
      BY PageAssumption
    <3> QED BY <3>1, <3>2, <2>1, <1>2 DEF verify_priviliges, TLB_NOT_REQUIRED, Segments
  <2>3. m # {} /\ Half(e, p).v
    BY <2>1 DEF TLBResult
  <2>4. First(m) \in m /\ First(m) \in Idx
    BY <2>3, FirstIn DEF Matches
  <2>5. EntryHi.asid = Asid
    BY <2>2 DEF GuestRule
  <2>6. ForAsid(e, Asid) /\ Covers(e, p)
    BY <2>4, <2>5 DEF Matches
  <2>7. Translated(p) = [page |-> p, frame |-> PFN(e, p), prot |-> IF Half(e, p).d THEN WRITE ELSE READ]
    BY <1>2 DEF Translated
  <2>8. Half(e, p).d \in BOOLEAN
    <3>1. e \in Entry /\ p \in AllPages
      BY <2>4, PageAssumption DEF TypeOK, AllPages
    <3> QED BY <3>1, HalfType DEF Lo
  <2>9. Translated(p).prot = WRITE => Half(e, p).d
    BY <2>7, <2>8 DEF READ, WRITE
  <2>10. MappedBy(e, Translated(p), Asid)
    BY <2>3, <2>6, <2>7, <2>9 DEF MappedBy
  <2> QED BY <2>2, <2>4, <2>7, <2>10 DEF Backed
<1> QED BY <1>1, <1>2

\* A probe changes nothing that backs a line: it touches Validity only.
LEMMA ProbeKeepsBacking ==
  ASSUME TypeOK, TlbProbe, NEW i \in Idx
  PROVE  tlb'[i].r = tlb[i].r /\ tlb'[i].vpn = tlb[i].vpn /\ tlb'[i].asid = tlb[i].asid
         /\ tlb'[i].g = tlb[i].g /\ tlb'[i].map = tlb[i].map
<1>1. tlb'[i] = tlb[i] \/ tlb'[i] = [tlb[i] EXCEPT !.valid = FALSE]
  BY DEF TlbProbe, TypeOK
<1>2. tlb[i] \in Entry
  BY DEF TypeOK
<1> QED BY <1>1, <1>2 DEF Entry

\* No stale translation for a guest that keeps to GuestRule and does not touch
\* page 0 of useg, whose tag is in the uninitialised cache.
THEOREM CacheCoherent ==
  ASSUME Disciplined, NullPageUnused
  PROVE  Spec => []CacheAgrees
<1>1. Init => CacheInv
  <2> SUFFICES ASSUME Init, NEW s \in Slots PROVE Backed(ZeroedCache[s], tlb, Asid)
    BY DEF CacheInv, Init
  <2>1. ZeroedCache[s] = EmptyCache[s] \/ ZeroedCache[s].page = [seg |-> "useg", n |-> 0]
    BY DEF ZeroedCache, EmptyCache
  <2> QED BY <2>1, EmptyBacked, NullPageUnused DEF NullPageUnused, Backed
<1>2. TypeOK /\ CacheInv /\ [Next]_vars => CacheInv'
  <2> SUFFICES ASSUME TypeOK, CacheInv, [Next]_vars PROVE CacheInv'
    OBVIOUS
  <2>0. ASSUME cache' = EmptyCache PROVE CacheInv'
    BY <2>0, EmptyBacked DEF CacheInv
  <2>1. ASSUME NEW p \in Pages, NEW op \in {READ, WRITE}, addrTranslation(p, op) PROVE CacheInv'
    <3>0. GuestRule(p) /\ p.seg # "cvmseg" /\ UNCHANGED <<tlb, Asid>>
      BY <2>1 DEF addrTranslation
    <3>1. CASE Outcome(p, op) = "match"
      <4>1. Translated(p) \in CacheLine
        BY <3>1, TranslatedType, PageAssumption DEF CacheLine, AllPages
      <4>2. Backed(Translated(p), tlb, Asid)
        BY <3>0, <3>1, TranslatedBacked
      <4>3. cache' = Update_cache(cache, Translated(p))
        BY <2>1, <3>1 DEF addrTranslation
      <4> QED BY <3>0, <4>1, <4>2, <4>3, UpdateBacked
    <3>2. CASE Outcome(p, op) # "match"
      <4>1. FetchVector(Perform_Exception)
        BY <2>1, <3>2 DEF addrTranslation, Raise
      <4> QED BY <3>0, <4>1, FetchVectorBacked
    <3> QED BY <3>1, <3>2
  <2>2. CASE Trap
    BY <2>2, FetchVectorBacked DEF Trap
  <2>3. CASE handleNMI
    BY <2>3, FetchVectorBacked DEF handleNMI
  <2>4. ASSUME UNCHANGED <<tlb, cache, Asid>> PROVE CacheInv'
    BY <2>4 DEF CacheInv
  <2>5. ASSUME NEW p \in Pages, NEW a \in Asids, mtc0_EntryHi(p, a) PROVE CacheInv'
    <3>1. CASE Asid = a
      BY <2>4, <2>5, <3>1 DEF mtc0_EntryHi, HandleASIDchange
    <3>2. CASE Asid # a
      BY <2>0, <2>5, <3>2 DEF mtc0_EntryHi, HandleASIDchange
    <3> QED BY <3>1, <3>2
  <2>6. CASE TlbWriteI \/ \E rnd \in Idx : TlbWrite(rnd)
    BY <2>0, <2>6 DEF TlbWriteI, TlbWrite, WriteEntry
  <2>7. CASE TlbProbe
    <3> SUFFICES ASSUME NEW s \in Slots PROVE Backed(cache[s], tlb', Asid)
      BY <2>7 DEF CacheInv, TlbProbe
    <3>1. Backed(cache[s], tlb, Asid)
      BY DEF CacheInv
    <3>2. ASSUME NEW i \in Idx, MappedBy(tlb[i], cache[s], Asid) PROVE MappedBy(tlb'[i], cache[s], Asid)
      BY <2>7, <3>2, ProbeKeepsBacking DEF MappedBy, ForAsid, Covers, Half, PFN
    <3> QED BY <3>1, <3>2 DEF Backed
  <2>8. CASE eret \/ TlbRead \/ (\E st \in Statuses : mtc0_Status(st)) \/ (\E m \in Maps : mtc0_EntryLo(m))
             \/ (\E i \in Idx : mtc0_Index(i)) \/ (\E w \in Wireds : mtc0_Wired(w)) \/ UNCHANGED vars
    BY <2>4, <2>8 DEF eret, TlbRead, mtc0_Status, mtc0_EntryLo, mtc0_Index, mtc0_Wired, vars
  <2> QED BY <2>1, <2>2, <2>3, <2>5, <2>6, <2>7, <2>8 DEF Next
<1>3. TypeOK /\ CacheInv => CacheAgrees
  <2> SUFFICES ASSUME TypeOK, CacheInv, NEW p \in Pages, NEW op \in {READ, WRITE},
                      Check_cache(p, op), GuestRule(p)
               PROVE  \/ p.seg = "unmapped" /\ cache[Slot(p)].frame = p.n
                      \/ \E i \in Idx : Gives(tlb[i], p, op, EntryHi.asid, cache[Slot(p)].frame)
    BY DEF CacheAgrees
  <2> DEFINE c == cache[Slot(p)]
  <2>1. Slot(p) \in Slots
    <3>1. p.n \in Nat
      BY PageAssumption
    <3> QED BY <3>1, Quotients, SizeAssumption DEF Slot, Slots
  <2>2. c \in CacheLine /\ c.page = p /\ c.prot >= op
    BY <2>1 DEF TypeOK, Check_cache, CacheLine
  <2>3. op = WRITE => c.prot = WRITE
    BY <2>2 DEF READ, WRITE, CacheLine
  <2>4. Backed(c, tlb, Asid)
    BY <2>1 DEF CacheInv
  <2>5. CASE p.seg \in {"useg", "kseg"} /\ \E i \in Idx : MappedBy(tlb[i], c, Asid)
    <3>1. PICK i \in Idx : MappedBy(tlb[i], c, Asid)
      BY <2>5
    <3>2. EntryHi.asid = Asid
      BY <2>5 DEF GuestRule
    <3>3. Gives(tlb[i], p, op, EntryHi.asid, c.frame)
      BY <3>1, <3>2, <2>2, <2>3 DEF MappedBy, Gives
    <3> QED BY <3>3
  <2> QED BY <2>2, <2>4, <2>5 DEF Backed
<1> QED BY <1>1, <1>2, <1>3, TypeCorrect, PTL DEF Spec

\* The exception vector can always be translated, whatever mode the core was in.
THEOREM VectorsReached == Spec => []VectorReached
<1>1. Init => VectorReached
  BY DEF Init, VectorReached
<1>2. ASSUME VectorReached, NEW st, st.exl \/ st.erl, FetchVector(st) PROVE ~astray'
  <2>1. verify_priviliges(st, VectorPage)
    BY <1>2, PageAssumption DEF verify_priviliges, Mode
  <2> QED BY <1>2, <2>1 DEF FetchVector, VectorReached
<1>3. TypeOK /\ VectorReached /\ [Next]_vars => VectorReached'
  <2> SUFFICES ASSUME TypeOK, VectorReached, [Next]_vars PROVE ~astray'
    BY DEF VectorReached
  <2>1. Perform_Exception.exl \/ Perform_Exception.erl
    BY DEF Perform_Exception, TypeOK, Status
  <2>2. [status EXCEPT !.erl = TRUE].erl
    BY DEF TypeOK, Status
  <2>3. ASSUME NEW p \in Pages, NEW op \in {READ, WRITE}, addrTranslation(p, op) PROVE ~astray'
    BY <2>1, <2>3, <1>2 DEF addrTranslation, Raise, VectorReached
  <2>4. CASE Trap
    BY <2>1, <2>4, <1>2 DEF Trap
  <2>5. CASE handleNMI
    BY <2>2, <2>5, <1>2 DEF handleNMI
  <2>6. ASSUME UNCHANGED astray PROVE ~astray'
    BY <2>6 DEF VectorReached
  <2> QED BY <2>3, <2>4, <2>5, <2>6
          DEF Next, vars, eret, mtc0_Status, mtc0_EntryHi, HandleASIDchange, mtc0_EntryLo, mtc0_Index, mtc0_Wired,
              TlbWriteI, TlbWrite, WriteEntry, TlbRead, TlbProbe
<1> QED BY <1>1, <1>3, TypeCorrect, PTL DEF Spec

\* TLBWR never replaces a wired entry.
THEOREM WiredEntriesKept == Spec => WiredKept
<1>1. TypeOK /\ [Next]_vars =>
        \A i \in Idx : i < Wired /\ tlb'[i] # tlb[i] => (i = Index /\ TlbWriteI) \/ TlbProbe
  <2> SUFFICES ASSUME TypeOK, [Next]_vars, NEW i \in Idx, i < Wired, tlb'[i] # tlb[i],
                      ~TlbProbe
               PROVE  i = Index /\ TlbWriteI
    OBVIOUS
  <2>1. tlb' # tlb
    OBVIOUS
  <2>2. ASSUME NEW rnd \in Idx, TlbWrite(rnd) PROVE FALSE
    <3>1. RandomIndex(rnd) >= Wired
      BY DEF RandomIndex, TypeOK, Idx
    <3>2. i # RandomIndex(rnd)
      BY <3>1 DEF TypeOK, Idx
    <3> QED BY <2>2, <3>2 DEF TlbWrite, WriteEntry, TypeOK
  <2>3. ASSUME TlbWriteI PROVE i = Index
    BY <2>3 DEF TlbWriteI, WriteEntry, TypeOK
  <2> QED BY <2>1, <2>2, <2>3
          DEF Next, vars, addrTranslation, Trap, handleNMI, eret, mtc0_Status, mtc0_EntryHi, HandleASIDchange,
              mtc0_EntryLo, mtc0_Index, mtc0_Wired, TlbRead
<1> QED BY <1>1, TypeCorrect, PTL DEF Spec, WiredKept
-----------------------------------------------------------------------------
(* The refill of the TLB *)

\* Two numbers between the same multiples of s have the same quotient by s.
LEMMA QuotientUnique ==
  ASSUME NEW s \in Nat \ {0}, NEW a \in Nat, NEW b \in Nat,
         NEW x \in Nat, s * a <= x, x < s * a + s, s * b <= x, x < s * b + s
  PROVE  a = b
<1>1. ASSUME NEW c \in Nat, NEW d \in Nat, c < d PROVE s * c + s <= s * d
  <2>1. s * (c + 1) <= s * d
    BY <1>1
  <2>2. s * (c + 1) = s * c + s
    OBVIOUS
  <2> QED BY <2>1, <2>2
<1> DEFINE sa == s * a
           sb == s * b
<1>2. sa \in Nat /\ sb \in Nat
  OBVIOUS
<1>3. (a < b => sa + s <= sb) /\ (b < a => sb + s <= sa)
  BY <1>1
<1>4. sa <= x /\ x < sa + s /\ sb <= x /\ x < sb + s
  OBVIOUS
<1> HIDE DEF sa, sb
<1> QED BY <1>2, <1>3, <1>4

\* A number lies between the multiples its quotient names.
LEMMA QuotientBounds ==
  ASSUME NEW x \in Nat, NEW s \in Nat \ {0}
  PROVE  s * (x \div s) <= x /\ x < s * (x \div s) + s
OBVIOUS

\* The page pair of a page lies in the same pair of blocks as the page: what
\* EntryHi keeps of the address is enough to match it, whatever PageMask says.
LEMMA PairQuotient ==
  ASSUME NEW n \in Nat, NEW s \in Nat \ {0}
  PROVE  (n \div 2) \div s = n \div (2 * s)
<1> DEFINE h == n \div 2
           a == h \div s
           b == n \div (2 * s)
           sa == s * a
           sb == s * b
<1>1. h \in Nat /\ 2 * h <= n /\ n < 2 * h + 2
  OBVIOUS
<1>2. 2 * s \in Nat \ {0}
  OBVIOUS
<1>3. a \in Nat /\ b \in Nat
  BY <1>1, <1>2, Quotients
<1>4. sa <= h /\ h < sa + s
  <2> HIDE DEF h
  <2> QED BY <1>1, QuotientBounds
<1>5. (2 * s) * b <= n /\ n < (2 * s) * b + 2 * s
  BY <1>2, QuotientBounds
<1>6. sa \in Nat /\ sb \in Nat
  <2> HIDE DEF a, b
  <2> QED BY <1>3
<1>7. (2 * s) * b = 2 * sb
  <2> HIDE DEF b
  <2> QED BY <1>3
<1>8. sb <= h /\ h < sb + s
  <2> DEFINE t == (2 * s) * b
  <2>1. t <= n /\ n < t + 2 * s /\ t = 2 * sb
    BY <1>5, <1>7
  <2> HIDE DEF h, sa, sb, t
  <2> QED BY <1>1, <1>6, <2>1
<1>9. a = b
  <2> HIDE DEF h, a, b
  <2> QED BY <1>1, <1>3, <1>4, <1>8, QuotientUnique
<1> QED BY <1>9

\* The inductive invariant: EntryHi still names the page of the last refill
\* exception until the guest or a TLBR writes it.
DueNamed ==
  due # NoPage => EntryHi.r = Region(due) /\ EntryHi.vpn = due.n \div 2

\* Only an exception sets due, and TLB_Excep then sets EntryHi for that page.
LEMMA DueNamedStep ==
  ASSUME DueNamed, [Next]_vars
  PROVE  DueNamed'
<1>1. ASSUME UNCHANGED <<due, EntryHi>> PROVE DueNamed'
  BY <1>1 DEF DueNamed
<1>2. ASSUME due' = NoPage PROVE DueNamed'
  BY <1>2 DEF DueNamed
<1>3. ASSUME NEW p \in Pages, NEW op \in {READ, WRITE}, addrTranslation(p, op)
      PROVE  DueNamed'
  <2>1. CASE Outcome(p, op) = "match"
    BY <1>1, <1>3, <2>1 DEF addrTranslation
  <2>2. CASE Outcome(p, op) # "match"
    <3>1. TLB_Excep(p, Outcome(p, op))
      BY <1>3, <2>2 DEF addrTranslation, Raise
    <3>2. CASE Outcome(p, op) = "address error"
      BY <1>1, <3>1, <3>2 DEF TLB_Excep
    <3>3. CASE Outcome(p, op) # "address error"
      <4>1. EntryHi' = EntryHiFor(p, EntryHi.asid) /\ due' = p
        BY <3>1, <3>3 DEF TLB_Excep
      <4> QED BY <4>1 DEF DueNamed, EntryHiFor
    <3> QED BY <3>2, <3>3
  <2> QED BY <2>1, <2>2
<1>4. CASE Trap \/ handleNMI \/ eret
  BY <1>1, <1>4 DEF Trap, handleNMI, eret
<1>5. ASSUME NEW p, NEW a, mtc0_EntryHi(p, a) PROVE DueNamed'
  BY <1>2, <1>5 DEF mtc0_EntryHi
<1>6. CASE TlbRead
  BY <1>2, <1>6 DEF TlbRead
<1> QED BY <1>1, <1>3, <1>4, <1>5, <1>6
        DEF Next, vars, mtc0_Status, mtc0_EntryLo, mtc0_Index, mtc0_Wired,
            TlbWriteI, TlbWrite, WriteEntry, TlbProbe

\* The entry set_Entry makes of EntryHi covers the page due names, for the
\* current ASID, and is valid.
LEMMA EntryForDue ==
  ASSUME TypeOK, DueNamed, due # NoPage
  PROVE  /\ ForAsid(set_Entry, EntryHi.asid)
         /\ Covers(set_Entry, due)
         /\ set_Entry.valid
<1> DEFINE z == EntryLo.size
<1>1. z \in Nat \ {0} /\ due.n \in Nat
  BY DEF TypeOK, Map, AllPages
<1>2. EntryHi.vpn \div z = due.n \div (2 * z)
  BY <1>1, PairQuotient DEF DueNamed
<1>3. Covers(set_Entry, due)
  BY <1>2 DEF Covers, set_Entry, DueNamed
<1> QED BY <1>3 DEF set_Entry, ForAsid

\* A TLB write stores set_Entry at an index of the table.
LEMMA WriteMatches ==
  ASSUME TypeOK, DueNamed, due # NoPage, NEW i \in Idx, WriteEntry(i)
  PROVE  Matches(tlb', due, EntryHi.asid) # {}
<1>1. tlb'[i] = set_Entry
  BY DEF WriteEntry, TypeOK
<1>2. i \in Matches(tlb', due, EntryHi.asid)
  BY <1>1, EntryForDue DEF Matches
<1> QED BY <1>2

\* RefillHits: after a refill, invalid or modified exception, the next TLB
\* write matches the page that failed, for pages of every size.
THEOREM RefillsHit == Spec => RefillHits
<1>1. Init => DueNamed
  BY DEF Init, DueNamed
<1>2. DueNamed /\ [Next]_vars => DueNamed'
  BY DueNamedStep
<1>3. ASSUME TypeOK, DueNamed
      PROVE  /\ due # NoPage
             /\ TlbWriteI \/ \E rnd \in Idx : TlbWrite(rnd)
             => Matches(tlb', due, EntryHi.asid) # {}
  <2>1. ASSUME due # NoPage, TlbWriteI PROVE Matches(tlb', due, EntryHi.asid) # {}
    BY <1>3, <2>1, WriteMatches DEF TlbWriteI, TypeOK
  <2>2. ASSUME due # NoPage, NEW rnd \in Idx, TlbWrite(rnd)
        PROVE  Matches(tlb', due, EntryHi.asid) # {}
    <3>1. Wired \in Nat /\ 2 * Wired <= N
      BY <1>3 DEF TypeOK
    <3>2. RandomIndex(rnd) \in Idx
      BY <3>1, SizeAssumption DEF RandomIndex, Idx
    <3> QED BY <1>3, <2>2, <3>2, WriteMatches DEF TlbWrite
  <2> QED BY <2>1, <2>2
<1> QED BY <1>1, <1>2, <1>3, TypeCorrect, PTL DEF Spec, RefillHits
=============================================================================
