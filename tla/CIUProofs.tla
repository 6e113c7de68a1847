----------------------------- MODULE CIUProofs -----------------------------
(* Theorems about CIU, for any number of cores and any set of stores that  *)
(* the guest may make.                                                     *)
EXTENDS CIU, TLAPS

(* The fields of a store, whatever its register.                           *)
LEMMA StoreFields ==
  ASSUME NEW s \in Stores
  PROVE  /\ s.by \in Core
         /\ s.to \in Core
         /\ s.k \in {0, 1}
         /\ s.reg \in EN0Regs \cup EN4Regs \cup SumRegs => s.data \in SUBSET Sources
         /\ s.reg \in MboxRegs => s.data \in SUBSET MboxBits
         /\ s.reg = "NMI" => s.data \in SUBSET NMIBits
  BY StoresAssumption
     DEF AllStores, EN0Regs, EN4Regs, SumRegs, MboxRegs

(* The words of the EN4 registers of a core are words of the EN4 area.     *)
LEMMA EN4WordsOf ==
  ASSUME NEW c \in Core, NEW k \in {0, 1}
  PROVE  c \in EN4Words /\ 2 * c + k \in EN4Words
  BY CoreAssumption DEF Core, EN4Words

-----------------------------------------------------------------------------
(* Type correctness *)

(* The lines computed for a core are lines.                                *)
LEMMA LinesType ==
  ASSUME TypeOK, NEW c \in Core, updateInterrupt(c)
  PROVE  ip' \in [Core -> SUBSET {"IP2", "IP3", "IP4"}]
  BY DEF TypeOK, updateInterrupt, Line2, Line3, Line4

(* The registers start well typed (setMappings over zeroed memory).        *)
LEMMA TypeInit == Init => TypeOK
  BY DEF Init, TypeOK

(* Changing the summaries of one core keeps both summary arrays well       *)
(* typed, as handleMboxSet and handleMboxClr need.                         *)
LEMMA SetSourcesType ==
  ASSUME TypeOK, NEW c \in Core, NEW added \in SUBSET Sources,
         NEW removed \in SUBSET Sources, SetSources(c, added, removed)
  PROVE  /\ sum0' \in [Core -> [{0, 1} -> SUBSET Sources]]
         /\ sum4' \in [Core -> SUBSET Sources]
  BY DEF TypeOK, SetSources

RegsOK ==
  /\ sum0 \in [Core -> [{0, 1} -> SUBSET Sources]]
  /\ sum4 \in [Core -> SUBSET Sources]
  /\ en0 \in [Core -> [{0, 1} -> SUBSET Sources]]
  /\ en4 \in [EN4Words -> SUBSET Sources]
  /\ mboxSet \in [Core -> SUBSET MboxBits]
  /\ mboxClr \in [Core -> SUBSET MboxBits]
  /\ nmiReg \in SUBSET NMIBits
  /\ nmi \in [Core -> BOOLEAN]
  /\ ip \in [Core -> SUBSET {"IP2", "IP3", "IP4"}]
  /\ running \in BOOLEAN

(* Every handler of updateFlags keeps the registers well typed.            *)
LEMMA HandlersType ==
  ASSUME TypeOK, NEW s \in Stores,
         \/ handleEnable0(s) \/ handleEnable4(s) \/ handleEnable4_W1C(s)
         \/ handleMboxSet(s) \/ handleMboxClr(s) \/ sendNMI(s)
         \/ SoftReset(s) \/ NoHandler(s)
  PROVE  RegsOK'
<1>a. /\ s.to \in Core /\ s.k \in {0, 1} /\ s.to \in EN4Words
  BY StoreFields, EN4WordsOf
<1>1. CASE handleEnable0(s)
  <2>1. s.data \in SUBSET Sources
    BY <1>1, StoreFields DEF handleEnable0
  <2>2. en0' \in [Core -> [{0, 1} -> SUBSET Sources]]
    BY <1>1, <1>a, <2>1 DEF handleEnable0, TypeOK, EN0Regs, EN0_W1C, EN0_W1S
  <2>3. ip' \in [Core -> SUBSET {"IP2", "IP3", "IP4"}]
    BY <1>1, <1>a, LinesType DEF handleEnable0
  <2> QED
    BY <1>1, <2>2, <2>3 DEF handleEnable0, TypeOK, RegsOK
<1>2. CASE handleEnable4(s)
  <2>1. s.data \in SUBSET Sources
    BY <1>2, StoreFields DEF handleEnable4, EN4Regs
  <2>2. en4' \in [EN4Words -> SUBSET Sources]
    BY <1>2, <1>a, <2>1 DEF handleEnable4, TypeOK, EN4_W1S
  <2>3. ip' \in [Core -> SUBSET {"IP2", "IP3", "IP4"}]
    BY <1>2, <1>a, LinesType DEF handleEnable4
  <2> QED
    BY <1>2, <2>2, <2>3 DEF handleEnable4, TypeOK, RegsOK
<1>3. CASE handleEnable4_W1C(s)
  <2>1. en4' \in [EN4Words -> SUBSET Sources]
    BY <1>3, <1>a DEF handleEnable4_W1C, TypeOK, EN4_W1C
  <2>2. ip' \in [Core -> SUBSET {"IP2", "IP3", "IP4"}]
    BY <1>3, LinesType DEF handleEnable4_W1C, TypeOK
  <2>3. running' \in BOOLEAN
    BY <1>3 DEF handleEnable4_W1C, TypeOK
  <2> QED
    BY <1>3, <2>1, <2>2, <2>3 DEF handleEnable4_W1C, TypeOK, RegsOK
<1>4. CASE handleMboxSet(s)
  <2>1. s.data \in SUBSET MboxBits
    BY <1>4, StoreFields DEF handleMboxSet, MboxRegs
  <2>2. /\ mboxSet' \in [Core -> SUBSET MboxBits]
        /\ mboxClr' \in [Core -> SUBSET MboxBits]
    BY <1>4, <1>a, <2>1 DEF handleMboxSet, TypeOK
  <2>3. /\ sum0' \in [Core -> [{0, 1} -> SUBSET Sources]]
        /\ sum4' \in [Core -> SUBSET Sources]
    <3> DEFINE raised == CASE s.data \cap LowerBits # {} -> {MBOX0}
                           [] s.data \cap LowerBits = {}
                                /\ s.data \cap UpperBits # {} -> {MBOX1}
                           [] OTHER -> {}
    <3>1. raised \in SUBSET Sources
      BY DEF Sources
    <3>2. SetSources(s.to, raised, {})
      BY <1>4 DEF handleMboxSet
    <3> HIDE DEF raised
    <3> QED
      BY <1>a, <3>1, <3>2, {} \in SUBSET Sources, SetSourcesType
  <2>4. ip' \in [Core -> SUBSET {"IP2", "IP3", "IP4"}]
    BY <1>4, <1>a, LinesType DEF handleMboxSet
  <2> QED
    BY <1>4, <2>2, <2>3, <2>4 DEF handleMboxSet, TypeOK, RegsOK
<1>5. CASE handleMboxClr(s)
  <2>1. /\ mboxSet' \in [Core -> SUBSET MboxBits]
        /\ mboxClr' \in [Core -> SUBSET MboxBits]
    BY <1>5, <1>a DEF handleMboxClr, TypeOK
  <2>2. /\ sum0' \in [Core -> [{0, 1} -> SUBSET Sources]]
        /\ sum4' \in [Core -> SUBSET Sources]
    <3>1. PICK removed \in SUBSET Sources : SetSources(s.to, {}, removed)
      BY <1>5 DEF handleMboxClr, Sources
    <3> QED
      BY <1>a, <3>1, SetSourcesType
  <2>3. ip' \in [Core -> SUBSET {"IP2", "IP3", "IP4"}]
    BY <1>5, <1>a, LinesType DEF handleMboxClr
  <2> QED
    BY <1>5, <2>1, <2>2, <2>3 DEF handleMboxClr, TypeOK, RegsOK
<1>6. CASE sendNMI(s)
  <2>1. nmi' \in [Core -> BOOLEAN]
    BY <1>6 DEF sendNMI, TypeOK
  <2> QED
    BY <1>6, <2>1 DEF sendNMI, TypeOK, RegsOK
<1>7. CASE SoftReset(s) \/ NoHandler(s)
  BY <1>7 DEF SoftReset, NoHandler, TypeOK, RegsOK, regs
<1> QED
  BY <1>1, <1>2, <1>3, <1>4, <1>5, <1>6, <1>7

(* Every step keeps TypeOK.                                                *)
LEMMA TypeStep == TypeOK /\ [Next]_vars => TypeOK'
<1> SUFFICES ASSUME TypeOK, [Next]_vars PROVE TypeOK'
  OBVIOUS
<1>1. CASE updateFlags
  <2>1. RegsOK'
    BY <1>1, HandlersType DEF updateFlags, TypeOK
  <2>2. message' \in SUBSET Stores /\ store' \in SUBSET Stores
    BY <1>1 DEF updateFlags, TypeOK
  <2> QED
    BY <2>1, <2>2 DEF RegsOK, TypeOK
<1>2. ASSUME NEW s \in Stores, Post(s) PROVE TypeOK'
  BY <1>2 DEF Post, TypeOK, regs
<1>3. ASSUME NEW s \in Stores, RawStore(s) PROVE TypeOK'
  <2>1. s.to \in Core /\ s.k \in {0, 1} /\ 2 * s.to + s.k \in EN4Words
    BY StoreFields, EN4WordsOf
  <2>2. en0' \in [Core -> [{0, 1} -> SUBSET Sources]]
    BY <1>3, <2>1, StoreFields DEF RawStore, TypeOK, EN0Regs
  <2>3. en4' \in [EN4Words -> SUBSET Sources]
    <3>1. CASE s.reg = "EN4"
      <4>1. s.data \in SUBSET Sources
        BY <3>1, StoreFields DEF EN4Regs
      <4>2. en4' = [en4 EXCEPT ![2 * s.to + s.k] = s.data]
        BY <1>3, <3>1 DEF RawStore
      <4> QED
        BY <2>1, <4>1, <4>2 DEF TypeOK
    <3>2. CASE s.reg # "EN4"
      BY <1>3, <3>2 DEF RawStore, TypeOK
    <3> QED
      BY <3>1, <3>2
  <2>4. /\ mboxSet' \in [Core -> SUBSET MboxBits]
        /\ mboxClr' \in [Core -> SUBSET MboxBits]
        /\ nmiReg' \in SUBSET NMIBits
    BY <1>3, <2>1, StoreFields DEF RawStore, TypeOK, MboxRegs
  <2>5. /\ sum0' \in [Core -> [{0, 1} -> SUBSET Sources]]
        /\ sum4' \in [Core -> SUBSET Sources]
    BY <1>3, <2>1, StoreFields DEF RawStore, TypeOK, SumRegs
  <2>6. store' \in SUBSET Stores
    BY <1>3 DEF RawStore, TypeOK
  <2> QED
    BY <1>3, <2>2, <2>3, <2>4, <2>5, <2>6 DEF RawStore, TypeOK
<1>4. ASSUME NEW c \in Core, takeNMI(c) PROVE TypeOK'
  BY <1>4 DEF takeNMI, TypeOK
<1>5. ASSUME NEW d \in DeviceSources, generateInterrupt(d) \/ clearInterrupt(d)
      PROVE  TypeOK'
  <2>1. /\ sum0' \in [Core -> [{0, 1} -> SUBSET Sources]]
        /\ sum4' \in [Core -> SUBSET Sources]
    BY <1>5 DEF generateInterrupt, clearInterrupt, TypeOK, Sources
  <2>2. ip' \in [Core -> SUBSET {"IP2", "IP3", "IP4"}]
    BY <1>5 DEF generateInterrupt, clearInterrupt, updateAllInterrupts,
                Line2, Line3, Line4
  <2> QED
    BY <1>5, <2>1, <2>2 DEF generateInterrupt, clearInterrupt, TypeOK
<1>6. CASE UNCHANGED vars
  BY <1>6 DEF vars, regs, TypeOK
<1> QED
  BY <1>1, <1>2, <1>3, <1>4, <1>5, <1>6 DEF Next

(* TypeOK holds in every reachable state, for every set of guest stores:   *)
(* in particular sendNMI never reaches past the cores that exist, and the  *)
(* raw EN4 stores stay in the words of the EN4 area.                       *)
THEOREM TypeCorrect == Spec => []TypeOK
  BY TypeInit, TypeStep, PTL DEF Spec

-----------------------------------------------------------------------------
(* The summary words *)

(* The guest does not store to the summary words themselves.               *)
NoSumStores == \A s \in Stores : s.reg \notin SumRegs

(* Adding and removing sources keeps the three words of a core equal.      *)
LEMMA SetSourcesAgree ==
  ASSUME TypeOK, SummariesAgree, NEW c \in Core, NEW added, NEW removed,
         SetSources(c, added, removed)
  PROVE  SummariesAgree'
  BY DEF TypeOK, SummariesAgree, SetSources

(* Every step keeps the summary words of every core equal.                 *)
LEMMA SummariesStep ==
  NoSumStores /\ TypeOK /\ SummariesAgree /\ [Next]_vars => SummariesAgree'
<1> SUFFICES ASSUME NoSumStores, TypeOK, SummariesAgree, [Next]_vars
             PROVE  SummariesAgree'
  OBVIOUS
<1>1. CASE updateFlags
  <2>1. PICK s \in message :
          \/ handleEnable0(s) \/ handleEnable4(s) \/ handleEnable4_W1C(s)
          \/ handleMboxSet(s) \/ handleMboxClr(s) \/ sendNMI(s)
          \/ SoftReset(s) \/ NoHandler(s)
    BY <1>1 DEF updateFlags
  <2>2. s.to \in Core
    BY StoreFields DEF TypeOK
  <2>3. CASE handleMboxSet(s) \/ handleMboxClr(s)
    BY <2>2, <2>3, SetSourcesAgree DEF handleMboxSet, handleMboxClr
  <2>4. CASE ~(handleMboxSet(s) \/ handleMboxClr(s))
    BY <2>1, <2>4 DEF handleEnable0, handleEnable4, handleEnable4_W1C, sendNMI,
                      SoftReset, NoHandler, regs, SummariesAgree
  <2> QED
    BY <2>3, <2>4
<1>2. ASSUME NEW s \in Stores, Post(s) \/ RawStore(s) PROVE SummariesAgree'
  BY <1>2 DEF Post, RawStore, regs, NoSumStores, SumRegs, SummariesAgree
<1>3. ASSUME NEW c \in Core, takeNMI(c) PROVE SummariesAgree'
  BY <1>3 DEF takeNMI, SummariesAgree
<1>4. ASSUME NEW d \in DeviceSources, generateInterrupt(d) \/ clearInterrupt(d)
      PROVE  SummariesAgree'
  <2>1. CASE generateInterrupt(d)
    <3>1. \A c \in Core : /\ sum0'[c][0] = sum0[c][0] \cup {d}
                          /\ sum0'[c][1] = sum0[c][1] \cup {d}
                          /\ sum4'[c] = sum4[c] \cup {d}
      BY <2>1 DEF generateInterrupt
    <3>2. \A c \in Core : sum0'[c][0] = sum0'[c][1] /\ sum0'[c][1] = sum4'[c]
      <4> TAKE c \in Core
      <4>1. sum0[c][0] = sum0[c][1] /\ sum0[c][1] = sum4[c]
        BY DEF SummariesAgree
      <4> QED
        BY <3>1, <4>1
    <3> QED
      BY <3>2 DEF SummariesAgree
  <2>2. CASE clearInterrupt(d)
    <3>1. \A c \in Core : /\ sum0'[c][0] = sum0[c][0] \ {d}
                          /\ sum0'[c][1] = sum0[c][1] \ {d}
                          /\ sum4'[c] = sum4[c] \ {d}
      BY <2>2 DEF clearInterrupt
    <3>2. \A c \in Core : sum0'[c][0] = sum0'[c][1] /\ sum0'[c][1] = sum4'[c]
      <4> TAKE c \in Core
      <4>1. sum0[c][0] = sum0[c][1] /\ sum0[c][1] = sum4[c]
        BY DEF SummariesAgree
      <4> QED
        BY <3>1, <4>1
    <3> QED
      BY <3>2 DEF SummariesAgree
  <2> QED
    BY <1>4, <2>1, <2>2
<1>5. CASE UNCHANGED vars
  BY <1>5 DEF vars, regs, SummariesAgree
<1> QED
  BY <1>1, <1>2, <1>3, <1>4, <1>5 DEF Next

(* SummariesAgree: unless the guest overwrites them, the summary words of  *)
(* a core never differ.                                                    *)
THEOREM SummariesSame == ASSUME NoSumStores PROVE Spec => []SummariesAgree
<1>1. Init => SummariesAgree
  BY DEF Init, SummariesAgree
<1>2. TypeOK /\ SummariesAgree /\ [Next]_vars => SummariesAgree'
  BY SummariesStep
<1> QED
  BY <1>1, <1>2, TypeCorrect, PTL DEF Spec

-----------------------------------------------------------------------------
(* The interrupt lines *)

(* A core stores to its own EN0 and EN1 registers only.                    *)
OwnEnables == \A s \in Stores : s.reg \in EN0Regs => s.by = s.to

Exact(c) ==
  /\ "IP2" \in ip[c] <=> sum0[c][0] \cap en0[c][0] # {}
  /\ "IP3" \in ip[c] <=> sum0[c][1] \cap en0[c][1] # {}

(* One message at a time, one store of each core under way, and a core     *)
(* with a store under way has no other message in the box.                 *)
OneStore ==
  /\ \A s, t \in message : s = t
  /\ \A s, t \in store : s.by = t.by => s = t
  /\ \A s \in store, t \in message : s.by = t.by => s = t

(* An EN0 store that was handled but has yet to be performed will write    *)
(* what the register holds already.                                        *)
LateStoreSame ==
  \A s \in store : s.reg = "EN0" /\ s \notin message => en0[s.to][s.k] = s.data

(* The lines of a core may be wrong only while an EN0 store to the core    *)
(* waits in the message box (and was perhaps performed already).           *)
LinesExact ==
  running => \A c \in Core :
    (\A s \in message : s.reg = "EN0" => s.to # c) => Exact(c)

LinesInv == TypeOK /\ OneStore /\ LateStoreSame /\ LinesExact

(* A refresh makes the lines of its core exact and leaves the others.      *)
LEMMA RefreshExact ==
  ASSUME TypeOK, NEW c \in Core, updateInterrupt(c)
  PROVE  Exact(c)' /\ \A d \in Core \ {c} : ip'[d] = ip[d]
  BY DEF TypeOK, updateInterrupt, Line2, Line3, Line4, Exact

(* With no source pending and no line up, the lines are right at the       *)
(* start.                                                                  *)
LEMMA LinesInit == Init => LinesInv
<1> SUFFICES ASSUME Init PROVE LinesInv
  OBVIOUS
<1>1. \A c \in Core : Exact(c)
  BY DEF Init, Exact
<1> QED
  BY <1>1, TypeInit DEF Init, LinesInv, OneStore, LateStoreSame, LinesExact

(* A handler of a store to core s.to leaves the other cores' summaries and *)
(* enables alone, and either refreshes the lines of s.to or changes        *)
(* nothing that decides IP2 and IP3.                                       *)
LEMMA HandlerLines ==
  ASSUME TypeOK, NEW s \in Stores, running',
         \/ handleEnable0(s) \/ handleEnable4(s) \/ handleEnable4_W1C(s)
         \/ handleMboxSet(s) \/ handleMboxClr(s) \/ sendNMI(s)
         \/ SoftReset(s) \/ NoHandler(s)
  PROVE  /\ \A d \in Core : Exact(d) => Exact(d)'
         /\ s.reg = "EN0" => Exact(s.to)'
<1>a. s.to \in Core /\ s.k \in {0, 1}
  BY StoreFields
<1>1. CASE handleEnable0(s)
  <2>1. Exact(s.to)' /\ \A d \in Core \ {s.to} : ip'[d] = ip[d]
    BY <1>1, <1>a, RefreshExact DEF handleEnable0
  <2>2. sum0' = sum0 /\ \A d \in Core \ {s.to} : en0'[d] = en0[d]
    BY <1>1 DEF handleEnable0, TypeOK
  <2> QED
    BY <2>1, <2>2 DEF Exact
<1>2. CASE handleMboxSet(s) \/ handleMboxClr(s)
  <2>1. Exact(s.to)' /\ \A d \in Core \ {s.to} : ip'[d] = ip[d]
    BY <1>2, <1>a, RefreshExact DEF handleMboxSet, handleMboxClr
  <2>2. en0' = en0 /\ \A d \in Core \ {s.to} : sum0'[d] = sum0[d]
    BY <1>2 DEF handleMboxSet, handleMboxClr, SetSources, TypeOK
  <2> QED
    BY <2>1, <2>2 DEF Exact
<1>3. CASE handleEnable4(s) \/ handleEnable4_W1C(s)
  <2>1. PICK c \in Core : updateInterrupt(c)
    BY <1>3, <1>a DEF handleEnable4, handleEnable4_W1C
  <2>2. Exact(c)' /\ \A d \in Core \ {c} : ip'[d] = ip[d]
    BY <2>1, RefreshExact
  <2>3. sum0' = sum0 /\ en0' = en0 /\ s.reg # "EN0"
    BY <1>3 DEF handleEnable4, handleEnable4_W1C
  <2> QED
    BY <2>2, <2>3 DEF Exact
<1>4. CASE sendNMI(s) \/ SoftReset(s) \/ NoHandler(s)
  BY <1>4 DEF sendNMI, SoftReset, NoHandler, SumRegs, regs, Exact
<1> QED
  BY <1>1, <1>2, <1>3, <1>4

(* updateFlags keeps the invariant.                                        *)
LEMMA LinesHandle ==
  ASSUME OwnEnables, LinesInv, TypeOK', updateFlags
  PROVE  LinesInv'
<1>1. PICK s \in message :
        /\ message' = message \ {s}
        /\ store' = store
        /\ running
        /\ \/ handleEnable0(s) \/ handleEnable4(s) \/ handleEnable4_W1C(s)
           \/ handleMboxSet(s) \/ handleMboxClr(s) \/ sendNMI(s)
           \/ SoftReset(s) \/ NoHandler(s)
  BY DEF updateFlags
<1>2. s \in Stores /\ s.to \in Core /\ s.k \in {0, 1}
  BY StoreFields DEF LinesInv, TypeOK
<1>3. message = {s} /\ message' = {}
  BY <1>1 DEF LinesInv, OneStore
<1>4. OneStore'
  BY <1>1, <1>3 DEF LinesInv, OneStore
<1>5. LateStoreSame'
  <2> SUFFICES ASSUME NEW t \in store, t.reg = "EN0"
               PROVE  en0'[t.to][t.k] = t.data
    BY <1>1 DEF LateStoreSame
  <2>1. t \in Stores /\ t.to \in Core /\ t.k \in {0, 1} /\ t.by = t.to
    BY StoreFields DEF LinesInv, TypeOK, OwnEnables, EN0Regs
  <2>2. CASE t = s
    <3>1. handleEnable0(s)
      BY <1>1, <2>2 DEF handleEnable4, handleEnable4_W1C, handleMboxSet,
         handleMboxClr, sendNMI, SoftReset, NoHandler, SumRegs
    <3> QED
      BY <2>1, <2>2, <3>1 DEF handleEnable0, LinesInv, TypeOK
  <2>3. CASE t # s
    <3>1. en0[t.to][t.k] = t.data
      BY <1>3, <2>3 DEF LinesInv, LateStoreSame
    <3>2. s.by # t.by
      BY <2>3, <1>3 DEF LinesInv, OneStore
    <3>3. CASE handleEnable0(s)
      <4>1. s.to # t.to
        BY <1>2, <2>1, <3>2, <3>3 DEF handleEnable0, OwnEnables
      <4> QED
        BY <2>1, <3>1, <3>3, <4>1 DEF handleEnable0, LinesInv, TypeOK
    <3>4. CASE ~handleEnable0(s)
      BY <1>1, <3>1, <3>4 DEF handleEnable4, handleEnable4_W1C, handleMboxSet,
         handleMboxClr, sendNMI, SoftReset, NoHandler, regs
    <3> QED
      BY <3>3, <3>4
  <2> QED
    BY <2>2, <2>3
<1>6. LinesExact'
  <2> SUFFICES ASSUME running', NEW c \in Core PROVE Exact(c)'
    BY DEF LinesExact
  <2>1. /\ \A d \in Core : Exact(d) => Exact(d)'
        /\ s.reg = "EN0" => Exact(s.to)'
    BY <1>1, <1>2, HandlerLines DEF LinesInv
  <2>2. CASE s.reg = "EN0" /\ s.to = c
    BY <2>1, <2>2
  <2>3. CASE ~(s.reg = "EN0" /\ s.to = c)
    BY <1>1, <1>3, <2>1, <2>3 DEF LinesInv, LinesExact
  <2> QED
    BY <2>2, <2>3
<1> QED
  BY <1>4, <1>5, <1>6 DEF LinesInv

(* The cores' steps keep the invariant: a translated EN0 store either is   *)
(* still announced in the message box or changes nothing.                  *)
LEMMA LinesStore ==
  ASSUME OwnEnables, NoSumStores, LinesInv, TypeOK',
         NEW s \in Stores, Post(s) \/ RawStore(s)
  PROVE  LinesInv'
<1>a. s.to \in Core /\ s.k \in {0, 1} /\ s.reg \notin SumRegs
  BY StoreFields DEF NoSumStores
<1>1. CASE Post(s)
  <2>1. OneStore'
    BY <1>1 DEF Post, LinesInv, OneStore
  <2>2. LateStoreSame'
    BY <1>1 DEF Post, LinesInv, LateStoreSame, regs
  <2>3. LinesExact'
    BY <1>1 DEF Post, LinesInv, LinesExact, Exact, regs
  <2> QED
    BY <2>1, <2>2, <2>3 DEF LinesInv
<1>2. CASE RawStore(s)
  <2>1. OneStore'
    BY <1>2 DEF RawStore, LinesInv, OneStore
  <2>2. /\ sum0' = sum0 /\ ip' = ip /\ message' = message
        /\ running' = running /\ store' = store \ {s} /\ s \in store
    BY <1>2, <1>a DEF RawStore, SumRegs
  <2>3. CASE s.reg = "EN0" /\ s \in message
    <3>1. \A d \in Core, k \in {0, 1} :
            d # s.to => en0'[d][k] = en0[d][k]
      BY <1>2, <2>3 DEF RawStore, LinesInv, TypeOK
    <3>2. LateStoreSame'
      <4> SUFFICES ASSUME NEW t \in store, t # s, t.reg = "EN0", t \notin message
                   PROVE  en0'[t.to][t.k] = t.data
        BY <2>2 DEF LateStoreSame
      <4>1. t.by # s.by /\ t \in Stores /\ t.to \in Core /\ t.k \in {0, 1}
        BY <2>2, StoreFields DEF LinesInv, OneStore, TypeOK
      <4>2. t.to # s.to
        BY <2>3, <4>1 DEF OwnEnables, EN0Regs
      <4> QED
        BY <3>1, <4>1, <4>2 DEF LinesInv, LateStoreSame
    <3>3. LinesExact'
      <4> SUFFICES ASSUME running', NEW c \in Core,
                          \A t \in message : t.reg = "EN0" => t.to # c
                   PROVE  Exact(c)'
        BY <2>2 DEF LinesExact
      <4>1. c # s.to
        BY <2>3
      <4>2. Exact(c)
        BY <2>2 DEF LinesInv, LinesExact
      <4> QED
        BY <2>2, <3>1, <4>1, <4>2 DEF Exact
    <3> QED
      BY <2>1, <3>2, <3>3 DEF LinesInv
  <2>4. CASE ~(s.reg = "EN0" /\ s \in message)
    <3>1. en0' = en0
      <4>1. CASE s.reg = "EN0"
        <5>1. en0[s.to][s.k] = s.data
          BY <2>2, <2>4, <4>1 DEF LinesInv, LateStoreSame
        <5>2. en0' = [en0 EXCEPT ![s.to][s.k] = s.data]
          BY <1>2, <4>1 DEF RawStore
        <5>3. en0 \in [Core -> [{0, 1} -> SUBSET Sources]]
          BY DEF LinesInv, TypeOK
        <5> QED
          BY <1>a, <5>1, <5>2, <5>3
      <4>2. CASE s.reg # "EN0"
        BY <1>2, <4>2 DEF RawStore
      <4> QED
        BY <4>1, <4>2
    <3>2. LateStoreSame'
      BY <2>2, <3>1 DEF LinesInv, LateStoreSame
    <3>3. LinesExact'
      BY <2>2, <3>1 DEF LinesInv, LinesExact, Exact
    <3> QED
      BY <2>1, <3>2, <3>3 DEF LinesInv
  <2> QED
    BY <2>3, <2>4
<1> QED
  BY <1>1, <1>2

(* A device interrupt refreshes the lines of every core.                   *)
LEMMA LinesDevice ==
  ASSUME LinesInv, TypeOK', NEW d \in DeviceSources,
         generateInterrupt(d) \/ clearInterrupt(d)
  PROVE  LinesInv'
<1>1. /\ updateAllInterrupts
      /\ en0' = en0 /\ message' = message /\ store' = store
      /\ running' = running
  BY DEF generateInterrupt, clearInterrupt
<1>2. ASSUME NEW c \in Core PROVE Exact(c)'
  <2>1. ip'[c] = (Line2(c) \cup Line3(c) \cup Line4(c))'
    BY <1>1 DEF updateAllInterrupts
  <2> QED
    BY <2>1 DEF Line2, Line3, Line4, Exact
<1> QED
  BY <1>1, <1>2 DEF LinesInv, OneStore, LateStoreSame, LinesExact

(* Every step keeps the invariant.                                         *)
LEMMA LinesStep ==
  ASSUME OwnEnables, NoSumStores
  PROVE  LinesInv /\ [Next]_vars => LinesInv'
<1> SUFFICES ASSUME LinesInv, [Next]_vars PROVE LinesInv'
  OBVIOUS
<1>1. TypeOK'
  BY TypeStep DEF LinesInv
<1>2. ASSUME NEW c \in Core, takeNMI(c) PROVE LinesInv'
  BY <1>1, <1>2 DEF takeNMI, LinesInv, OneStore, LateStoreSame, LinesExact, Exact
<1>3. CASE UNCHANGED vars
  BY <1>1, <1>3 DEF vars, regs, LinesInv, OneStore, LateStoreSame, LinesExact, Exact
<1> QED
  BY <1>1, <1>2, <1>3, LinesHandle, LinesStore, LinesDevice DEF Next

(* LinesFollowEnables: when cores program only their own enables and leave *)
(* the summary words to the CIU, IP2 and IP3 of a core are right whenever  *)
(* no message about the core is waiting, however long the translated       *)
(* stores are delayed.                                                     *)
THEOREM LinesRight ==
  ASSUME OwnEnables, NoSumStores PROVE Spec => []LinesFollowEnables
<1>1. LinesInv => LinesFollowEnables
  BY DEF LinesInv, LinesExact, LinesFollowEnables, Quiet, Exact
<1>2. LinesInv /\ [Next]_vars => LinesInv'
  BY LinesStep
<1> QED
  BY <1>1, <1>2, LinesInit, PTL DEF Spec

-----------------------------------------------------------------------------
(* The mailboxes *)

(* A mailbox source pending in sum0[c] that a step takes away was taken by *)
(* the handler of an MBOX_CLR store to c.                                  *)
MailboxStep ==
  \A c \in Core :
    {MBOX0, MBOX1} \cap (sum0[c][0] \ sum0'[c][0]) # {} =>
      \E s \in message : s.reg = "MBOX_CLR" /\ s.to = c /\ s \notin message'

(* A step that removes no mailbox source from any summary is harmless.     *)
LEMMA NothingTaken ==
  ASSUME \A c \in Core, m \in {MBOX0, MBOX1} :
           m \in sum0[c][0] => m \in sum0'[c][0]
  PROVE  MailboxStep
  BY DEF MailboxStep

(* Every step of the system is a MailboxStep: handleMboxSet only adds      *)
(* sources, handleMboxClr touches the summaries of one core and takes its  *)
(* message with it, and clearInterrupt removes device sources only.        *)
LEMMA MailboxSteps ==
  ASSUME NoSumStores, TypeOK, [Next]_vars
  PROVE  MailboxStep
<1>1. CASE updateFlags
  <2>1. PICK s \in message :
          /\ message' = message \ {s}
          /\ \/ handleEnable0(s) \/ handleEnable4(s) \/ handleEnable4_W1C(s)
             \/ handleMboxSet(s) \/ handleMboxClr(s) \/ sendNMI(s)
             \/ SoftReset(s) \/ NoHandler(s)
    BY <1>1 DEF updateFlags
  <2>2. s.to \in Core
    BY StoreFields DEF TypeOK
  <2>3. CASE handleMboxSet(s)
    <3>1. PICK raised : SetSources(s.to, raised, {})
      BY <2>3 DEF handleMboxSet
    <3>2. \A c \in Core : sum0[c][0] \subseteq sum0'[c][0]
      BY <2>2, <3>1 DEF SetSources, TypeOK
    <3> QED
      BY <3>2, NothingTaken
  <2>4. CASE handleMboxClr(s)
    <3>1. PICK removed : SetSources(s.to, {}, removed)
      BY <2>4 DEF handleMboxClr
    <3>2. \A c \in Core \ {s.to} : sum0'[c] = sum0[c]
      BY <2>2, <3>1 DEF SetSources, TypeOK
    <3>3. s.reg = "MBOX_CLR" /\ s \notin message'
      BY <2>1, <2>4 DEF handleMboxClr
    <3> QED
      BY <3>2, <3>3 DEF MailboxStep
  <2>5. CASE ~(handleMboxSet(s) \/ handleMboxClr(s))
    <3>1. sum0' = sum0
      BY <2>1, <2>5 DEF handleEnable0, handleEnable4, handleEnable4_W1C,
         sendNMI, SoftReset, NoHandler, regs
    <3> QED
      BY <3>1, NothingTaken
  <2> QED
    BY <2>3, <2>4, <2>5
<1>2. ASSUME NEW s \in Stores, Post(s) \/ RawStore(s) PROVE MailboxStep
  <2>1. sum0' = sum0
    BY <1>2 DEF Post, RawStore, regs, NoSumStores, SumRegs
  <2> QED
    BY <2>1, NothingTaken
<1>3. ASSUME NEW c \in Core, takeNMI(c) PROVE MailboxStep
  BY <1>3, NothingTaken DEF takeNMI
<1>4. ASSUME NEW d \in DeviceSources, generateInterrupt(d) \/ clearInterrupt(d)
      PROVE  MailboxStep
  <2>1. CASE generateInterrupt(d)
    <3>1. \A c \in Core : sum0'[c][0] = sum0[c][0] \cup {d}
      BY <2>1 DEF generateInterrupt
    <3> QED
      BY <3>1, NothingTaken
  <2>2. CASE clearInterrupt(d)
    <3>1. \A c \in Core : sum0'[c][0] = sum0[c][0] \ {d}
      BY <2>2 DEF clearInterrupt
    <3>2. d \notin {MBOX0, MBOX1}
      BY SourceAssumption
    <3> QED
      BY <3>1, <3>2, NothingTaken
  <2> QED
    BY <1>4, <2>1, <2>2
<1>5. CASE UNCHANGED vars
  BY <1>5, NothingTaken DEF vars, regs
<1> QED
  BY <1>1, <1>2, <1>3, <1>4, <1>5 DEF Next

(* MailboxHeld: unless the guest overwrites the summary words, a mailbox   *)
(* interrupt stays pending until the CIU handles an MBOX_CLR store to its  *)
(* core, whatever devices, enables and other cores do meanwhile.           *)
THEOREM MailboxKept == ASSUME NoSumStores PROVE Spec => MailboxHeld
<1>1. TypeOK /\ [Next]_vars => [MailboxStep]_vars
  BY MailboxSteps
<1> QED
  BY <1>1, TypeCorrect, PTL DEF Spec, MailboxHeld, MailboxStep
=============================================================================
