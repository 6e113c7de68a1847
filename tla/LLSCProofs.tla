---------------------------- MODULE LLSCProofs ----------------------------
(* On one core the emulated LL/SC is atomic, for any number of guest       *)
(* threads, addresses and values.                                          *)
EXTENDS LLSC, TLAPS

SingleCore == \A c, d \in Cores : c = d

(* The running thread t may pass the checks of an SC.                      *)
Armed(c) ==
  link[thread[c]] # NoAddr /\ Addr_Store[c] = link[thread[c]]

(* A link the checks would accept is untouched: a thread that lost the     *)
(* core finds Addr_Store pointing elsewhere when it comes back.  An SC     *)
(* past its compare is still armed.                                        *)
LinkInv ==
  /\ TypeOK
  /\ \A c \in Cores : Armed(c) => ~touched[thread[c]]
  /\ \A c \in Cores : ~Ready(c) => Armed(c)

(* No core has a link or a pending store-conditional at the start.         *)
LEMMA LinkInit == Init => LinkInv
<1> SUFFICES ASSUME Init PROVE LinkInv
  OBVIOUS
<1>1. TypeOK
  <2>1. NoStore \in [addr : Addrs \cup {NoAddr}, value : Values]
    BY ValueAssumption DEF NoStore
  <2> QED
    BY <2>1, ValueAssumption DEF Init, TypeOK
<1>2. \A c \in Cores : Ready(c) /\ ~Armed(c)
  BY <1>1 DEF Init, Ready, Armed, TypeOK
<1> QED
  BY <1>1, <1>2 DEF LinkInv

(* Every step keeps the types.                                             *)
LEMMA LinkType == TypeOK /\ [Next]_vars => TypeOK'
<1> SUFFICES ASSUME TypeOK, [Next]_vars PROVE TypeOK'
  OBVIOUS
<1>a. NoStore \in [addr : Addrs \cup {NoAddr}, value : Values]
  BY ValueAssumption DEF NoStore
<1>1. ASSUME NEW c \in Cores, NEW a \in Addrs,
             LL(c, a) \/ AccessFault(c, a) \/ Load(c, a)
      PROVE  TypeOK'
  <2>1. CASE LL(c, a)
    <3>1. link' \in [Threads -> Addrs \cup {NoAddr}]
      BY <2>1 DEF LL, TypeOK
    <3>2. /\ LLBit' \in [Cores -> BOOLEAN]
          /\ touched' \in [Threads -> BOOLEAN]
      BY <2>1 DEF LL, TypeOK
    <3>3. /\ Addr_Store' \in [Cores -> Addrs \cup {KernelAddr, NoAddr}]
          /\ LL_Data' \in [Cores -> Values]
      BY <2>1 DEF LL, TypeOK
    <3> QED
      BY <2>1, <3>1, <3>2, <3>3 DEF LL, TypeOK
  <2>2. CASE AccessFault(c, a)
    <3>1. /\ LLBit' \in [Cores -> BOOLEAN]
          /\ link' \in [Threads -> Addrs \cup {NoAddr}]
      BY <2>2 DEF AccessFault, TypeOK
    <3>2. Addr_Store' \in [Cores -> Addrs \cup {KernelAddr, NoAddr}]
      BY <2>2 DEF AccessFault, TypeOK
    <3> QED
      BY <2>2, <3>1, <3>2 DEF AccessFault, TypeOK
  <2>3. CASE Load(c, a)
    BY <2>3 DEF Load, TypeOK
  <2> QED
    BY <1>1, <2>1, <2>2, <2>3
<1>2. ASSUME NEW c \in Cores, NEW a \in Addrs, NEW v \in Values, Store(c, a, v)
      PROVE  TypeOK'
  BY <1>2 DEF Store, Touch, TypeOK
<1>3. ASSUME NEW c \in Cores, NEW v \in Values, SCCompare(c, v) PROVE TypeOK'
  BY <1>3 DEF SCCompare, TypeOK
<1>4. ASSUME NEW c \in Cores, SCFail(c) PROVE TypeOK'
  BY <1>4 DEF SCFail, TypeOK
<1>5. ASSUME NEW c \in Cores, SCStore(c) PROVE TypeOK'
  <2>1. mem' \in [Addrs -> Values]
    BY <1>5 DEF SCStore, TypeOK
  <2>2. touched' \in [Threads -> BOOLEAN]
    BY <1>5 DEF SCStore, Touch, TypeOK
  <2> QED
    BY <1>5, <1>a, <2>1, <2>2 DEF SCStore, TypeOK
<1>6. ASSUME NEW c \in Cores, NEW t \in Threads, Interrupt(c, t) PROVE TypeOK'
  BY <1>6 DEF Interrupt, TypeOK
<1>7. CASE UNCHANGED vars
  BY <1>7 DEF vars, TypeOK
<1> QED
  BY <1>1, <1>2, <1>3, <1>4, <1>5, <1>6, <1>7 DEF Next

(* Every step of a board with one core keeps LinkInv.                      *)
LEMMA LinkStep ==
  ASSUME SingleCore
  PROVE  LinkInv /\ [Next]_vars => LinkInv'
<1> SUFFICES ASSUME LinkInv, [Next]_vars,
                    NEW c \in Cores
             PROVE  /\ (Armed(c) => ~touched[thread[c]])'
                    /\ (~Ready(c) => Armed(c))'
  BY LinkType DEF LinkInv
<1> DEFINE t == thread[c]
<1>a. /\ t \in Threads /\ TypeOK
      /\ \A d \in Cores : d = c
      /\ Armed(c) => ~touched[t]
      /\ ~Ready(c) => Armed(c)
  BY DEF LinkInv, TypeOK, SingleCore
<1> HIDE DEF t
<1>1. ASSUME NEW a \in Addrs, LL(c, a) \/ AccessFault(c, a) \/ Load(c, a)
      PROVE  (Armed(c) => ~touched[thread[c]])' /\ Ready(c)'
  BY <1>a, <1>1 DEF LL, AccessFault, Load, Armed, Ready, TypeOK, t
<1>2. ASSUME NEW a \in Addrs, NEW v \in Values, Store(c, a, v)
      PROVE  ~Armed(c)' /\ Ready(c)'
  BY <1>a, <1>2 DEF Store, Armed, Ready, t
<1>3. ASSUME NEW v \in Values, SCCompare(c, v)
      PROVE  (Armed(c) => ~touched[thread[c]])' /\ Armed(c)'
  BY <1>a, <1>3 DEF SCCompare, CheckLink, Armed, Ready, t
<1>4. CASE SCFail(c)
  BY <1>a, <1>4 DEF SCFail, Armed, Ready, TypeOK, t
<1>5. CASE SCStore(c)
  BY <1>a, <1>5 DEF SCStore, Armed, Ready, TypeOK, t
<1>6. ASSUME NEW u \in Threads, Interrupt(c, u)
      PROVE  ~Armed(c)' /\ Ready(c)'
  <2>1. Addr_Store'[c] = KernelAddr /\ link'[thread'[c]] # KernelAddr
    BY <1>a, <1>6, AddrAssumption DEF Interrupt, TypeOK
  <2> QED
    BY <1>6, <2>1 DEF Interrupt, Armed, Ready
<1>7. CASE UNCHANGED vars
  BY <1>a, <1>7 DEF vars, Armed, Ready, t
<1> QED
  BY <1>a, <1>1, <1>2, <1>3, <1>4, <1>5, <1>6, <1>7 DEF Next

(* SCAtomic on a board with one core: whatever its threads do and however  *)
(* the interrupts fall, an SC stores only over a location nobody else has  *)
(* written since the LL.                                                   *)
THEOREM OneCoreAtomic == ASSUME SingleCore PROVE Spec => SCAtomic
<1>1. LinkInv /\ [Next]_vars =>
        [\A c \in Cores : SCStore(c) => ~touched[thread[c]]]_vars
  BY DEF LinkInv, SCStore
<1>2. LinkInv /\ [Next]_vars => LinkInv'
  BY LinkStep
<1> QED
  BY <1>1, <1>2, LinkInit, PTL DEF Spec, SCAtomic
===========================================================================
