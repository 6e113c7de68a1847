-------------------------------- MODULE LLSC --------------------------------
(***************************************************************************)
(* Load-linked and store-conditional as Translation_IPE emulates them      *)
(* (common_in_ll, ll, lld, common_in_sc, sc, scd).  A core has no link to  *)
(* memory: it keeps a flag LLBit, the address of its last load or store    *)
(* (Addr_Store, written by every translated load and store, common_in_LS), *)
(* and the value the LL loaded (LL_Data).  A store-conditional loads the   *)
(* word again, compares it with LL_Data and then stores with a plain SW:   *)
(* two accesses to memory, two steps here.                                 *)
(*                                                                         *)
(* The guest runs threads on its cores and switches between them when an   *)
(* interrupt is taken, between two blocks of translated code (NewBlock),   *)
(* never inside an SC.  As the architecture asks of it, a thread makes no  *)
(* other access between an LL and its SC, and the two use one address.     *)
(***************************************************************************)
CONSTANTS Cores, Threads,
          coreOf,      \* the core each guest thread runs on
          Addrs,       \* addresses of the words the threads share
          KernelAddr,  \* the memory the interrupt handler saves registers to
          NoAddr,
          Values, Zero

ASSUME ThreadAssumption ==
  /\ coreOf \in [Threads -> Cores]
  /\ \A c \in Cores : \E t \in Threads : coreOf[t] = c
ASSUME AddrAssumption == {KernelAddr, NoAddr} \cap Addrs = {} /\ KernelAddr # NoAddr
ASSUME ValueAssumption == Zero \in Values

VARIABLES mem,         \* the shared words
          LLBit,       \* Processor_IPE::LLBit
          Addr_Store,  \* address of the last access of each core
          LL_Data,     \* value loaded by the last LL of each core
          thread,      \* the guest thread each core runs
          link,        \* link[t]: address of t's LL that has no SC yet
          pending,     \* the store an SC of each core has yet to perform
          touched      \* history: another thread stored to t's link since LL

vars == <<mem, LLBit, Addr_Store, LL_Data, thread, link, pending, touched>>

NoStore == [addr |-> NoAddr, value |-> Zero]

TypeOK ==
  /\ mem \in [Addrs -> Values]
  /\ LLBit \in [Cores -> BOOLEAN]
  /\ Addr_Store \in [Cores -> Addrs \cup {KernelAddr, NoAddr}]
  /\ LL_Data \in [Cores -> Values]
  /\ thread \in [Cores -> Threads]
  /\ link \in [Threads -> Addrs \cup {NoAddr}]
  /\ pending \in [Cores -> [addr : Addrs \cup {NoAddr}, value : Values]]
  /\ touched \in [Threads -> BOOLEAN]

Init ==
  /\ mem = [a \in Addrs |-> Zero]
  /\ LLBit = [c \in Cores |-> FALSE]
  /\ Addr_Store = [c \in Cores |-> NoAddr]
  /\ LL_Data = [c \in Cores |-> Zero]
  /\ thread \in {f \in [Cores -> Threads] : \A c \in Cores : coreOf[f[c]] = c}
  /\ link = [t \in Threads |-> NoAddr]
  /\ pending = [c \in Cores |-> NoStore]
  /\ touched = [t \in Threads |-> FALSE]

-----------------------------------------------------------------------------
(* Core c is between two instructions.                                     *)
Ready(c) == pending[c] = NoStore

(* A store of core c to address a.                                         *)
Touch(c, a) ==
  touched' = [t \in Threads |->
                touched[t] \/ (t # thread[c] /\ link[t] = a)]

(* ll, lld: the address is translated and the word loaded.                 *)
LL(c, a) ==
  /\ Ready(c)
  /\ LLBit' = [LLBit EXCEPT ![c] = TRUE]
  /\ Addr_Store' = [Addr_Store EXCEPT ![c] = a]
  /\ LL_Data' = [LL_Data EXCEPT ![c] = mem[a]]
  /\ link' = [link EXCEPT ![thread[c]] = a]
  /\ touched' = [touched EXCEPT ![thread[c]] = FALSE]
  /\ UNCHANGED <<mem, thread, pending>>

(* A load or store, LL included, whose address has no translation:         *)
(* handleLDST clears LLBit and the guest's exception handler runs.         *)
AccessFault(c, a) ==
  /\ Ready(c)
  /\ LLBit' = [LLBit EXCEPT ![c] = FALSE]
  /\ Addr_Store' = [Addr_Store EXCEPT ![c] = a]
  /\ link' = [link EXCEPT ![thread[c]] = NoAddr]
  /\ UNCHANGED <<mem, LL_Data, thread, pending, touched>>

(* unprev_I_Load, unprev_I_Store                                           *)
Load(c, a) ==
  /\ Ready(c)
  /\ link[thread[c]] = NoAddr
  /\ Addr_Store' = [Addr_Store EXCEPT ![c] = a]
  /\ UNCHANGED <<mem, LLBit, LL_Data, thread, link, pending, touched>>

Store(c, a, v) ==
  /\ Ready(c)
  /\ link[thread[c]] = NoAddr
  /\ Addr_Store' = [Addr_Store EXCEPT ![c] = a]
  /\ mem' = [mem EXCEPT ![a] = v]
  /\ Touch(c, a)
  /\ UNCHANGED <<LLBit, LL_Data, thread, link, pending>>

(* Mutant of CheckLink: the address is not compared.                       *)
CheckLink_NoAddr(c, a) == LLBit[c] /\ mem[a] = LL_Data[c]

(* common_in_sc, and the load and compare of sc and scd.                   *)
CheckLink(c, a) == LLBit[c] /\ Addr_Store[c] = a /\ mem[a] = LL_Data[c]

(* sc, scd up to the compare.                                              *)
SCCompare(c, v) ==
  LET a == link[thread[c]]
  IN /\ Ready(c)
     /\ a # NoAddr
     /\ CheckLink(c, a)
     /\ pending' = [pending EXCEPT ![c] = [addr |-> a, value |-> v]]
     /\ UNCHANGED <<mem, LLBit, Addr_Store, LL_Data, thread, link, touched>>

(* 0 is written to rt.                                                     *)
SCFail(c) ==
  /\ Ready(c)
  /\ link[thread[c]] # NoAddr
  /\ ~CheckLink(c, link[thread[c]])
  /\ LLBit' = [LLBit EXCEPT ![c] = FALSE]
  /\ link' = [link EXCEPT ![thread[c]] = NoAddr]
  /\ UNCHANGED <<mem, Addr_Store, LL_Data, thread, pending, touched>>

(* The SW, and 1 is written to rt.                                         *)
SCStore(c) ==
  /\ ~Ready(c)
  /\ mem' = [mem EXCEPT ![pending[c].addr] = pending[c].value]
  /\ Touch(c, pending[c].addr)
  /\ LLBit' = [LLBit EXCEPT ![c] = FALSE]
  /\ link' = [link EXCEPT ![thread[c]] = NoAddr]
  /\ pending' = [pending EXCEPT ![c] = NoStore]
  /\ UNCHANGED <<Addr_Store, LL_Data, thread>>

(* An interrupt between two blocks; its handler, which saves registers in  *)
(* memory, returns to thread t.  LLBit is left alone.                      *)
Interrupt(c, t) ==
  /\ Ready(c)
  /\ coreOf[t] = c
  /\ Addr_Store' = [Addr_Store EXCEPT ![c] = KernelAddr]
  /\ thread' = [thread EXCEPT ![c] = t]
  /\ UNCHANGED <<mem, LLBit, LL_Data, link, pending, touched>>

Next ==
  \E c \in Cores :
    \/ \E a \in Addrs : LL(c, a) \/ AccessFault(c, a) \/ Load(c, a)
    \/ \E a \in Addrs, v \in Values : Store(c, a, v)
    \/ \E v \in Values : SCCompare(c, v)
    \/ SCFail(c) \/ SCStore(c)
    \/ \E t \in Threads : Interrupt(c, t)

Spec == Init /\ [][Next]_vars

-----------------------------------------------------------------------------
(* Properties *)

(* "used for atomic operation on a memory location started by LLD; 1 is    *)
(* written to rt reg in case of successful store and zero in case of       *)
(* failure" (sc): an SC that stores does so only if no other thread has    *)
(* stored to the location since the LL, whether the other thread runs on   *)
(* the same core or another, and even if it put the old value back.        *)
SCAtomic == [][\A c \in Cores : SCStore(c) => ~touched[thread[c]]]_vars
=============================================================================
