-------------------------------- MODULE CIU --------------------------------
(***************************************************************************)
(* The Central Interrupt Unit (CIU.cpp): summary, enable and mailbox       *)
(* registers and the interrupt lines IP2, IP3 and IP4 it drives in the     *)
(* Cause register of every core.                                           *)
(*                                                                         *)
(* A guest store to a CIU register has two effects, in either order: the   *)
(* message handled by the CIU thread (updateFlags), and the translated     *)
(* store itself, which writes the stored value to the register's word in   *)
(* memory (Translation_IPE::unprev_I_Store) without any lock.  The message *)
(* box is taken at its word (DeviceOps): one message at a time, each       *)
(* handled once.  Handlers, generateInterrupt and clearInterrupt are one   *)
(* step each here; InterruptLines has what happens when the threads that   *)
(* run them overlap.                                                       *)
(*                                                                         *)
(* A register is the set of its bits: an interrupt source for a summary or *)
(* enable register, a mailbox bit, a core for the NMI register.  INT_SUM0  *)
(* and INT_EN0 [2c + k] are sum0[c][k] and en0[c][k].  The enables of IP4  *)
(* are the words of memory from CIU_INT0_EN4_0_OFFSET on, because the code *)
(* maps INT_EN4_0[c] to word c and the guest addresses EN4_0 and EN4_1 of  *)
(* core c at words 2c and 2c + 1.                                          *)
(***************************************************************************)
EXTENDS Integers

CONSTANTS NumCores,      \* this->numcores
          DeviceSources, \* sources raised by devices: UART1, GPIO0, GPIO1
          MBOX0, MBOX1,  \* the two mailbox sources
          LowerBits,     \* mailbox bits of the lower half
          UpperBits,     \* mailbox bits of the upper half
          NMIBits,       \* bits of the NMI register: 0 .. 11
          Stores         \* the register stores the guest may make

Core == 0 .. NumCores - 1
Sources == DeviceSources \cup {MBOX0, MBOX1}
MboxBits == LowerBits \cup UpperBits
EN4Words == 0 .. 2 * NumCores - 1

(* EN1 stands for the EN1, EN1_W1C and EN1_W1S registers, which are not    *)
(* implemented; SUM0, SUM4 and the registers the CIU does not emulate      *)
(* (OTHER) have no handler.                                                *)
EN0Regs == {"EN0", "EN0_W1C", "EN0_W1S", "EN1"}
EN4Regs == {"EN4", "EN4_W1C", "EN4_W1S"}
SumRegs == {"SUM0", "SUM4"}
MboxRegs == {"MBOX_SET", "MBOX_CLR"}

(* A store: the core that makes it, the register (of core "to", and which  *)
(* of its two, k) and the value stored.                                    *)
AllStores ==
  [by : Core, reg : EN0Regs \cup EN4Regs \cup SumRegs, to : Core, k : {0, 1},
   data : SUBSET Sources]
    \cup [by : Core, reg : MboxRegs, to : Core, k : {0}, data : SUBSET MboxBits]
    \cup [by : Core, reg : {"NMI"}, to : Core, k : {0}, data : SUBSET NMIBits]
    \cup [by : Core, reg : {"SOFT_RST", "OTHER"}, to : Core, k : {0}, data : {{}}]

ASSUME CoreAssumption == NumCores \in Nat \ {0}
ASSUME SourceAssumption == MBOX0 # MBOX1 /\ {MBOX0, MBOX1} \cap DeviceSources = {}
ASSUME BitAssumption == LowerBits \cap UpperBits = {} /\ Core \subseteq NMIBits
ASSUME StoresAssumption == Stores \subseteq AllStores

VARIABLES sum0, sum4,        \* summary registers
          en0, en4,          \* enable registers
          mboxSet, mboxClr,  \* mailbox registers
          nmiReg,            \* the NMI register
          nmi,               \* nmi[c]: Processor_IPE::NMI of core c
          ip,                \* ip[c]: the bits IP2..IP4 set in Cause of core c
          message,           \* stores posted to the CIU thread, not handled yet
          store,             \* translated stores not performed yet
          running            \* FALSE once the process has been ended

regs == <<sum0, sum4, en0, en4, mboxSet, mboxClr, nmiReg, nmi, ip>>
vars == <<regs, message, store, running>>

TypeOK ==
  /\ sum0 \in [Core -> [{0, 1} -> SUBSET Sources]]
  /\ sum4 \in [Core -> SUBSET Sources]
  /\ en0 \in [Core -> [{0, 1} -> SUBSET Sources]]
  /\ en4 \in [EN4Words -> SUBSET Sources]
  /\ mboxSet \in [Core -> SUBSET MboxBits]
  /\ mboxClr \in [Core -> SUBSET MboxBits]
  /\ nmiReg \in SUBSET NMIBits
  /\ nmi \in [Core -> BOOLEAN]
  /\ ip \in [Core -> SUBSET {"IP2", "IP3", "IP4"}]
  /\ message \in SUBSET Stores
  /\ store \in SUBSET Stores
  /\ running \in BOOLEAN

(* setMappings, over memory that mmap left zero.                           *)
Init ==
  /\ sum0 = [c \in Core |-> [k \in {0, 1} |-> {}]]
  /\ sum4 = [c \in Core |-> {}]
  /\ en0 = [c \in Core |-> [k \in {0, 1} |-> {}]]
  /\ en4 = [w \in EN4Words |-> {}]
  /\ mboxSet = [c \in Core |-> {}]
  /\ mboxClr = [c \in Core |-> {}]
  /\ nmiReg = {}
  /\ nmi = [c \in Core |-> FALSE]
  /\ ip = [c \in Core |-> {}]
  /\ message = {}
  /\ store = {}
  /\ running = TRUE

-----------------------------------------------------------------------------
(* updateInterrupt *)

Line2(c) == IF sum0[c][0] \cap en0[c][0] # {} THEN {"IP2"} ELSE {}
Line3(c) == IF sum0[c][1] \cap en0[c][1] # {} THEN {"IP3"} ELSE {}
Line4(c) == IF sum4[c] \cap en4[c] # {} THEN {"IP4"} ELSE {}

updateInterrupt(c) ==
  ip' = [ip EXCEPT ![c] = (Line2(c) \cup Line3(c) \cup Line4(c))']

(* The handlers of updateFlags, each with the updateInterrupt that ends it *)

(* What a store to a write-one-to-clear or -to-set register leaves in the  *)
(* enables (handleEnable0_W1C and its like).                               *)
EN0_W1C(enables, data) == enables \ data
EN0_W1S(enables, data) == enables \cup data
EN4_W1C(enables, data) == enables \ data
EN4_W1S(enables, data) == enables \cup data

(* Mutant of handleEnable0: the lines are not refreshed.                   *)
handleEnable0_NoRefresh(s) ==
  /\ s.reg \in EN0Regs
  /\ en0' = [en0 EXCEPT ![s.to][s.k] =
               CASE s.reg = "EN0" -> s.data
                 [] s.reg = "EN0_W1C" -> EN0_W1C(@, s.data)
                 [] s.reg = "EN0_W1S" -> EN0_W1S(@, s.data)
                 [] s.reg = "EN1" -> @]
  /\ UNCHANGED <<sum0, sum4, en4, mboxSet, mboxClr, nmiReg, nmi, ip, running>>

handleEnable0(s) ==
  /\ s.reg \in EN0Regs
  /\ en0' = [en0 EXCEPT ![s.to][s.k] =
               CASE s.reg = "EN0" -> s.data
                 [] s.reg = "EN0_W1C" -> EN0_W1C(@, s.data)
                 [] s.reg = "EN0_W1S" -> EN0_W1S(@, s.data)
                 [] s.reg = "EN1" -> @]
  /\ UNCHANGED <<sum0, sum4, en4, mboxSet, mboxClr, nmiReg, nmi, running>>
  /\ updateInterrupt(s.to)

(* EN4_1 is not implemented: k = 1 only refreshes the lines.               *)
handleEnable4(s) ==
  /\ s.reg \in {"EN4", "EN4_W1S"}
  /\ en4' = [en4 EXCEPT ![s.to] =
               IF s.k = 1 THEN @
               ELSE IF s.reg = "EN4" THEN s.data ELSE EN4_W1S(@, s.data)]
  /\ UNCHANGED <<sum0, sum4, en0, mboxSet, mboxClr, nmiReg, nmi, running>>
  /\ updateInterrupt(s.to)

(* handleEnable4_W1C returns no value when k = 0: updateInterrupt runs for *)
(* an arbitrary core, or outside the array of cores, which ends the        *)
(* process.  It returns the core when k = 1.                               *)
handleEnable4_W1C(s) ==
  /\ s.reg = "EN4_W1C"
  /\ en4' = [en4 EXCEPT ![s.to] = IF s.k = 0 THEN EN4_W1C(@, s.data) ELSE @]
  /\ UNCHANGED <<sum0, sum4, en0, mboxSet, mboxClr, nmiReg, nmi>>
  /\ \/ /\ \E c \in Core : (s.k = 1 => c = s.to) /\ updateInterrupt(c)
        /\ UNCHANGED running
     \/ /\ s.k = 0
        /\ running' = FALSE
        /\ UNCHANGED ip

(* Mutant of SetSources: INT_SUM4 is forgotten.                            *)
SetSources_NoSum4(c, added, removed) ==
  /\ sum0' = [sum0 EXCEPT ![c] = [k \in {0, 1} |-> (@[k] \cup added) \ removed]]
  /\ UNCHANGED sum4

(* Adds and removes sources in the three summaries of core c.              *)
SetSources(c, added, removed) ==
  /\ sum0' = [sum0 EXCEPT ![c] = [k \in {0, 1} |-> (@[k] \cup added) \ removed]]
  /\ sum4' = [sum4 EXCEPT ![c] = (@ \cup added) \ removed]

handleMboxSet(s) ==
  /\ s.reg = "MBOX_SET"
  /\ mboxSet' = [mboxSet EXCEPT ![s.to] = s.data]
  /\ mboxClr' = [mboxClr EXCEPT ![s.to] = s.data]
  /\ SetSources(s.to,
                CASE s.data \cap LowerBits # {} -> {MBOX0}
                  [] s.data \cap LowerBits = {} /\ s.data \cap UpperBits # {}
                       -> {MBOX1}
                  [] OTHER -> {},
                {})
  /\ UNCHANGED <<en0, en4, nmiReg, nmi, running>>
  /\ updateInterrupt(s.to)

handleMboxClr(s) ==
  LET left == mboxSet[s.to] \ s.data
  IN /\ s.reg = "MBOX_CLR"
     /\ mboxSet' = [mboxSet EXCEPT ![s.to] = left]
     /\ mboxClr' = [mboxClr EXCEPT ![s.to] = left]
     /\ SetSources(s.to, {},
                   {m \in {MBOX0, MBOX1} :
                      \/ m = MBOX0 /\ left \cap LowerBits = {}
                      \/ m = MBOX1 /\ left \cap UpperBits = {}})
     /\ UNCHANGED <<en0, en4, nmiReg, nmi, running>>
     /\ updateInterrupt(s.to)

(* Mutant of sendNMI: no check that the core exists.                       *)
sendNMI_AnyCore(s) ==
  /\ s.reg = "NMI"
  /\ nmi' = [c \in Core \cup s.data |-> c \in s.data \/ nmi[c]]
  /\ nmiReg' = {}
  /\ UNCHANGED <<sum0, sum4, en0, en4, mboxSet, mboxClr, ip, running>>

sendNMI(s) ==
  /\ s.reg = "NMI"
  /\ nmi' = [c \in Core |-> nmi[c] \/ c \in s.data]
  /\ nmiReg' = {}
  /\ UNCHANGED <<sum0, sum4, en0, en4, mboxSet, mboxClr, ip, running>>

(* raise(SIGTERM), which nobody catches.                                   *)
SoftReset(s) ==
  /\ s.reg = "SOFT_RST"
  /\ running' = FALSE
  /\ UNCHANGED regs

NoHandler(s) == s.reg \in SumRegs \cup {"OTHER"} /\ UNCHANGED <<regs, running>>

updateFlags ==
  \E s \in message :
    /\ running
    /\ message' = message \ {s}
    /\ \/ handleEnable0(s)
       \/ handleEnable4(s)
       \/ handleEnable4_W1C(s)
       \/ handleMboxSet(s)
       \/ handleMboxClr(s)
       \/ sendNMI(s)
       \/ SoftReset(s)
       \/ NoHandler(s)
    /\ UNCHANGED store

-----------------------------------------------------------------------------
(* The cores *)

(* A core posts a store when the CIU thread has handled the previous one   *)
(* and it has itself performed its own previous store.                     *)
Post(s) ==
  /\ running
  /\ message = {}
  /\ \A t \in store : t.by # s.by
  /\ message' = {s}
  /\ store' = store \cup {s}
  /\ UNCHANGED <<regs, running>>

(* The translated store writes the value to the register's word.  The W1C  *)
(* and W1S words are not read by anyone.                                   *)
RawStore(s) ==
  /\ running
  /\ s \in store
  /\ store' = store \ {s}
  /\ en0' = IF s.reg = "EN0" THEN [en0 EXCEPT ![s.to][s.k] = s.data] ELSE en0
  /\ en4' = IF s.reg = "EN4"
            THEN [en4 EXCEPT ![2 * s.to + s.k] = s.data] ELSE en4
  /\ mboxSet' = IF s.reg = "MBOX_SET"
                THEN [mboxSet EXCEPT ![s.to] = s.data] ELSE mboxSet
  /\ mboxClr' = IF s.reg = "MBOX_CLR"
                THEN [mboxClr EXCEPT ![s.to] = s.data] ELSE mboxClr
  /\ nmiReg' = IF s.reg = "NMI" THEN s.data ELSE nmiReg
  /\ sum0' = IF s.reg = "SUM0" THEN [sum0 EXCEPT ![s.to][s.k] = s.data] ELSE sum0
  /\ sum4' = IF s.reg = "SUM4" THEN [sum4 EXCEPT ![s.to] = s.data] ELSE sum4
  /\ UNCHANGED <<nmi, ip, message, running>>

(* The core starts (C2Assembly2C) or handles the NMI (handleNMI).          *)
takeNMI(c) ==
  /\ running
  /\ nmi[c]
  /\ nmi' = [nmi EXCEPT ![c] = FALSE]
  /\ UNCHANGED <<sum0, sum4, en0, en4, mboxSet, mboxClr, nmiReg, ip,
                 message, store, running>>

(* The threads of the UART, the disk and the net card *)

updateAllInterrupts ==
  ip' = [c \in Core |-> (Line2(c) \cup Line3(c) \cup Line4(c))']

generateInterrupt(d) ==
  /\ running
  /\ sum0' = [c \in Core |-> [k \in {0, 1} |-> sum0[c][k] \cup {d}]]
  /\ sum4' = [c \in Core |-> sum4[c] \cup {d}]
  /\ UNCHANGED <<en0, en4, mboxSet, mboxClr, nmiReg, nmi, message, store, running>>
  /\ updateAllInterrupts

(* Mutant of clearInterrupt: the word is cleared instead of the flag.      *)
clearInterrupt_All(d) ==
  /\ running
  /\ sum0' = [c \in Core |-> [k \in {0, 1} |-> {}]]
  /\ sum4' = [c \in Core |-> {}]
  /\ UNCHANGED <<en0, en4, mboxSet, mboxClr, nmiReg, nmi, message, store, running>>
  /\ updateAllInterrupts

clearInterrupt(d) ==
  /\ running
  /\ sum0' = [c \in Core |-> [k \in {0, 1} |-> sum0[c][k] \ {d}]]
  /\ sum4' = [c \in Core |-> sum4[c] \ {d}]
  /\ UNCHANGED <<en0, en4, mboxSet, mboxClr, nmiReg, nmi, message, store, running>>
  /\ updateAllInterrupts

-----------------------------------------------------------------------------
Next ==
  \/ updateFlags
  \/ \E s \in Stores : Post(s) \/ RawStore(s)
  \/ \E c \in Core : takeNMI(c)
  \/ \E d \in DeviceSources : generateInterrupt(d) \/ clearInterrupt(d)

Spec == Init /\ [][Next]_vars

-----------------------------------------------------------------------------
(* Properties *)

(* The three summary words of a core show the same sources: an interrupt   *)
(* is raised and cleared in INT_SUM0[2c], INT_SUM0[2c + 1] and INT_SUM4[c] *)
(* together, whoever raises and clears it.                                 *)
SummariesAgree ==
  \A c \in Core : sum0[c][0] = sum0[c][1] /\ sum0[c][1] = sum4[c]

Quiet(c) == \A s \in message : s.to # c

(* The interrupt lines IP2 and IP3 of a core are up exactly when one of    *)
(* its enabled sources is pending, once the CIU has handled the stores     *)
(* that concern the core: although the translated store to an enable       *)
(* register may land long after the handler that compared it.              *)
LinesFollowEnables ==
  running => \A c \in Core : Quiet(c) =>
    /\ "IP2" \in ip[c] <=> sum0[c][0] \cap en0[c][0] # {}
    /\ "IP3" \in ip[c] <=> sum0[c][1] \cap en0[c][1] # {}

(* A mailbox interrupt, once raised for a core, stays pending until a      *)
(* MBOX_CLR store to that core is handled: no device interrupt, enable     *)
(* change or mailbox of another core takes it away.                        *)
MailboxHeld ==
  [][\A c \in Core :
       {MBOX0, MBOX1} \cap (sum0[c][0] \ sum0'[c][0]) # {} =>
         \E s \in message : s.reg = "MBOX_CLR" /\ s.to = c /\ s \notin message']_vars
=============================================================================
