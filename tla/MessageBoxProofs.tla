-------------------------- MODULE MessageBoxProofs --------------------------
(***************************************************************************)
(* Theorems about MessageBox for every set of cores.  Two arguments:       *)
(* - the mutex keeps the message whole for any number of cores, spurious   *)
(*   wakeups or not, provided the device reached its wait before a core    *)
(*   could post (~LateDevice);                                             *)
(* - the flag isServiced makes the box the device of DeviceOps when there  *)
(*   is one core and the wait returns only when signalled.                 *)
(***************************************************************************)
EXTENDS MessageBox, TLAPS

(* What keeps a message whole: outside the window between the two stores   *)
(* of updateMessageBox both halves come from the same post.                *)
BoxConsistent ==
  /\ (\A c \in Cores : pc[c] # "addr") => data = addr
  /\ \A c \in Cores : pc[c] = "addr" => data = <<c, posted[c]>>

MutexInv == TypeOK /\ OneAccessor /\ BoxConsistent

(* The stage the box is in as seen by the only core.                       *)
Free == /\ isServiced
        /\ dpc \in {"wait", "waiting"}
        /\ \A c \in Cores : /\ applied[c] = posted[c]
                            /\ pc[c] \in {"idle", "spin", "claim",
                                          "rspin", "read"}

Claimed == /\ ~isServiced
           /\ dpc \in {"wait", "waiting"}
           /\ \A c \in Cores : /\ posted[c] = applied[c] + 1
                               /\ pc[c] \in {"lock", "signal"}

Filling == /\ ~isServiced
           /\ dpc = "woken"
           /\ \A c \in Cores : /\ posted[c] = applied[c] + 1
                               /\ pc[c] \in {"data", "addr"}

Handed == /\ ~isServiced
          /\ dpc \in {"woken", "service"}
          /\ \A c \in Cores : /\ posted[c] = applied[c] + 1
                              /\ addr = <<c, posted[c]>>
                              /\ data = addr
                              /\ pc[c] \in {"unlock", "idle", "spin", "rspin"}

Serviced == /\ ~isServiced
            /\ dpc = "done"
            /\ \A c \in Cores : /\ applied[c] = posted[c]
                                /\ pc[c] \in {"idle", "spin", "rspin"}

(* A message that is not being handed over has been carried out.           *)
OldMessageDone == addr # NoPost /\ ~Handed => addr[2] <= applied[addr[1]]

OneCoreInv == /\ MutexInv
              /\ Free \/ Claimed \/ Filling \/ Handed \/ Serviced
              /\ OldMessageDone

OneCore == \E x : Cores = {x}

-----------------------------------------------------------------------------
(* Every variable of the message box keeps its type, for any number of     *)
(* cores and both values of the two switches.                              *)
THEOREM TypeCorrect == Spec => []TypeOK
<1>1. Init => TypeOK
  <2> SUFFICES ASSUME Init PROVE TypeOK
    OBVIOUS
  <2>1. isServiced \in BOOLEAN /\ locked \in BOOLEAN
    BY DEF Init
  <2>2. posted \in [Cores -> Nat] /\ applied \in [Cores -> Nat]
    BY DEF Init
  <2>3. pc \in [Cores -> CorePCs] /\ dpc \in DevicePCs
    BY DEF Init, CorePCs, DevicePCs
  <2> QED BY <2>1, <2>2, <2>3 DEF Init, TypeOK
<1>2. TypeOK /\ [Next]_vars => TypeOK'
  <2> SUFFICES ASSUME TypeOK, [Next]_vars PROVE TypeOK'
    OBVIOUS
  <2> USE DEF TypeOK, CorePCs, DevicePCs, Posts
  <2>1. ASSUME NEW c \in Cores, StartPost(c) \/ StartRead(c) PROVE TypeOK'
    BY <2>1 DEF StartPost, StartRead, Goto
  <2>2. ASSUME NEW c \in Cores, SpinPost(c) \/ SpinRead(c) \/ Load(c)
        PROVE  TypeOK'
    BY <2>2 DEF SpinPost, SpinRead, Load, Goto
  <2>3. ASSUME NEW c \in Cores, Claim(c) PROVE TypeOK'
    <3>1. isServiced' \in BOOLEAN
      BY <2>3 DEF Claim
    <3>2. posted' \in [Cores -> Nat]
      BY <2>3 DEF Claim
    <3> QED BY <2>3, <3>1, <3>2 DEF Claim, Goto
  <2>4. ASSUME NEW c \in Cores, Lock(c) \/ Unlock(c) PROVE TypeOK'
    BY <2>4 DEF Lock, Unlock, Goto
  <2>5. ASSUME NEW c \in Cores, Signal(c) PROVE TypeOK'
    BY <2>5 DEF Signal, Goto
  <2>6. ASSUME NEW c \in Cores, WriteData(c) \/ WriteAddr(c) PROVE TypeOK'
    BY <2>6 DEF WriteData, WriteAddr, Goto
  <2>7. CASE CondWait \/ SpuriousWakeup \/ Relock \/ SetServiced
    BY <2>7 DEF CondWait, SpuriousWakeup, Relock, SetServiced
  <2>8. CASE Service
    <3>1. CASE data = addr /\ addr # NoPost
      <4>1. addr \in Cores \X Nat
        BY <3>1
      <4>2. addr[1] \in Cores /\ addr[2] \in Nat
        BY <4>1
      <4> QED BY <2>8, <3>1, <4>2 DEF Service
    <3>2. CASE ~(data = addr /\ addr # NoPost)
      BY <2>8, <3>2 DEF Service
    <3> QED BY <3>1, <3>2
  <2>9. CASE UNCHANGED vars
    BY <2>9 DEF vars
  <2> QED
    BY <2>1, <2>2, <2>3, <2>4, <2>5, <2>6, <2>7, <2>8, <2>9
       DEF Next, CoreStep, DeviceStep
<1> QED BY <1>1, <1>2, PTL DEF Spec

-----------------------------------------------------------------------------
(* A device that already waits leaves the mutex free at the start.         *)
LEMMA MutexInit == ~LateDevice /\ TypeOK /\ Init => MutexInv
<1> SUFFICES ASSUME ~LateDevice, TypeOK, Init
             PROVE  OneAccessor /\ BoxConsistent
  BY DEF MutexInv
<1>1. dpc = "waiting" /\ ~locked /\ \A c \in Cores : pc[c] = "idle"
  BY DEF Init
<1>2. OneAccessor
  BY <1>1 DEF OneAccessor, InBox, DeviceInBox
<1>3. BoxConsistent
  BY <1>1 DEF Init, BoxConsistent
<1> QED BY <1>2, <1>3

(* Every step of updateMessageBox and of the device loop keeps the mutex   *)
(* held by exactly the thread that is in the box.                          *)
LEMMA MutexStep == MutexInv /\ TypeOK' /\ [Next]_vars => MutexInv'
<1> SUFFICES ASSUME MutexInv, TypeOK', [Next]_vars
             PROVE  OneAccessor' /\ BoxConsistent'
  BY DEF MutexInv
<1> USE DEF MutexInv, TypeOK, OneAccessor, BoxConsistent, InBox, DeviceInBox
<1>1. ASSUME NEW c \in Cores, StartPost(c) \/ StartRead(c)
      PROVE  OneAccessor' /\ BoxConsistent'
  BY <1>1 DEF StartPost, StartRead, Goto
<1>2. ASSUME NEW c \in Cores, SpinPost(c) \/ SpinRead(c) \/ Load(c)
      PROVE  OneAccessor' /\ BoxConsistent'
  BY <1>2 DEF SpinPost, SpinRead, Load, Goto
<1>3. ASSUME NEW c \in Cores, Claim(c)
      PROVE  OneAccessor' /\ BoxConsistent'
  BY <1>3 DEF Claim, Goto
<1>4. ASSUME NEW c \in Cores, Lock(c)
      PROVE  OneAccessor' /\ BoxConsistent'
  BY <1>4 DEF Lock, Goto
<1>5. ASSUME NEW c \in Cores, Signal(c)
      PROVE  OneAccessor' /\ BoxConsistent'
  BY <1>5 DEF Signal, Goto
<1>6. ASSUME NEW c \in Cores, WriteData(c)
      PROVE  OneAccessor' /\ BoxConsistent'
  BY <1>6 DEF WriteData, Goto
<1>7. ASSUME NEW c \in Cores, WriteAddr(c)
      PROVE  OneAccessor' /\ BoxConsistent'
  BY <1>7 DEF WriteAddr, Goto
<1>8. ASSUME NEW c \in Cores, Unlock(c)
      PROVE  OneAccessor' /\ BoxConsistent'
  BY <1>8 DEF Unlock, Goto
<1>9. CASE CondWait
  BY <1>9 DEF CondWait
<1>10. CASE SpuriousWakeup
  BY <1>10 DEF SpuriousWakeup
<1>11. CASE Relock
  BY <1>11 DEF Relock
<1>12. CASE Service \/ SetServiced
  BY <1>12 DEF Service, SetServiced
<1>13. CASE UNCHANGED vars
  BY <1>13 DEF vars
<1> QED
  BY <1>1, <1>2, <1>3, <1>4, <1>5, <1>6, <1>7, <1>8, <1>9, <1>10, <1>11,
     <1>12, <1>13 DEF Next, CoreStep, DeviceStep

(* The mutex discipline holds throughout, for any number of cores.         *)
LEMMA MutexInvariant == ASSUME ~LateDevice PROVE Spec => []MutexInv
<1>1. TypeOK /\ Init => MutexInv
  BY MutexInit
<1>2. MutexInv /\ TypeOK' /\ [Next]_vars => MutexInv'
  BY MutexStep
<1> QED BY <1>1, <1>2, TypeCorrect, PTL DEF Spec

(* Whatever the number of cores, and with spurious wakeups, the threads    *)
(* that touch the message do so one at a time, once the device waits.      *)
THEOREM MutualExclusion == ASSUME ~LateDevice PROVE Spec => []OneAccessor
<1>1. MutexInv => OneAccessor
  BY DEF MutexInv
<1> QED BY <1>1, MutexInvariant, PTL

(* Whatever the number of cores, the device acts on whole messages only.   *)
THEOREM MessagesWhole == ASSUME ~LateDevice PROVE Spec => []WholeMessage
<1>1. MutexInv => WholeMessage
  BY DEF MutexInv, OneAccessor, BoxConsistent, WholeMessage, InBox, DeviceInBox
<1> QED BY <1>1, MutexInvariant, PTL

-----------------------------------------------------------------------------
(* At the start nothing is posted and nothing is outstanding.              *)
LEMMA OneCoreInit == MutexInv /\ ~LateDevice /\ Init => OneCoreInv
<1> SUFFICES ASSUME MutexInv, ~LateDevice, Init
             PROVE  Free /\ OldMessageDone
  BY DEF OneCoreInv
<1>1. Free
  <2>1. isServiced /\ dpc = "waiting"
    BY DEF Init
  <2>2. \A c \in Cores : applied[c] = posted[c] /\ pc[c] = "idle"
    BY DEF Init
  <2> QED BY <2>1, <2>2 DEF Free
<1>2. OldMessageDone
  BY DEF OldMessageDone, Init
<1> QED BY <1>1, <1>2

(* With one core and no spurious wakeup, every step keeps the core and the *)
(* device thread taking turns at the box.                                  *)
LEMMA OneCoreStep ==
  ASSUME OneCore, ~SpuriousWakeups, OneCoreInv, MutexInv', [Next]_vars
  PROVE  OneCoreInv'
<1>0. PICK x : Cores = {x}
  BY DEF OneCore
<1> DEFINE Stages == Free \/ Claimed \/ Filling \/ Handed \/ Serviced
<1> SUFFICES Stages' /\ OldMessageDone'
  BY DEF OneCoreInv
<1>x. x \in Cores /\ posted[x] \in Nat /\ applied[x] \in Nat
  BY <1>0 DEF OneCoreInv, MutexInv, TypeOK
<1>m. addr # NoPost => addr[1] = x /\ addr[2] \in Nat
  BY <1>0 DEF OneCoreInv, MutexInv, TypeOK, Posts
<1> USE <1>0, <1>x, <1>m DEF OneCoreInv, MutexInv, TypeOK, OneAccessor,
        BoxConsistent, InBox, DeviceInBox, OldMessageDone,
        Free, Claimed, Filling, Handed, Serviced
<1>1. ASSUME NEW c \in Cores, StartPost(c) \/ StartRead(c)
      PROVE  Stages' /\ OldMessageDone'
  BY <1>1 DEF StartPost, StartRead, Goto
<1>2. ASSUME NEW c \in Cores, SpinPost(c) \/ SpinRead(c) \/ Load(c)
      PROVE  Stages' /\ OldMessageDone'
  BY <1>2 DEF SpinPost, SpinRead, Load, Goto
<1>3. ASSUME NEW c \in Cores, Claim(c)
      PROVE  Stages' /\ OldMessageDone'
  BY <1>3 DEF Claim, Goto
<1>4. ASSUME NEW c \in Cores, Lock(c)
      PROVE  Stages' /\ OldMessageDone'
  BY <1>4 DEF Lock, Goto
<1>5. ASSUME NEW c \in Cores, Signal(c)
      PROVE  Stages' /\ OldMessageDone'
  BY <1>5 DEF Signal, Goto
<1>6. ASSUME NEW c \in Cores, WriteData(c)
      PROVE  Stages' /\ OldMessageDone'
  BY <1>6 DEF WriteData, Goto
<1>7. ASSUME NEW c \in Cores, WriteAddr(c)
      PROVE  Stages' /\ OldMessageDone'
  BY <1>7 DEF WriteAddr, Goto
<1>8. ASSUME NEW c \in Cores, Unlock(c)
      PROVE  Stages' /\ OldMessageDone'
  BY <1>8 DEF Unlock, Goto
<1>9. CASE CondWait
  BY <1>9 DEF CondWait
<1>10. CASE SpuriousWakeup
  BY <1>10 DEF SpuriousWakeup
<1>11. CASE Relock
  BY <1>11 DEF Relock
<1>12. CASE Service
  <2>1. /\ ~isServiced
        /\ posted[x] = applied[x] + 1
        /\ addr = <<x, posted[x]>> /\ data = addr
        /\ pc[x] \in {"idle", "spin", "rspin"}
    BY <1>12 DEF Service
  <2>2. addr # NoPost
    BY <2>1, NoPostAssumption
  <2>3. applied' = [applied EXCEPT ![x] = posted[x]]
    BY <1>12, <2>1, <2>2 DEF Service
  <2>4. Serviced'
    BY <1>12, <2>1, <2>3 DEF Service
  <2>5. OldMessageDone'
    BY <1>12, <2>1, <2>3 DEF Service
  <2> QED BY <2>4, <2>5
<1>13. CASE SetServiced
  BY <1>13 DEF SetServiced
<1>14. CASE UNCHANGED vars
  BY <1>14 DEF vars
<1> QED
  BY <1>1, <1>2, <1>3, <1>4, <1>5, <1>6, <1>7, <1>8, <1>9, <1>10, <1>11,
     <1>12, <1>13, <1>14 DEF Next, CoreStep, DeviceStep

(* The core and the device thread take turns throughout.                   *)
LEMMA OneCoreInvariant ==
  ASSUME OneCore, ~LateDevice, ~SpuriousWakeups
  PROVE  Spec => []OneCoreInv
<1>1. MutexInv /\ Init => OneCoreInv
  BY OneCoreInit
<1>2. OneCoreInv /\ MutexInv' /\ [Next]_vars => OneCoreInv'
  BY OneCoreStep
<1> QED BY <1>1, <1>2, MutexInvariant, PTL DEF Spec

(* With one core a register read sees the effect of every register write   *)
(* the core made before it.                                                *)
THEOREM ReadsUpToDate ==
  ASSUME OneCore, ~LateDevice, ~SpuriousWakeups
  PROVE  Spec => []ReadUpToDate
<1>1. OneCoreInv => ReadUpToDate
  BY DEF OneCoreInv, ReadUpToDate, Free, Claimed, Filling, Handed, Serviced
<1> QED BY <1>1, OneCoreInvariant, PTL

(* With one core no message is replaced before the device carried it out.  *)
THEOREM NothingOverwritten ==
  ASSUME OneCore, ~LateDevice, ~SpuriousWakeups
  PROVE  Spec => NoOverwrite
<1>1. ASSUME OneCoreInv, [Next]_vars
      PROVE  [addr' # addr /\ addr # NoPost
                => applied[addr[1]] >= addr[2]]_vars
  <2> SUFFICES ASSUME addr' # addr, addr # NoPost
               PROVE  applied[addr[1]] >= addr[2]
    OBVIOUS
  <2>1. PICK c \in Cores : WriteAddr(c)
    BY <1>1 DEF Next, CoreStep, DeviceStep, vars, StartPost, StartRead, SpinPost,
       Claim, Lock, Signal, WriteData, Unlock, SpinRead, Load, CondWait, Relock,
       Service, SetServiced, SpuriousWakeup
  <2>2. ~Handed
    BY <2>1 DEF WriteAddr, Goto, Handed
  <2>3. addr[1] \in Cores /\ addr[2] \in Nat
    BY <1>1 DEF OneCoreInv, MutexInv, TypeOK, Posts
  <2> QED BY <1>1, <2>2, <2>3
          DEF OneCoreInv, OldMessageDone, MutexInv, TypeOK
<1> QED BY <1>1, OneCoreInvariant, PTL DEF Spec, NoOverwrite

(* With one core every post is carried out exactly once and in order.      *)
THEOREM ServicedInOrderOnce ==
  ASSUME OneCore, ~LateDevice, ~SpuriousWakeups
  PROVE  Spec => InOrderOnce
<1>1. ASSUME OneCoreInv
      PROVE  [Service => /\ addr # NoPost
                         /\ applied[addr[1]] + 1 = addr[2]]_vars
  <2> SUFFICES ASSUME Service
               PROVE  addr # NoPost /\ applied[addr[1]] + 1 = addr[2]
    OBVIOUS
  <2>1. PICK x : Cores = {x}
    BY DEF OneCore
  <2>2. posted[x] = applied[x] + 1 /\ addr = <<x, posted[x]>>
    BY <1>1, <2>1 DEF OneCoreInv, Service, Free, Claimed, Filling, Handed, Serviced
  <2>3. posted[x] \in Nat
    BY <1>1, <2>1 DEF OneCoreInv, MutexInv, TypeOK
  <2> QED BY <2>1, <2>2, <2>3, NoPostAssumption
<1> QED BY <1>1, OneCoreInvariant, PTL DEF Spec, InOrderOnce

-----------------------------------------------------------------------------
(* With one core the message box implements DeviceOps: a claim is a Post,  *)
(* a service an Apply, leaving the read loop a BeginRead, the load itself  *)
(* an EndRead, and every other step leaves the abstract state alone.       *)
THEOREM Implementation ==
  ASSUME OneCore, ~LateDevice, ~SpuriousWakeups
  PROVE  Spec => ImplementsDeviceOps
<1>0. PICK x : Cores = {x}
  BY DEF OneCore
<1> DEFINE reading == {c \in Cores : pc[c] = "read"}
<1>1. Init => Ops!OpsInit
  <2> SUFFICES ASSUME Init PROVE Ops!OpsInit
    OBVIOUS
  <2>1. reading = {}
    BY DEF Init
  <2> QED BY <2>1 DEF Init, Ops!OpsInit
<1>2. ASSUME OneCoreInv, [Next]_vars
      PROVE  [Ops!OpsNext]_(Ops!opsVars)
  <2> USE <1>2, <1>0 DEF OneCoreInv, MutexInv, TypeOK, Ops!opsVars
  <2>a. (posted' = posted /\ applied' = applied /\ reading' = reading)
           => [Ops!OpsNext]_(Ops!opsVars)
    OBVIOUS
  <2>f. ASSUME isServiced PROVE Ops!Outstanding = {}
    BY <2>f DEF Ops!Outstanding, Free, Claimed, Filling, Handed, Serviced
  <2>1. ASSUME NEW c \in Cores,
               \/ StartPost(c) \/ StartRead(c) \/ SpinPost(c) \/ Lock(c)
               \/ Signal(c) \/ WriteData(c) \/ WriteAddr(c) \/ Unlock(c)
        PROVE  [Ops!OpsNext]_(Ops!opsVars)
    <3>1. reading' = reading
      BY <2>1 DEF StartPost, StartRead, SpinPost, Lock, Signal, WriteData,
         WriteAddr, Unlock, Goto
    <3>2. posted' = posted /\ applied' = applied
      BY <2>1 DEF StartPost, StartRead, SpinPost, Lock, Signal, WriteData,
         WriteAddr, Unlock
    <3> QED BY <2>a, <3>1, <3>2
  <2>2. ASSUME NEW c \in Cores, Claim(c)
        PROVE  Ops!Post(c)
    <3>1. Ops!Outstanding = {}
      BY <2>2 DEF Claim, Goto, Ops!Outstanding, Free, Claimed, Filling, Handed,
         Serviced
    <3>2. reading' = reading
      BY <2>2 DEF Claim, Goto
    <3> QED BY <2>2, <3>1, <3>2 DEF Claim, Ops!Post
  <2>3. ASSUME NEW c \in Cores, SpinRead(c)
        PROVE  Ops!BeginRead(c)
    <3>1. reading' = reading \cup {c}
      BY <2>3 DEF SpinRead, Goto
    <3> QED BY <2>3, <2>f, <3>1 DEF SpinRead, Ops!BeginRead
  <2>4. ASSUME NEW c \in Cores, Load(c)
        PROVE  Ops!EndRead(c)
    <3>1. reading' = reading \ {c}
      BY <2>4 DEF Load, Goto
    <3> QED BY <2>4, <3>1 DEF Load, Ops!EndRead
  <2>5. CASE CondWait \/ Relock \/ SetServiced \/ SpuriousWakeup
    <3>1. posted' = posted /\ applied' = applied /\ reading' = reading
      BY <2>5 DEF CondWait, Relock, SetServiced, SpuriousWakeup
    <3> QED BY <2>a, <3>1
  <2>6. CASE Service
    <3>1. /\ posted[x] = applied[x] + 1
          /\ addr = <<x, posted[x]>> /\ data = addr
      BY <2>6 DEF Service, Free, Claimed, Filling, Handed, Serviced
    <3>2. applied' = [applied EXCEPT ![x] = applied[x] + 1]
      BY <2>6, <3>1, NoPostAssumption DEF Service
    <3>3. x \in Ops!Outstanding
      BY <3>1 DEF Ops!Outstanding
    <3>4. posted' = posted /\ reading' = reading
      BY <2>6 DEF Service
    <3>5. Ops!Apply(x)
      BY <3>2, <3>3, <3>4 DEF Ops!Apply
    <3> QED BY <3>5 DEF Ops!OpsNext
  <2>7. CASE UNCHANGED vars
    <3>1. posted' = posted /\ applied' = applied /\ reading' = reading
      BY <2>7 DEF vars
    <3> QED BY <2>a, <3>1
  <2> QED
    BY <2>1, <2>2, <2>3, <2>4, <2>5, <2>6, <2>7
       DEF Next, CoreStep, DeviceStep, Ops!OpsNext
<1> QED
  BY <1>1, <1>2, OneCoreInvariant, PTL DEF Spec, ImplementsDeviceOps, Ops!OpsSpec
=============================================================================
