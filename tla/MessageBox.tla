----------------------------- MODULE MessageBox -----------------------------
(***************************************************************************)
(* One DeviceMessageBox of IOManager (IOManager.h): the core threads that  *)
(* post a register access in it (IOManager::updateMessageBox, reached from *)
(* IOManager::GVAtoHVA) and the thread of the device behind it (the loops  *)
(* of CIU::start, UART::start, VirtioBlk::start and VirtioNet::start,      *)
(* which differ only in what they do with the message).                    *)
(*                                                                         *)
(* The box holds the flag isServiced, a default pthread mutex, a condition *)
(* variable and one message.  The two halves of a message are kept apart,  *)
(* since nothing but the mutex keeps a reader from seeing half of one.  A  *)
(* message is represented by the post that wrote it: <<core, number>>.     *)
(*                                                                         *)
(* Facts of the pthread library (external) the model relies on: a default  *)
(* mutex has no owner, so that unlocking frees it whoever locked it; a     *)
(* signal wakes the waiting thread and is lost when nobody waits; a woken  *)
(* thread competes for the mutex with everybody else.                      *)
(***************************************************************************)
EXTENDS Naturals

CONSTANTS Cores,            \* the core threads of the board
          NoPost,           \* content of a message field nobody wrote yet
          MaxPosts,         \* bound: posts per core
          LateDevice,       \* may a core run before the device first waits?
          SpuriousWakeups   \* may pthread_cond_wait return unsignalled?

ASSUME CoresAssumption == Cores # {}
ASSUME NoPostAssumption == NoPost \notin Cores \X Nat
ASSUME BoundAssumption == MaxPosts \in Nat
ASSUME FlagAssumption == LateDevice \in BOOLEAN /\ SpuriousWakeups \in BOOLEAN

VARIABLES isServiced,   \* DeviceMessageBox.isServiced
          locked,       \* DeviceMessageBox.lock_device
          data,         \* DeviceMessageBox.RW and .data
          addr,         \* DeviceMessageBox.addr
          pc,           \* pc[c]: where core c is in IOManager::GVAtoHVA
          dpc,          \* where the device thread is in its start() loop
          posted,       \* history: posts each core has begun
          applied       \* history: the last post of each core serviced

vars == <<isServiced, locked, data, addr, pc, dpc, posted, applied>>

CorePCs == {"idle", "spin", "claim", "lock", "signal", "data", "addr",
            "unlock", "rspin", "read"}
DevicePCs == {"wait", "waiting", "woken", "service", "done"}

Posts == Cores \X Nat

TypeOK ==
  /\ isServiced \in BOOLEAN
  /\ locked \in BOOLEAN
  /\ data \in Posts \cup {NoPost}
  /\ addr \in Posts \cup {NoPost}
  /\ pc \in [Cores -> CorePCs]
  /\ dpc \in DevicePCs
  /\ posted \in [Cores -> Nat]
  /\ applied \in [Cores -> Nat]

(* IOManager::IOManager; SystemBoard_IPE starts the device threads before  *)
(* the core threads and nothing makes a core wait for a device: dpc =      *)
(* "wait" is a device thread that has not reached its loop.                *)
Init ==
  /\ isServiced = TRUE
  /\ locked = FALSE
  /\ data = NoPost
  /\ addr = NoPost
  /\ pc = [c \in Cores |-> "idle"]
  /\ dpc = IF LateDevice THEN "wait" ELSE "waiting"
  /\ posted = [c \in Cores |-> 0]
  /\ applied = [c \in Cores |-> 0]

-----------------------------------------------------------------------------
(* The cores *)

Goto(c, from, to) == pc[c] = from /\ pc' = [pc EXCEPT ![c] = to]

(* The guest stores to a register of the device, or loads one of the UART. *)
StartPost(c) ==
  /\ posted[c] < MaxPosts
  /\ Goto(c, "idle", "spin")
  /\ UNCHANGED <<isServiced, locked, data, addr, dpc, posted, applied>>

(* Mutant of SpinPost: the previous message is not waited for.             *)
SpinPost_NoWait(c) ==
  /\ Goto(c, "spin", "claim")
  /\ UNCHANGED <<isServiced, locked, data, addr, dpc, posted, applied>>

(* while(!device->isServiced);                                             *)
SpinPost(c) ==
  /\ isServiced
  /\ Goto(c, "spin", "claim")
  /\ UNCHANGED <<isServiced, locked, data, addr, dpc, posted, applied>>

(* device->isServiced = false;                                             *)
Claim(c) ==
  /\ Goto(c, "claim", "lock")
  /\ isServiced' = FALSE
  /\ posted' = [posted EXCEPT ![c] = @ + 1]
  /\ UNCHANGED <<locked, data, addr, dpc, applied>>

(* Mutant of Lock: the mutex is not waited for.                            *)
Lock_NoWait(c) ==
  /\ Goto(c, "lock", "signal")
  /\ locked' = TRUE
  /\ UNCHANGED <<isServiced, data, addr, dpc, posted, applied>>

Lock(c) ==
  /\ ~locked
  /\ Goto(c, "lock", "signal")
  /\ locked' = TRUE
  /\ UNCHANGED <<isServiced, data, addr, dpc, posted, applied>>

(* pthread_cond_signal: no effect unless the device is in its wait.        *)
Signal(c) ==
  /\ Goto(c, "signal", "data")
  /\ dpc' = IF dpc = "waiting" THEN "woken" ELSE dpc
  /\ UNCHANGED <<isServiced, locked, data, addr, posted, applied>>

(* device->RW = ...; device->data = ...;                                   *)
WriteData(c) ==
  /\ Goto(c, "data", "addr")
  /\ data' = <<c, posted[c]>>
  /\ UNCHANGED <<isServiced, locked, addr, dpc, posted, applied>>

(* Mutants of WriteAddr: the sender is not recorded; nothing is written.   *)
WriteAddr_NoSender(c) ==
  /\ Goto(c, "addr", "unlock")
  /\ addr' = <<NoPost, posted[c]>>
  /\ UNCHANGED <<isServiced, locked, data, dpc, posted, applied>>

WriteAddr_Skipped(c) ==
  /\ Goto(c, "addr", "unlock")
  /\ UNCHANGED <<isServiced, locked, data, addr, dpc, posted, applied>>

(* device->addr = addr;                                                    *)
WriteAddr(c) ==
  /\ Goto(c, "addr", "unlock")
  /\ addr' = <<c, posted[c]>>
  /\ UNCHANGED <<isServiced, locked, data, dpc, posted, applied>>

Unlock(c) ==
  /\ Goto(c, "unlock", "idle")
  /\ locked' = FALSE
  /\ UNCHANGED <<isServiced, data, addr, dpc, posted, applied>>

(* The guest loads a register of the CIU, the disk or the net card.        *)
StartRead(c) ==
  /\ Goto(c, "idle", "rspin")
  /\ UNCHANGED <<isServiced, locked, data, addr, dpc, posted, applied>>

(* Mutant of SpinRead: a load does not wait.                               *)
SpinRead_NoWait(c) ==
  /\ Goto(c, "rspin", "read")
  /\ UNCHANGED <<isServiced, locked, data, addr, dpc, posted, applied>>

(* while(!this->MessageBox[id].isServiced);                                *)
SpinRead(c) ==
  /\ isServiced
  /\ Goto(c, "rspin", "read")
  /\ UNCHANGED <<isServiced, locked, data, addr, dpc, posted, applied>>

(* GVAtoHVA has returned: the translated load reads the register.          *)
Load(c) ==
  /\ Goto(c, "read", "idle")
  /\ UNCHANGED <<isServiced, locked, data, addr, dpc, posted, applied>>

-----------------------------------------------------------------------------
(* The device thread *)

(* pthread_cond_wait: frees the mutex and starts waiting.  The first call  *)
(* of the loop is made without having locked the mutex.                    *)
CondWait ==
  /\ dpc = "wait"
  /\ dpc' = "waiting"
  /\ locked' = FALSE
  /\ UNCHANGED <<isServiced, data, addr, pc, posted, applied>>

SpuriousWakeup ==
  /\ SpuriousWakeups
  /\ dpc = "waiting"
  /\ dpc' = "woken"
  /\ UNCHANGED <<isServiced, locked, data, addr, pc, posted, applied>>

(* The woken device takes the mutex back: pthread_cond_wait returns.       *)
Relock ==
  /\ dpc = "woken"
  /\ ~locked
  /\ dpc' = "service"
  /\ locked' = TRUE
  /\ UNCHANGED <<isServiced, data, addr, pc, posted, applied>>

(* Mutant of Service: the device drops the message.                        *)
Service_Dropped ==
  /\ dpc = "service"
  /\ dpc' = "done"
  /\ UNCHANGED <<isServiced, locked, data, addr, pc, posted, applied>>

(* CIU::updateFlags and its counterparts act on the message in the box; a  *)
(* message that is not one post in full carries out no post.               *)
Service ==
  /\ dpc = "service"
  /\ dpc' = "done"
  /\ applied' = IF data = addr /\ addr # NoPost
                THEN [applied EXCEPT ![addr[1]] = addr[2]] ELSE applied
  /\ UNCHANGED <<isServiced, locked, data, addr, pc, posted>>

(* Mutants of SetServiced: the loop does not wait for the next message; it *)
(* takes the message for a new one as long as isServiced is false, and     *)
(* forgets to set it.                                                      *)
SetServiced_NoCondWait ==
  /\ dpc = "done"
  /\ dpc' = "woken"
  /\ isServiced' = TRUE
  /\ locked' = FALSE
  /\ UNCHANGED <<data, addr, pc, posted, applied>>

SetServiced_FlagForgotten ==
  /\ dpc = "done"
  /\ dpc' = "woken"
  /\ locked' = FALSE
  /\ UNCHANGED <<isServiced, data, addr, pc, posted, applied>>

(* this->MessageBox->isServiced = true;                                    *)
SetServiced ==
  /\ dpc = "done"
  /\ dpc' = "wait"
  /\ isServiced' = TRUE
  /\ UNCHANGED <<locked, data, addr, pc, posted, applied>>

-----------------------------------------------------------------------------
(* What a core does once it has begun an access; beginning one is up to    *)
(* the guest.                                                              *)
CoreStep(c) ==
  \/ SpinPost(c) \/ Claim(c) \/ Lock(c) \/ Signal(c)
  \/ WriteData(c) \/ WriteAddr(c) \/ Unlock(c)
  \/ SpinRead(c) \/ Load(c)

DeviceStep == CondWait \/ Relock \/ Service \/ SetServiced

Next ==
  \/ \E c \in Cores : StartPost(c) \/ StartRead(c) \/ CoreStep(c)
  \/ DeviceStep
  \/ SpuriousWakeup

Spec == Init /\ [][Next]_vars

(* The host scheduler runs every thread.                                   *)
Fairness == WF_vars(DeviceStep) /\ \A c \in Cores : WF_vars(CoreStep(c))

FairSpec == Spec /\ Fairness

-----------------------------------------------------------------------------
(* Properties *)

InBox(c) == pc[c] \in {"signal", "data", "addr", "unlock"}
DeviceInBox == dpc \in {"service", "done", "wait"}

(* The message is touched by one thread at a time: the mutex is held       *)
(* exactly when some thread is between its lock and its unlock, and then   *)
(* by one thread only, the device included.                                *)
OneAccessor ==
  /\ locked <=> (DeviceInBox \/ \E c \in Cores : InBox(c))
  /\ DeviceInBox => \A c \in Cores : ~InBox(c)
  /\ \A c, d \in Cores : InBox(c) /\ InBox(d) => c = d

(* The device never acts on an addr and a data of different posts, though  *)
(* a core signals it before it fills the box and several cores may be      *)
(* filling it one after the other.                                         *)
WholeMessage == dpc = "service" => addr = data

(* "Wait until previous message is serviced" (updateMessageBox): a message *)
(* is not replaced in the box before the device has carried it out.        *)
NoOverwrite ==
  [][addr' # addr /\ addr # NoPost => applied[addr[1]] >= addr[2]]_vars

(* The device carries out the posts of a core one after the other: none is *)
(* skipped, none is carried out again, and a box nobody has filled is not  *)
(* acted on.                                                               *)
InOrderOnce ==
  [][Service => /\ addr # NoPost
                /\ applied[addr[1]] + 1 = addr[2]]_vars

(* "In case of read, wait for previous device operation to complete so     *)
(* core can get updated register vlaues" (GVAtoHVA): when a core loads a   *)
(* register, its own earlier posts have been carried out.                  *)
ReadUpToDate ==
  \A c \in Cores : pc[c] = "read" => applied[c] = posted[c]

(* The box comes free again: a core that claimed it is not followed by     *)
(* everybody spinning on isServiced for ever.                              *)
BoxComesFree == ~isServiced ~> isServiced

(* "notified the device thread to take action" (updateMessageBox): what a  *)
(* core put in the box is eventually acted on, by the device servicing     *)
(* this post or a later one of the same core.                              *)
PostTakesEffect ==
  \A c \in Cores : applied[c] < posted[c] ~> applied[c] = posted[c]

Ops == INSTANCE DeviceOps WITH reading <- {c \in Cores : pc[c] = "read"}

(* With one core the message box is what DeviceOps promises.               *)
ImplementsDeviceOps == Ops!OpsSpec
=============================================================================
