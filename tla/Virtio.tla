------------------------------- MODULE Virtio -------------------------------
(***************************************************************************)
(* A virtio device: its registers (VirtioDevice), the block device or the  *)
(* network card behind them (VirtioBlk, VirtioNet), and the memory table,  *)
(* rings and eventfds shared with vhost in the host's kernel (Vhost,       *)
(* VirtQueue, EventNotifier).                                              *)
(*                                                                         *)
(* The threads are the guest's core, the device's thread that serves the   *)
(* message box, one polling thread per queue, and vhost's worker, which is *)
(* external.  A core's store to a register posts a message once the box is *)
(* free (module MessageBox) and then stores the value in the register      *)
(* itself, whether or not the message has been served by then.             *)
(*                                                                         *)
(* Request k of queue q is a chain of Parts[q] descriptors, whose buffers  *)
(* are <<q, k, 1>> and so on.  Indirect descriptors are left out.          *)
(***************************************************************************)
EXTENDS Integers, Sequences, FiniteSets

CONSTANTS Kinds,       \* the devices: "blk", "net"
          QueueNum,    \* QueueNum[q]: the ring size the guest gives queue q
          Parts,       \* Parts[q]: descriptors of a request
          MaxRegions,  \* VHOST_MEMORY_MAX_NREGIONS
          MaxRequests, \* bound: MaxRequests[kind] requests per queue
          None

AllQueues == 0 .. 2
RECEIVE_QUEUE == 0

ASSUME ShapeAssumption ==
  /\ Kinds \subseteq {"blk", "net"}
  /\ QueueNum \in [{0, 1} -> Nat \ {0}]
  /\ Parts \in [{0, 1} -> Nat \ {0}]
  /\ MaxRegions \in Nat \ {0}
  /\ MaxRequests \in [Kinds -> Nat]

VARIABLES kind,
          box,           \* the message in the box, None once served
          info,          \* the registers of the selected queue
          FeaturesSel,   \* register
          offered,       \* the half of the host's features that can be read
          SavedQueues, SelectedIndex, Queues, DeviceStarted,
          AckGuestFeatures,
          table, memTableIdx, nregions,    \* Vhost.memoryTable
          shared,        \* the buffers vhost's copy of the table covers
          entry,         \* history: entry[k + 1] is where block request k was entered
          kicked, called,                  \* the eventfds of each queue
          InterruptStatus,
          line,          \* CIU_SUM_GPIO0 or 1
          dpc, loaded,   \* the device thread in AckInterrupt
          ppc,           \* the polling threads
          todo, storing, \* guest: the set-up left, the store that follows
          avail, owes,   \* guest: requests made, queues to notify
          isr,           \* guest: in the interrupt handler
          seen,          \* guest: requests it knows to be done
          used           \* vhost: requests done

registers == <<info, FeaturesSel, offered>>
config == <<SavedQueues, SelectedIndex, AckGuestFeatures>>
tables == <<table, memTableIdx, nregions, shared, entry>>
guest == <<todo, storing, avail, owes, isr, seen>>
interrupts == <<InterruptStatus, line, dpc, loaded, ppc>>
vars == <<kind, box, registers, config, Queues, DeviceStarted, tables, kicked, called,
          interrupts, guest, used>>

NumQueues == IF kind = "net" THEN 2 ELSE 1
Live == 0 .. NumQueues - 1

Buffers == {0, 1} \X Int \X Nat
Infos == [num : Nat, pfn : Nat]
Vrings == [num : Nat, page : Nat, last_avail_idx : Nat]
Messages ==
  [reg : {"HOST_FEATURES_SEL", "GUEST_FEATURES_SEL", "GUEST_FEATURES", "QUEUE_SEL", "QUEUE_NUM",
          "QUEUE_PFN", "QUEUE_NOTIFY", "STATUS", "INTERRUPT_ACK", "read"},
   data : Nat]
Updates == {"idle", "loaded", "read", "generate", "clear", "dead"}

(* What the memory of SelectedIndex may hold before it is first set: the   *)
(* index of a queue, or one that is none.                                  *)
NoQueue == 3
Indices == AllQueues \cup {NoQueue}

ASSUME NoneAssumption == None \notin Messages

TypeOK ==
  /\ kind \in Kinds
  /\ box \in Messages \cup {None} /\ storing \in Messages \cup {None}
  /\ todo \in Seq(Messages)
  /\ info \in Infos /\ FeaturesSel \in {0, 1} /\ offered \in {0, 1}
  /\ SavedQueues \in [AllQueues -> Infos] /\ SelectedIndex \in Indices
  /\ Queues \in [AllQueues -> Vrings]
  /\ DeviceStarted \in BOOLEAN
  /\ AckGuestFeatures \in Seq(Nat)
  /\ table \in [0 .. MaxRegions - 1 -> Buffers \cup {None}]
  /\ memTableIdx \in Nat /\ nregions \in 0 .. MaxRegions /\ entry \in Seq(Nat)
  /\ kicked \in [{0, 1} -> BOOLEAN] /\ called \in [{0, 1} -> BOOLEAN]
  /\ InterruptStatus \in {0, 1} /\ line \in BOOLEAN
  /\ dpc \in Updates /\ loaded \in {0, 1} /\ ppc \in [{0, 1} -> Updates]
  /\ avail \in [{0, 1} -> 0 .. MaxRequests[kind]] /\ owes \subseteq {0, 1}
  /\ seen \in [{0, 1} -> 0 .. MaxRequests[kind]] /\ used \in [{0, 1} -> 0 .. MaxRequests[kind]]
  /\ isr \in {"idle", "ack0", "ack1", "scan"}

(* What the guest's driver writes and reads to set the device up: the      *)
(* features by halves, then each queue.                                    *)
Msg(reg, data) == [reg |-> reg, data |-> data]
Feature(h) == 10 + h
DRIVER_OK == 4
SetUp(n) ==
  <<Msg("HOST_FEATURES_SEL", 0), Msg("read", 0), Msg("HOST_FEATURES_SEL", 1), Msg("read", 1),
    Msg("GUEST_FEATURES_SEL", 0), Msg("GUEST_FEATURES", Feature(0)),
    Msg("GUEST_FEATURES_SEL", 1), Msg("GUEST_FEATURES", Feature(1))>>
  \o <<Msg("QUEUE_SEL", 0), Msg("QUEUE_NUM", QueueNum[0]), Msg("QUEUE_PFN", 1)>>
  \o (IF n = 2
      THEN <<Msg("QUEUE_SEL", 1), Msg("QUEUE_NUM", QueueNum[1]), Msg("QUEUE_PFN", 2)>>
      ELSE << >>)
  \o <<Msg("STATUS", DRIVER_OK)>>

(* Initialize, InitializeQueues and the constructors of the device, of     *)
(* Vhost and of the eventfds.  Nothing initialises SelectedIndex, a        *)
(* uint32_t.                                                               *)
Init ==
  /\ kind \in Kinds
  /\ box = None
  /\ info = [num |-> 0, pfn |-> 0] /\ FeaturesSel = 0 /\ offered = 0
  /\ SavedQueues = [q \in AllQueues |-> [num |-> 0, pfn |-> 0]]
  /\ SelectedIndex \in Indices
  /\ Queues = [q \in AllQueues |-> [num |-> 0, page |-> 0, last_avail_idx |-> 0]]
  /\ DeviceStarted = FALSE
  /\ AckGuestFeatures = <<0, 0>>
  /\ table = [s \in 0 .. MaxRegions - 1 |-> None]
  /\ memTableIdx = 0 /\ nregions = 0 /\ shared = {} /\ entry = << >>
  /\ kicked = [q \in {0, 1} |-> FALSE] /\ called = [q \in {0, 1} |-> FALSE]
  /\ InterruptStatus = 0 /\ line = FALSE
  /\ dpc = "idle" /\ loaded = 0 /\ ppc = [q \in {0, 1} |-> "idle"]
  /\ todo = SetUp(NumQueues) /\ storing = None
  /\ avail = [q \in {0, 1} |-> 0] /\ owes = {}
  /\ isr = "idle"
  /\ seen = [q \in {0, 1} |-> 0] /\ used = [q \in {0, 1} |-> 0]

-----------------------------------------------------------------------------
(* The guest *)

(* A write of a register: the message first, the store after it.           *)
GuestWrite ==
  /\ box = None /\ storing = None
  /\ todo # << >> /\ Head(todo).reg # "read"
  /\ box' = Head(todo) /\ storing' = Head(todo)
  /\ UNCHANGED <<kind, registers, config, Queues, DeviceStarted, tables, kicked, called,
                 interrupts, todo, avail, owes, isr, seen, used>>

GuestStore ==
  /\ storing # None
  /\ info' = CASE storing.reg = "QUEUE_NUM" -> [info EXCEPT !.num = storing.data]
               [] storing.reg = "QUEUE_PFN" -> [info EXCEPT !.pfn = storing.data]
               [] OTHER -> info
  /\ FeaturesSel' = IF storing.reg = "GUEST_FEATURES_SEL" THEN storing.data ELSE FeaturesSel
  /\ storing' = None /\ todo' = Tail(todo)
  /\ UNCHANGED <<kind, box, offered, config, Queues, DeviceStarted, tables, kicked, called,
                 interrupts, avail, owes, isr, seen, used>>

(* A read of a register waits until the box is free.                       *)
Reading == box = None /\ storing = None /\ todo # << >> /\ Head(todo).reg = "read"
GuestRead ==
  /\ Reading
  /\ todo' = Tail(todo)
  /\ UNCHANGED <<kind, box, registers, config, Queues, DeviceStarted, tables, kicked, called,
                 interrupts, storing, avail, owes, isr, seen, used>>

(* Once its queue is set up, before DRIVER_OK too, a driver puts requests  *)
(* in it as long as it has descriptors, and notifies the device after one  *)
(* or several.                                                             *)
Submit(q) ==
  /\ q \in Live
  /\ Len(todo) <= 1 /\ storing = None /\ isr = "idle"
  /\ avail[q] < MaxRequests[kind]
  /\ (avail[q] - seen[q] + 1) * Parts[q] <= QueueNum[q]
  /\ avail' = [avail EXCEPT ![q] = @ + 1]
  /\ owes' = owes \cup {q}
  /\ UNCHANGED <<kind, box, registers, config, Queues, DeviceStarted, tables, kicked, called,
                 interrupts, todo, storing, isr, seen, used>>

Notify(q) ==
  /\ q \in owes
  /\ box = None /\ storing = None /\ isr = "idle"
  /\ box' = Msg("QUEUE_NOTIFY", q)
  /\ owes' = owes \ {q}
  /\ UNCHANGED <<kind, registers, config, Queues, DeviceStarted, tables, kicked, called,
                 interrupts, todo, storing, avail, isr, seen, used>>

(* The interrupt handler reads the status, acknowledges it, and looks at   *)
(* what has been used.                                                     *)
Isr ==
  /\ \/ /\ isr = "idle" /\ line /\ storing = None /\ box = None
        /\ isr' = (IF InterruptStatus = 1 THEN "ack1" ELSE "ack0")
        /\ UNCHANGED <<box, seen>>
     \/ /\ isr \in {"ack0", "ack1"} /\ box = None
        /\ box' = Msg("INTERRUPT_ACK", IF isr = "ack1" THEN 1 ELSE 0)
        /\ isr' = "scan"
        /\ UNCHANGED seen
     \/ /\ isr = "scan"
        /\ seen' = used
        /\ isr' = "idle"
        /\ UNCHANGED box
  /\ UNCHANGED <<kind, registers, config, Queues, DeviceStarted, tables, kicked, called,
                 interrupts, todo, storing, avail, owes, used>>

-----------------------------------------------------------------------------
(* The device thread: PerformOperation, by register *)

Serving(reg) == box # None /\ box.reg = reg /\ dpc = "idle"

SelHostFeatures ==
  /\ Serving("HOST_FEATURES_SEL")
  /\ offered' = box.data
  /\ box' = None
  /\ UNCHANGED <<kind, info, FeaturesSel, config, Queues, DeviceStarted, tables, kicked, called,
                 interrupts, guest, used>>

SetGuestFeatures ==
  /\ Serving("GUEST_FEATURES")
  /\ AckGuestFeatures' = [AckGuestFeatures EXCEPT ![FeaturesSel + 1] = box.data]
  /\ box' = None
  /\ UNCHANGED <<kind, registers, SavedQueues, SelectedIndex, Queues, DeviceStarted, tables,
                 kicked, called, interrupts, guest, used>>

(* Mutant of UpdateQueue: the selection is not recorded.                   *)
UpdateQueue_Unrecorded ==
  /\ Serving("QUEUE_SEL")
  /\ LET saved == [SavedQueues EXCEPT ![SelectedIndex] = info]
     IN SavedQueues' = saved /\ info' = saved[box.data]
  /\ box' = None
  /\ UNCHANGED <<kind, FeaturesSel, offered, SelectedIndex, AckGuestFeatures, Queues,
                 DeviceStarted, tables, kicked, called, interrupts, guest, used>>

(* SaveQueue, LoadQueue.  An index that is none of a queue's saves the     *)
(* registers to memory of something else, which is not followed here...    *)
UpdateQueue ==
  /\ Serving("QUEUE_SEL")
  /\ LET saved == [q \in AllQueues |-> IF q = SelectedIndex THEN info ELSE SavedQueues[q]]
     IN SavedQueues' = saved /\ info' = saved[box.data]
  /\ SelectedIndex' = box.data
  /\ box' = None
  /\ UNCHANGED <<kind, FeaturesSel, offered, AckGuestFeatures, Queues,
                 DeviceStarted, tables, kicked, called, interrupts, guest, used>>

(* ... or to no memory at all, which ends the process.                     *)
SaveQueueFaults ==
  /\ Serving("QUEUE_SEL") /\ SelectedIndex = NoQueue
  /\ dpc' = "dead"
  /\ UNCHANGED <<kind, box, registers, config, Queues, DeviceStarted, tables, kicked, called,
                 InterruptStatus, line, loaded, ppc, guest, used>>

createVring(num, page) == [num |-> num, page |-> page, last_avail_idx |-> 0]
UpdateVirtQueue ==
  /\ Serving("QUEUE_PFN")
  /\ Queues' = [Queues EXCEPT ![SelectedIndex] = createVring(info.num, box.data)]
  /\ box' = None
  /\ UNCHANGED <<kind, registers, config, DeviceStarted, tables, kicked, called,
                 interrupts, guest, used>>

(* QUEUE_NUM, QUEUE_ALIGN and GUEST_FEATURES_SEL: nothing to do.           *)
NoOperation ==
  /\ Serving("QUEUE_NUM") \/ Serving("GUEST_FEATURES_SEL")
  /\ box' = None
  /\ UNCHANGED <<kind, registers, config, Queues, DeviceStarted, tables, kicked, called,
                 interrupts, guest, used>>

-----------------------------------------------------------------------------
(* Vhost's memory table *)

Least(a, b) == IF a < b THEN a ELSE b
Part(q, k, j) == <<q, k, j>>

(* updateTableEntry for buffers b[1], ... from index i on.                 *)
Entered(t, i, b) ==
  [s \in 0 .. MaxRegions - 1 |->
     LET here == {n \in DOMAIN b : (i + n - 1) % MaxRegions = s}
     IN IF here = {} THEN t[s] ELSE b[CHOOSE n \in here : \A m \in here : m <= n]]

(* An update stops at the MaxRegions-th descriptor that it finds.          *)
Limited(n) == Least(n, MaxRegions - 1)

(* The descriptors of the requests that have been made available since.    *)
NewParts ==
  LET last == Queues[RECEIVE_QUEUE].last_avail_idx
      P == Parts[RECEIVE_QUEUE]
  IN [m \in 1 .. Limited((avail[RECEIVE_QUEUE] - last) * P) |->
        Part(RECEIVE_QUEUE, last + (m - 1) \div P, ((m - 1) % P) + 1)]

(* Mutant of updateBlkTableFromQueue: an update starts at the end of the   *)
(* table that is set, as a network card's does.                            *)
updateBlkTableFromQueue_FromEnd ==
  LET P == Parts[RECEIVE_QUEUE]
      ret == Len(NewParts) \div P
  IN [table |-> Entered(table, nregions, NewParts), idx |-> nregions + Len(NewParts),
      ret |-> ret,
      entry |-> entry \o [i \in 1 .. ret |-> nregions + (i - 1) * P],
      queues |-> [Queues EXCEPT ![RECEIVE_QUEUE].last_avail_idx = @ + ret]]

(* One region for each of them.  A request of which only some descriptors  *)
(* were entered before the limit does not count: the next update starts    *)
(* with it.                                                                *)
updateBlkTableFromQueue ==
  LET P == Parts[RECEIVE_QUEUE]
      ret == Len(NewParts) \div P
  IN [table |-> Entered(table, memTableIdx, NewParts), idx |-> memTableIdx + Len(NewParts),
      ret |-> ret,
      entry |-> entry \o [i \in 1 .. ret |-> memTableIdx + (i - 1) * P],
      queues |-> [Queues EXCEPT ![RECEIVE_QUEUE].last_avail_idx = @ + ret]]

(* One request of each queue, available or not: the ring's entry is then   *)
(* the one of a lap earlier (a negative request stands for an entry never  *)
(* written).  Each queue starts at the end of the table that is set.       *)
updateNetTableFromQueue(q, t) ==
  LET last == Queues[q].last_avail_idx
      k == IF last < avail[q] THEN last ELSE last - QueueNum[q]
  IN Entered(t, nregions, [j \in 1 .. Limited(Parts[q]) |-> Part(q, k, j)])

NetTables ==
  [table |-> updateNetTableFromQueue(1, updateNetTableFromQueue(0, table)),
   idx |-> nregions + Limited(Parts[1]),
   ret |-> Limited(Parts[0]) + Limited(Parts[1]),
   entry |-> entry,
   queues |-> [q \in AllQueues |->
                 IF q \in Live /\ Parts[q] < MaxRegions
                 THEN [Queues[q] EXCEPT !.last_avail_idx = @ + 1]
                 ELSE Queues[q]]]

(* Mutant of updateMemoryTable: the number of regions is not limited.      *)
updateMemoryTable_Unlimited ==
  LET u == IF kind = "net" THEN NetTables ELSE updateBlkTableFromQueue
  IN /\ table' = u.table /\ memTableIdx' = u.idx /\ Queues' = u.queues /\ entry' = u.entry
     /\ IF u.ret > 0
        THEN /\ nregions' = u.idx
             /\ shared' = {u.table[s] : s \in 0 .. Least(u.idx, MaxRegions) - 1}
        ELSE UNCHANGED <<nregions, shared>>

(* With setMemoryTable, which gives vhost the table as it is then.         *)
updateMemoryTable ==
  LET u == IF kind = "net" THEN NetTables ELSE updateBlkTableFromQueue
      n == Least(u.idx, MaxRegions)
  IN /\ table' = u.table /\ memTableIdx' = u.idx /\ Queues' = u.queues /\ entry' = u.entry
     /\ IF u.ret > 0
        THEN nregions' = n /\ shared' = {u.table[s] : s \in 0 .. n - 1}
        ELSE UNCHANGED <<nregions, shared>>

(* Mutant of VblkStart: the notification that starts the device is done    *)
(* with that and does not go on to kick vhost.                             *)
VblkStart_Only ==
  /\ Serving("QUEUE_NOTIFY")
  /\ kind = "blk" /\ ~DeviceStarted
  /\ updateMemoryTable /\ DeviceStarted' = TRUE
  /\ box' = None
  /\ UNCHANGED <<kind, registers, config, kicked, called, interrupts, guest, used>>

(* The first notification starts a block device (StartDevice) ...          *)
VblkStart ==
  /\ Serving("QUEUE_NOTIFY")
  /\ kind = "blk" /\ ~DeviceStarted
  /\ updateMemoryTable /\ DeviceStarted' = TRUE
  /\ UNCHANGED <<kind, box, registers, config, kicked, called, interrupts, guest, used>>

(* ... and goes on as every other does: the table is updated (again) and   *)
(* vhost kicked (NotifyHost).  A network card that has not been started    *)
(* ignores it.                                                             *)
NotifyDevice ==
  /\ Serving("QUEUE_NOTIFY")
  /\ kind = "blk" => DeviceStarted
  /\ IF DeviceStarted
     THEN updateMemoryTable /\ kicked' = [kicked EXCEPT ![box.data] = TRUE]
     ELSE UNCHANGED <<Queues, tables, kicked>>
  /\ box' = None
  /\ UNCHANGED <<kind, registers, config, DeviceStarted, called, interrupts, guest, used>>

(* DRIVER_OK starts a network card (VnetStart, StartDevice).               *)
UpdateStatus ==
  /\ Serving("STATUS")
  /\ IF kind = "net"
     THEN updateMemoryTable /\ DeviceStarted' = TRUE
     ELSE UNCHANGED <<Queues, tables, DeviceStarted>>
  /\ box' = None
  /\ UNCHANGED <<kind, registers, config, kicked, called, interrupts, guest, used>>

-----------------------------------------------------------------------------
(* Interrupts *)

(* UpdateInterrupt: the status is read, then the line is raised or cleared *)
(* by what was read.                                                       *)
Chosen == IF InterruptStatus > 0 THEN "generate" ELSE "clear"

(* Mutant of AckInterrupt: the line is left as it is.                      *)
AckInterrupt_NoUpdate ==
  /\ box # None /\ box.reg = "INTERRUPT_ACK"
  /\ \/ dpc = "idle" /\ dpc' = "loaded" /\ loaded' = InterruptStatus
        /\ UNCHANGED <<box, InterruptStatus>>
     \/ dpc = "loaded" /\ dpc' = "idle" /\ box' = None
        /\ InterruptStatus' = (IF box.data = 1 THEN 0 ELSE loaded) /\ UNCHANGED loaded
  /\ UNCHANGED <<kind, registers, config, Queues, DeviceStarted, tables, kicked, called,
                 line, ppc, guest, used>>

(* *InterruptStatus &= ~data is a load and a store.                        *)
AckInterrupt ==
  /\ box # None /\ box.reg = "INTERRUPT_ACK"
  /\ \/ /\ dpc = "idle"
        /\ loaded' = InterruptStatus /\ dpc' = "loaded"
        /\ UNCHANGED <<box, InterruptStatus, line>>
     \/ /\ dpc = "loaded"
        /\ InterruptStatus' = (IF box.data = 1 THEN 0 ELSE loaded) /\ dpc' = "read"
        /\ UNCHANGED <<box, loaded, line>>
     \/ /\ dpc = "read"
        /\ dpc' = Chosen
        /\ UNCHANGED <<box, InterruptStatus, loaded, line>>
     \/ /\ dpc \in {"generate", "clear"}
        /\ line' = (dpc = "generate") /\ dpc' = "idle" /\ box' = None
        /\ UNCHANGED <<InterruptStatus, loaded>>
  /\ UNCHANGED <<kind, registers, config, Queues, DeviceStarted, tables, kicked, called,
                 ppc, guest, used>>

(* A polling thread: PollGuest returns, GenerateInterrupt.                 *)
GenerateInterrupt(q) ==
  /\ \/ /\ ppc[q] = "idle" /\ called[q]
        /\ called' = [called EXCEPT ![q] = FALSE]
        /\ InterruptStatus' = 1 /\ ppc' = [ppc EXCEPT ![q] = "read"]
        /\ UNCHANGED line
     \/ /\ ppc[q] = "read"
        /\ ppc' = [ppc EXCEPT ![q] = Chosen]
        /\ UNCHANGED <<called, InterruptStatus, line>>
     \/ /\ ppc[q] \in {"generate", "clear"}
        /\ line' = (ppc[q] = "generate") /\ ppc' = [ppc EXCEPT ![q] = "idle"]
        /\ UNCHANGED <<called, InterruptStatus>>
  /\ UNCHANGED <<kind, box, registers, config, Queues, DeviceStarted, tables, kicked,
                 dpc, loaded, guest, used>>

-----------------------------------------------------------------------------
(* vhost *)

Covered(q, k) == \A j \in 1 .. Parts[q] : Part(q, k, j) \in shared

(* Vhost's worker performs the queue's next request and calls the guest,   *)
(* or gives up until the next kick when a buffer is not in its table.      *)
VhostTake(q) ==
  /\ kicked[q] /\ used[q] < avail[q]
  /\ IF Covered(q, used[q])
     THEN /\ used' = [used EXCEPT ![q] = @ + 1]
          /\ called' = [called EXCEPT ![q] = TRUE]
          /\ UNCHANGED kicked
     ELSE kicked' = [kicked EXCEPT ![q] = FALSE] /\ UNCHANGED <<used, called>>
  /\ UNCHANGED <<kind, box, registers, config, Queues, DeviceStarted, tables,
                 interrupts, guest>>

VhostIdle(q) ==
  /\ kicked[q] /\ used[q] = avail[q]
  /\ kicked' = [kicked EXCEPT ![q] = FALSE]
  /\ UNCHANGED <<kind, box, registers, config, Queues, DeviceStarted, tables, called,
                 interrupts, guest, used>>

-----------------------------------------------------------------------------

Driver == GuestWrite \/ GuestStore \/ GuestRead

PerformOperation ==
  \/ SelHostFeatures \/ SetGuestFeatures \/ UpdateQueue \/ SaveQueueFaults
  \/ UpdateVirtQueue \/ NoOperation \/ VblkStart \/ NotifyDevice \/ UpdateStatus \/ AckInterrupt

Next ==
  \/ Driver \/ Isr \/ PerformOperation
  \/ \E q \in {0, 1} : \/ Submit(q) \/ Notify(q)
                      \/ GenerateInterrupt(q) \/ VhostTake(q) \/ VhostIdle(q)

(* Every thread keeps running; a driver finishes its set-up, notifies the  *)
(* device of what it has submitted and handles interrupts.  Nothing says   *)
(* that a packet arrives.                                                  *)
Fairness ==
  /\ WF_vars(Driver) /\ WF_vars(Isr) /\ WF_vars(PerformOperation)
  /\ \A q \in {0, 1} :
       /\ WF_vars(Notify(q)) /\ WF_vars(GenerateInterrupt(q))
       /\ WF_vars(VhostTake(q) /\ (kind = "net" => q # RECEIVE_QUEUE))

Spec == Init /\ [][Next]_vars /\ Fairness

-----------------------------------------------------------------------------
(* Properties *)

(* The device ends up with what the driver wrote, although each message is *)
(* served before or after the store that follows it and the registers are  *)
(* shared by all queues: each queue has its own size and page, each half   *)
(* of the features is the one that was acknowledged, and a driver that     *)
(* reads a half of the host's features reads the half it selected.         *)
SetupAsWritten ==
  /\ Reading => offered = Head(todo).data
  /\ Len(todo) <= 1 /\ storing = None /\ box = None =>
       /\ AckGuestFeatures = <<Feature(0), Feature(1)>>
       /\ \A q \in Live : Queues[q].num = QueueNum[q] /\ Queues[q].page = q + 1

Taken(q) == {k \in 0 .. avail[q] - 1 : used[q] <= k /\ k < Queues[q].last_avail_idx}

(* updateMemoryTable, block device: a request whose descriptors have been  *)
(* entered is in the table that vhost has until MaxRegions descriptors,    *)
(* its own included, have been entered after it started, however often the *)
(* ring laps the table, updates stop at their limit or a request is        *)
(* entered a second time.  A ring larger than the table may outrun that.   *)
BlkTakenCovered ==
  kind = "blk" =>
    \A k \in Taken(0) : memTableIdx <= entry[k + 1] + MaxRegions => Covered(0, k)

(* For a network card, vhost's table covers what has been entered and is  *)
(* not done (nothing laps here): "Updates the memory table for queues", for  *)
(* the descriptors of the receive queue and of the transfer queue          *)
(* (src/Vhost.cpp:245-249).                                                *)
NetTakenCovered ==
  kind = "net" => \A q \in Live : \A k \in Taken(q) : Covered(q, k)

(* As long as there are no more requests that are not done than the table  *)
(* holds, one region less ...                                              *)
RoomInTable == avail[0] - used[0] <= (MaxRegions - 1) \div Parts[0]

(* ... a block request that is put in the ring is performed, before or     *)
(* after DRIVER_OK, whether or not an earlier kick is still being handled, *)
(* and although vhost gives up on a request it sees before the table has   *)
(* it.  Without room a request may be lost: an update stops at its limit,  *)
(* or enters so much that the requests vhost waits for are overwritten.    *)
RequestServed ==
  []RoomInTable =>
    \A k \in 0 .. MaxRequests["blk"] - 1 : kind = "blk" /\ avail[0] > k ~> used[0] > k

(* No interrupt storm: a device's line that is up goes down, however       *)
(* AckInterrupt and GenerateInterrupt interleave.                          *)
LineFalls == line ~> ~line

=============================================================================
