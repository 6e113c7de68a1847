# Verification of the Type-II hypervisor

The repository is a type-II hypervisor: a host process that runs a MIPS64
(Octeon) guest by translating its code block by block. Each guest core is a
host thread; each device is a host thread; guest memory and device registers
are host memory. This directory holds TLA+ models of its parts, the TLC
configurations that check them on small instances, and proofs that TLAPS checks
for every value of the constants.

## 1. Inventory

| Component | State | Operations | Interacts with |
|---|---|---|---|
| IO manager (`IOManager`) | one message box per device: `isServiced`, mutex, condition variable, RW, data, addr | `GVAtoHVA`, `updateMessageBox` | called by a core for every I/O access; wakes a device thread |
| CIU (`CIU`) | summary, enable, mailbox, NMI registers of 12 cores | `updateFlags` and its handlers, `generateInterrupt`, `clearInterrupt`, `updateInterrupt` | writes Cause and the NMI flag of the cores; called by the other devices' threads |
| UART (`UART`) | 16550 registers, receive buffer, `thr_ipending` | `uart_io_write`, `uart_io_read`, `uart_receiver`, `sendsignal`, `uart_update_irq` | raises and clears UART1 in the CIU; receiver thread and SIGINT share its state |
| Virtio devices (`VirtioDevice`, `VirtioBlk`, `Virtionet`, `VirtQueue`) | MMIO registers, saved queues, vrings, interrupt status | register writes, queue selection, start, notification, polling | raise GPIO sources in the CIU; eventfds to vhost (network), a worker (disk) |
| Vhost, TAP, eventfd | file descriptors | ioctl sequences | host kernel |
| Processor (`Processor_IPE`) | pc, control mark, current block, LLBit, NMI flag | `C2Assembly2C` loop, `NewBlock`, `handleLDST`, `handleNMI`, `handlewait`, `setTimerTick` | everything |
| TLB, MMU, address cache | TLB entries, per-core translation cache | TLB reads, writes and probes, `GVAtoGPA` lookup, cache fill and clear | CP0, exception entry |
| CP0, exception entry | CP0 register file | reads, writes with reserved bits, `Perform_Exception` | shared with CIU and timer threads through Cause |
| Timer | host timer, count and compare | `resetTimer`, signal handler | Cause of its core |
| Block cache and translation | translated blocks, hash tables | decode, translate, look up | processor |
| Memory map, board, command line, signals, logging | tables and files | start-up | all |

What is hard here: every device is a thread and none of the shared registers is
protected. The only mutex is that of the message box, and its protocol (flag,
signal, then fill) is unusual; the store a guest makes to a device register
happens twice, once as a message and once in memory; Cause is
read, changed and written back by three threads; LL and SC are emulated with a
compare and a store; the device threads may start later than the cores.
`PROJECT.json` lists these hazards line by line, with the property that covers
each or the reason why none does.

Correctness, by component:

* message box: a message is acted on whole, once and in order; a read sees the
  writes before it; nobody waits for ever;
* CIU: the lines of a core follow its enabled pending sources; a raised
  interrupt stays until it is cleared;
* shared interrupt state: no update of one thread undoes another's;
* LL/SC: an SC succeeds only if nobody stored in between;
* UART: a key raises its interrupt and is read once, what is sent is printed;
* virtio: queues and features are as the driver wrote them, a request is covered
  by vhost's table and performed, the interrupt line does not stick;
* TLB and caches: a cached translation agrees with the TLB;
* processor, block cache and translation: running blocks is running the guest's
  instructions one by one; pending interrupts are taken;
* timer: a tick comes when the count reaches compare.

## 2. Modules

| Module | Models | Checked by |
|---|---|---|
| `DeviceOps` | what a message box promises (abstract) | refinement |
| `MessageBox` | `IOManager::updateMessageBox`, `GVAtoHVA` and the device loops | `MessageBox*` runs, `MessageBoxProofs` |
| `CIU` | the interrupt unit and the stores that reach it | `CIULines` run, `CIUProofs` |
| `InterruptLines` | loads and stores of one summary word and of Cause by all threads | `Lines*` runs, `InterruptLinesProofs` |
| `LLSC` | LL, SC and the accesses and switches between them | `LLSCThreads` run, `LLSCProofs` |
| `MMU` | `TLB_IPE`, `MMU_IPE`, `AddrTranslationCache`, the exceptions of a failed access and the CP0 writes that matter to them | `MMUCache` run, `MMUProofs` |
| `Decoding` | `IInfo`, the tables and handlers of `InsDecoding`, and which registers the code of `Translation_IPE` stores to | by `Blocks`, `BlocksProofs` |
| `GuestISA` | a core that executes one instruction after the other (abstract) | refinement |
| `Blocks` | `Processor_IPE`'s loop, block formation, the block cache and the translated code of branches, traps and privileged instructions | `Blocks` run, `BlocksProofs` |
| `Virtio` | `VirtioDevice`, `VirtioBlk`, `VirtioNet`, `VirtQueue`, `Vhost`'s memory table, the eventfds | `Virtio`, `VirtioNet` runs, `VirtioProofs` |
| `UART` | `UART` with its three threads | `UART` run, `UARTProofs` |

`MC*` modules only add symmetry sets and the constants TLC needs; `MCBlocks` and
`MCCIU` write down the guests and the stores that are tried. Definitions
named `X_Something` beside a definition `X` are mutants: a plausible bug, used
to confirm that a property can fail.

### MessageBox

One box, its cores and its device thread. Every statement of
`updateMessageBox` is an action (`SpinPost`, `Claim`, `Lock`, `Signal`,
`WriteData`, `WriteAddr`, `Unlock`); a register read is `StartRead`, `SpinRead`,
`Load`; the device loop is `CondWait`, `Relock`, `Service`, `SetServiced`. The
message is represented by the post that wrote it, and `posted` and `applied`
are history variables. The four devices differ only in `Service`.
`LateDevice` lets the cores run before the device thread first waits;
`SpuriousWakeups` lets `pthread_cond_wait` return unsignalled. The pthread
library is external: a default mutex has no owner check, a signal without a
waiter is lost, a woken thread competes for the mutex.

### CIU

A register is the set of its bits. A guest store has two effects in either
order: the message (`updateFlags`) and the store itself (`RawStore`); the box is
taken at its word (one message at a time, each handled once), which
`MessageBox` shows for one core and refutes for several. Handlers are atomic
here and include the `updateInterrupt` that ends them. The IP4 enables are
modelled as words of memory, because the code and the guest address them with
different strides. `handleEnable4_W1C` returns nothing on one path: the core it
refreshes is arbitrary, or the process ends. `OTHER` stands for the registers
without a handler.

### InterruptLines

One core, the summary word behind IP2 and Cause, with every load and every store
a step of its own. A thread per source (CIU thread, UART, disk, net), the timer
signal, which runs on the thread that built the board, and the core itself.
`raised`, `ticked` and `clean` are history variables that say what the result
should be and whether an update was disturbed.

### LLSC

Guest threads on cores. A core keeps `LLBit`, `Addr_Store` and `LL_Data` as the
generated code does. The compare of an SC and its store are two steps; an
interrupt may switch threads between any two instructions but not inside an SC.
The guest is assumed to follow the architecture: no other access between LL and
SC, and both use one address. The interrupt handler of the guest makes at least
one memory access.

### MMU

One core. An address is its page: a segment, which decides privileges and
whether the TLB is asked, and a number. The many segments of the 32-bit and
64-bit spaces fall into five kinds by what the code does with them. A TLB entry
holds `map`, which is PageMask, EntryLo0 and EntryLo1 together: they are only used
together, by a TLB write, so the guest writes them in one action. Page sizes are
numbers of smallest pages; a larger page lets one entry cover pages whose cache
slots differ. `addrTranslation` is the whole path of an access: cache, segment
and privilege, TLB, cache fill, or exception and fetch at the vector (a block that
is already translated is fetched without a translation, so `FetchVector` has both
outcomes). A load, a store and an instruction fetch differ by `op` only.

`due` and `astray` are history variables: the page an exception wrote to EntryHi,
and whether `fetchNextBlock` went on with the result of a failed translation.
What the code leaves uninitialised is in `Init`: the G bits of a reset entry are
arbitrary, and the cache, whose constructor does not clear it, answers for page 0.

`GuestRule` is what a guest has to keep to for cached translations to be right,
and what Linux does: no user page is touched while ERL is set (the code then maps
useg directly and caches that), and no mapped page between a TLBR and the write
that restores EntryHi (TLBR changes the ASID without `HandleASIDchange`).
`Disciplined` turns it on; without it `CacheAgrees` is false. At most half of the
TLB may be wired (`WiredAssumption`), since `tlb_random` writes behind the table
otherwise. Kept out: the Random register and the P bit of Index, which only the
guest reads; BadVAddr, Context and XContext; exception codes and which of the
vectors is taken, all of which are in the same segment.

### Decoding, GuestISA and Blocks

One core. A guest is a memory of instruction words and page tables; `Blocks`
runs it the way the program does, `GuestISA` one instruction at a time, and the
run shows that the first implements the second.

`Decoding` has the seven tables of `InsDecoding` as sets of indices and the
handlers as the translator each calls; a word is the record of its fields. Most
instructions are re-emitted for the host, so that what they compute (`Result`,
`Taken`) is external and the same on both sides; which registers they read and
write, and what ends a block, is the translator's. `GuestISA` is written from the
mnemonics in the comments of `IInfo` and `InsDecoding`, not from the handlers, and
takes from the decoder only which words are reserved. Values and addresses have
29 bits, and sums of them wrap as the registers do. That is wider than the 16 bits
of an immediate, so that the offset of a branch really is cut (`BranchPath`), and has
two of the 256 MB regions a jump stays in (`JTarget`, `JumpTarget`): user code is in
another region than the kernel. The upper half of 64-bit addresses is not there; the
code builds a jump's target with LUI and ORI and loses it.

In `Blocks`, `phase` says where the core is. `TestInterrupt`, `handleNMI` and
`TestBlock` are the tests of `NewBlock` in their order; `FetchCached`, `FetchNew`
and `FetchFault` are `fetchNextBlock`; `getBlock`, `fixBlock` and `Translated` make
a block. Each word of a block is one step. A branch is two: `Begin` links and
saves its operands, and the step of the delay slot ends it (`Done`, `Goes`), which
is how the refinement mapping knows `target`. Exceptions (`Raise`) in a slot save
the pc of the branch. All vectors are one; loads, stores and fetches may fault at
any time, signed additions may overflow. "halt" is `exit`, "astray" the host
executing what nobody emitted (`drotr`, a word past the end of a table). The
vectors are kernel addresses and not 0 (`VectorAssumption`): 0 is the tag of an
empty slot of the block cache.

### Virtio

One device of either kind with its driver, its device thread, a polling thread per
queue and vhost's worker. A store of the guest is a message and a store that
follows it at any time (`GuestWrite`, `GuestStore`). The device thread's actions are
the cases of `PerformOperation`. `updateMemoryTable` with its two variants keeps
`table`, `memTableIdx` and `nregions` as `Vhost` does; `shared` is the copy vhost was
given last. `InterruptStatus` and the line are changed load by load and store by
store in `AckInterrupt` and `GenerateInterrupt`. Eventfds are flags. The driver
(set-up, `Submit`, `Notify`, `Isr`) and vhost (`VhostTake`, which gives up on a
request whose buffers it cannot find, until the next kick) are external.
`SelectedIndex`, which the code does not initialise, is arbitrary at first:
`NoQueue` stands for the values that are no queue, with which the copy out of the
registers ends the process (`SaveQueueFaults`) or writes to other memory, which is not
followed further. The first notification of a disk first starts it (`VblkStart`) and
then does what every notification does (`NotifyDevice`); the driver may make several
requests before it notifies. Rings may be larger than the table, as they are in the
code (256 descriptors, 64 regions): an update stops at its limit (`Limited`), and what
it has entered of a request by then is entered again by the next. `entry` is a history
variable, the place in the table each request was entered at. What a message carries is
a number; for STATUS it is `DRIVER_OK`.

### UART

The UART's thread, which serves the message box, the receiver thread and SIGINT
share the registers; the driver reads copies of them (`Reg_HVA`) in memory, in
which THR and RBR are one word, and FCR and IIR another (`Stored`). Reads are posted like writes, and the load does not
wait (`Access`). `WriteTHR`, `WriteIER`, `WriteFCR`, `WriteLCR`, `ReadRBR`, `ReadIIR` and `ReadLSR`
are the cases of `uart_io_write` and `uart_io_read`, `Getch`, `Receive` and `Restart`
the loop of `uart_receiver`, `uart_update_irq` and `UpdateLine` the interrupt, in any
of the threads. Where the UART's and the receiver's thread set a bit of LSR, the load
and the store are two steps; clearing DR, and all that the SIGINT handler does, is one
step. The driver enables the transmit interrupt, fills THR when LSR says it is empty
and reads while there is something to read, as a 16550 driver does. It may write FCR
when it is not sending (`Configure`), the line up or not; the value has
`UART_FCR_ENABLE` set, whose bit the interrupt handler reads as "no interrupt" if the
UART's thread has not written IIR since. A value without that bit, which would be read as
some other interrupt, is not written. The character 0x01, which the UART turns into a
signal that ends the process, is not typed.

`Mishaps` says what the surroundings may do. Without it no two of the three
threads are in their handlers at a time and a key comes only after the last one was
read: human typing against a device thread that needs microseconds. With
`"overlap"` or `"overrun"` in it TLC finds `KeyAnnounced` violated, since the
read-modify-writes then lose a bit. `"flush"` lets the driver write FCR while it is
sending; then TLC finds `AllPrinted` violated, because the transmit interrupt that the
overwritten IIR announced is taken for none.

## 3. Runs

Passing:

| Run | Instance | Shows |
|---|---|---|
| `MessageBoxSmp` | 3 cores, 2 posts each, spurious wakeups, fair | `TypeOK`, `OneAccessor`, `WholeMessage`; `BoxComesFree`: a claimed box comes free |
| `MessageBoxOneCore` | 1 core, 6 posts, fair | `ReadUpToDate`, `NoOverwrite`, `InOrderOnce`; the box implements `DeviceOps`; `PostTakesEffect`: every post is serviced |
| `CIULines` | 2 cores, own enables, mailboxes, UART, the other registers | `TypeOK`, `LinesFollowEnables`, `SummariesAgree`, `MailboxHeld` |
| `LinesRepair` | 2 sources, core, timer | `QuietUpdateRepairs` |
| `MMUCache` | TLB of 2, cache of 2 slots, page sizes 1 and 2, 2 ASIDs, 4 pages | `TypeOK`, `CacheAgrees`, `VectorReached`, `RefillHits`, `WiredKept` |
| `LLSCThreads` | 1 core, 2 threads, 2 addresses, 2 values | `SCAtomic` |
| `Blocks` | 178 guests, pages of 4 words, 2 address spaces, cache of 4 by 2 blocks, fair | `TypeOK`; `CacheCurrent`: a cached block is the code at its address and ASID; `ImplementsISA`; `InterruptTaken` |
| `Virtio` | block device with 4 requests of 3 descriptors in a ring of 9, net card with 2 requests per queue, table of 8 regions, fair | `TypeOK`; `SetupAsWritten`; `BlkTakenCovered`: what has been entered stays until it is done or a lap of the table has passed; `RequestServed`: every request is performed, if the table has room; `LineFalls` |
| `UART` | 5 keys of 4 kinds, 2 characters sent, 1 write of FCR, fair | `TypeOK`; `KeyRead`; `KeyAnnounced`; `Printed`; `KeyServed`, `AllPrinted`: every key is read, every character printed |

Deadlock is not checked where the system may stop: a soft reset (`CIULines`), a
reserved instruction or a core astray (`Blocks`) end the process, and with the
bounded requests and keys of `Virtio` and `UART` nothing is left to do.

Violated, each against a comment of the code (quoted under "findings"):

| Run | What happens |
|---|---|
| `MessageBoxLost` | a register write never takes effect: two cores pass the test of `isServiced` together and the second message replaces the first, or a post comes before the device first waits. Either cause is enough, the other excluded by the constants |
| `LinesLost` | two devices raising together lose a source, an exception undoes a line raised meanwhile, a tick is lost or a cleared IP7 returns: each conjunct of `NothingLost` fails on its own |
| `VirtioNet` | the two queues of a network card are entered into vhost's table one over the other |

What the models show besides, without a run of its own:

* two cores: `ReadUpToDate` and `NoOverwrite` fail too, since another core's message
  may free the flag while the reader's own write is outstanding;
* `SCAtomic` with two cores fails: a store of the other core between the compare and
  the store of an SC, or one that restores the old value, goes unnoticed;
* the CIU: a store to EN4_1 of one core lands on the word used as the IP4 enable of
  another, EN4_W1C refreshes an arbitrary core, a mailbox value with bits in both
  halves raises MBOX0 only, and the raw store of the guest hides what the CIU left
  in MBOX_CLR;
* virtio: a completion may go unnoticed (an acknowledgement that is served after
  the next completion clears that one too, or status and line end up different
  when `AckInterrupt` and `GenerateInterrupt` overlap); `LineFalls` says that it
  is never the line that sticks;
* virtio: a disk request may never be performed. `RequestServed` has a condition,
  `[]RoomInTable`: the requests under way have together less descriptors than the
  table has regions. Without it TLC finds a request lost, since an update stops at its
  limit and nothing but the next notification resumes it, or since the ring of regions
  laps requests that vhost has not come to. The code offers rings of 256 descriptors
  and a table of 64 regions and checks neither, so that with requests of four
  descriptors a driver with sixteen under way is already past the condition;
* UART: `KeyAnnounced` without its exception for FCR is false: a write of FCR with the
  line up replaces what the copy of IIR announces, until the handler's read of IIR is
  served;
* the block engine: instructions the guests of `MCBlocks` leave out because the
  code does something else. MTHI and MTLO are tested with the codes of MFHI and
  MFLO and emit nothing; the traps on an order trap on equal operands or ignore
  signedness; ERET and WAIT are not privileged; branches in delay slots end the
  process; a delay slot alone on the next user page comes from the wrong frame;
* the block engine and register 0: `shift_R`, `ext_R`, `ins_R`, `unprev_I`, `seqi_snei`,
  `rdhwr`, `sc`, `ll`, `jalr` and `mfc0` (`Translation_IPE.cpp` 582, 691, 705, 721 and
  725, 964, 1525, 826, 890, 1462, 78) store their result to the memory of register 0
  when that is the destination, and nothing sets it to zero again: later instructions
  read the value. `Processor_IPE.cpp:131-133` tests for it ("Zero register corrupted"),
  under `DBG`, which `Common.h` sets to 0. `ImplementsISA` is false for such words, so
  `MCBlocks` leaves them out (`CorruptsZero`); the other translators, which test for
  register 0, are run with it as the destination (`Zeros`);
* the block engine and long branches: the offset, counted from the branch, is cut to 16
  bits (`Translation_IPE.cpp` 1051 and 1075), so that branches beyond -8193 or 8190 words
  go astray. The longest that work are among the guests (`Longest`), longer ones are not,
  as TLC finds `ImplementsISA` violated by the next one. A jump in the last word of
  a region, which takes the region of its own address instead of that of its slot
  (1380, 1405), is left out too.

Bounds. The message box has one slot and no counter, so what a third core could
add to two is only another writer between two steps; three cores with two posts
each make every pair of steps overlap, and the proofs remove the bound. Two CIU
cores are the least that make one core's store reach another's state, three
sources (two mailboxes and one device) the least in which one source can be
mistaken for another; values are chosen so that each handler meets an empty, a
partial and a full register. Two sources with a timer and a core give every pair
of writers of a shared word. Two addresses and two values are needed for an SC to
another address than the LL's and for ABA. Two TLB entries are needed for
duplicates, for a wired and a random entry and for a hit that is not the first;
two cache slots and pages of both parities for a conflict and for one entry that
backs two slots; one of the two mappings is partly invalid and writable, the other
large, read-only and global, so that refill, invalid and modified exceptions and
hits across address spaces all happen.

Every guest of `Blocks` has one word under test, chosen so that each translator
meets each way of reading, writing and raising, at the start or the end of a page
or in a delay slot, at user or kernel level; loops bring the core back to it, and
the handler switches the address space, so that blocks are cached, evicted, found
again and met under another ASID. Pages of four words make blocks cross them. The
table of 8 regions in `Virtio` makes the third request of three descriptors wrap
around while the second may be waiting, and three requests made at once meet the limit
of an update after seven descriptors, in the middle of the third, so that requests
entered in part, entered twice and overwritten all occur; five keys are an escape sequence with a
key before and after it; one write of FCR can fall anywhere between them. Counter bounds
are `MaxPosts`, `MaxRequests`, `MaxKeys`, `MaxSends` and `MaxFlushes`.

Fairness. `Fairness` in `MessageBox` is weak fairness of each thread: the host
scheduler runs every thread that can run, and the board waits for them all with
`pthread_join`. A core is not assumed to start an access. Weak fairness is
enough because a spinning core is disabled only while `isServiced` is false, and
the mutex is always released; the runs show it. In `Blocks` the core's thread keeps
running. In `Virtio` and `UART` it is weak fairness of every thread of the device and
of the driver's own steps; vhost performs what it was kicked for, but no packet has
to arrive, no key to be typed, no request to be made and no FCR to be written.

## 4. Proofs

TLAPS proves, for every value of the constants under the named assumptions:

* `MessageBoxProofs`: `TypeCorrect`. `MutualExclusion` and `MessagesWhole` for
  any number of cores once the device waits (`~LateDevice`), from `MutexInv`,
  which adds to `OneAccessor` what the two halves of the message are at each pc
  of the writer: the halves differ only while a core is between `WriteData` and
  `WriteAddr`, and then the device is not in the box. `ReadsUpToDate`,
  `NothingOverwritten`, `ServicedInOrderOnce` and `Implementation` for one core
  without spurious wakeups, from `OneCoreInv`, which ties the pc of the core and
  of the device to `isServiced` and to the difference of `posted` and `applied`.
  With several cores these are false, as the runs show.
* `CIUProofs`: `TypeCorrect`; `SummariesSame` and `MailboxKept`, if the guest
  stores to no summary word (a raw store of the guest to SUM0 could take any bit
  away); `LinesRight`, if in addition each core writes only its own enables. The
  invariant `LinesInv` says that a raw store still to come writes the value the
  enable already has, or its message is still waiting, which is why the late store
  does no harm.
* `InterruptLinesProofs`: `QuietUpdates`, from an invariant that says what an
  undisturbed thread knows: that the words it copied are still there.
* `LLSCProofs`: `OneCoreAtomic` for one core, from `LinkInv`: while the last
  access of the core is to the linked address, nobody else has run since.
* `MMUProofs`: `TypeCorrect`, for TLBs and caches of any size. `CacheCoherent`,
  from `CacheInv`: each slot is backed, that is, it holds a page nobody touches,
  a page of an unmapped segment, or a page some entry maps as the slot says for
  the ASID the core last saw. `CacheAgrees` alone is not inductive because it
  speaks of the ASID in EntryHi, which TLBR changes; `CacheInv` speaks of
  `Processor_IPE::Asid`, and `GuestRule` says when the two are equal. It needs
  `Disciplined` and `NullPageUnused`. `VectorsReached` and `WiredEntriesKept`
  need nothing more than the types. `RefillsHit`, from `DueNamed`: EntryHi names
  the page that missed until something else is written to it. The TLB compares
  page numbers divided by twice the page size, EntryHi holds one divided by 2;
  `PairQuotient` says that these agree for every page size.
* `UARTProofs`: `TypeCorrect`, `KeysRead`, `KeysAnnounced` and `PrintedInOrder`, for
  any keys, any number of them and of writes of FCR, under `Calm`: no overlapping
  handlers, no overrun and no FCR while sending (`Mishaps = {}`). None of the four is
  inductive. `UARTInv` says besides where the driver is against the message it has
  posted (`DriverPlaces`), that RBR is read only when a character is ready
  (`ReadsWhenReady`), and so that `index` counts what is left of an escape sequence
  (`Receiving`), and that the keys the driver has not read are those of
  `UART_Buffer` from that place on (`Pending`, `Contents`); the load that may come
  before or after its service is a case of its own in each.
* `VirtioProofs`: `TypeCorrect`, `SetupRight` and `BlkRequestsCovered`, with no side
  condition, for any sizes of the rings, requests and table, a ring larger than the
  table included. `VirtioInv` has the driver's position in its set-up (`Sequence`) and
  what each register holds at each position (`Registers`), where a store that is still
  to come counts separately from its message. For the table it has `Ring`: the requests
  entered have their places in `entry`, all of a request's before the end of the ring,
  and descriptor j of request k is at its place modulo `MaxRegions`, there and in vhost's
  copy, until the ring has gone round it. A request that the limit cut in the middle is
  entered again and leaves a gap, so that places cannot be computed from request numbers:
  that is why they are remembered, and why the theorem counts a lap from the place of
  the request.
* `BlocksProofs`: `DecodingTotal`: whatever the fields of a word, the tables lead
  somewhere. `TypeCorrect`, from `BlocksInv` (`RegistersOK`, `EngineOK`): every
  block with an address has at least two words, address 0 is never looked up, and
  the word executed is one of the body in "run" and the last one in "slot".
  `CachedBlocksCurrent` adds that each cached block is the code at its address.
  Its lemmas say what the steps of making a block do: `BlockWords` that `getBlock`
  returns the words up to the first control instruction and its slot, `FixedBlock`
  that `fixBlock` keeps the words before the page its block ends on, and never
  reaches its second case, `UserBlock` and `KernelBlock` what is put in the cache.

  These hold for the guests that satisfy what follows. `MemoryOK` and
  `PageTablesOK` say what a guest is: every address holds a word, a page has at
  most one frame. `BlocksEnd`: where a block is made, a control instruction comes
  within `MaxBlock` words, for `getBlock` reads on without a bound and the model
  stops there. `MappedCode`: mapped code runs at user level and its words end on
  the next page at the latest, since `fetchNextBlock` cuts blocks at user level
  only, and only at the page the block ends on, so that a longer block keeps words
  of a page in between that is elsewhere in memory. The guests of `MCBlocks` meet all
  four (the two state predicates were tried as invariants of the `Blocks` run), so
  they are among those the theorems speak of.

Assumptions on the constants are the ASSUMEs of each module. Side conditions of
a theorem (`OneCore`, `NoSumStores`, `OwnEnables`, `SingleCore`, `Disciplined`,
`NullPageUnused`, `Calm`, and those of `BlocksProofs` above) are stated in it.

Every invariant a passing run checks is the subject of a theorem. Only
model-checked are the liveness properties, which need fairness (`BoxComesFree`,
`PostTakesEffect`, `InterruptTaken`, `RequestServed`, `LineFalls`, `KeyServed`,
`AllPrinted`), and `ImplementsISA`: that a block executes as its instructions do,
one by one, compares every translator with every instruction, and its mapping
is not inductive before it is known which words a block may hold and which guests
stay off the instructions listed in section 3.

## 5. Not modelled, and the plan

Memory is sequentially consistent in every model: one load or store of an aligned
word is a step. Reordering by the host's memory system and by the compiler is not
modelled. Offsets, formatting and debug output are left out.

Left out, part by part:

* exception codes, BadVAddr and Context, and the choice among the vectors;
* the Count and Compare arithmetic of `timer`, which is host time in nanoseconds:
  a tick may come at any time in the models;
* code that changes while it is cached: memory and page tables are constant in
  `Blocks`, and nothing in the program invalidates a block;
* the bit patterns of the emitted code and what the host computes with them;
* indirect descriptors, the ioctl sequences of `Vhost`, the TAP device, and what the
  kernel does with the rings; the configuration space of the devices;
* the memory map, loading, the command line, logging, the hash table nothing uses and
  the legacy executor the board does not reach.

Next: the refinement of `GuestISA` by `Blocks` as a theorem, one class of
instructions at a time: the straight-line words first, for which a step of the
block is a step of the guest whatever block it is in, then the branches with their
slots, then exceptions. Then a composition of `LLSC` with `MMU`, for a
store-conditional whose page is remapped.

Components left out for good are listed in `PROJECT.json` with the reason.
