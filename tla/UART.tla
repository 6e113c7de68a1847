-------------------------------- MODULE UART --------------------------------
(***************************************************************************)
(* The UART: its thread, which serves the message box, the thread that     *)
(* receives keys from the terminal, the handler of SIGINT, and the guest's *)
(* driver on the core.                                                     *)
(*                                                                         *)
(* An access of the core posts a message once the box is free, reads       *)
(* included, and then loads or stores the register's copy in memory        *)
(* (Reg_HVA) without waiting for the service: IOManager::GVAtoHVA.  THR    *)
(* and RBR have the same copy, and so have FCR and IIR.  The three threads *)
(* of the UART share its registers without a lock.                         *)
(*                                                                         *)
(* Characters are "ESC", "@" (0x40), "^C" and others; 0x01, whose signal   *)
(* ends the process, is not typed.  The registers that only hold what is   *)
(* written and whose copies nothing else uses (MCR, SCR, DLH) and the bits *)
(* that nothing sets (overrun, break, modem status changes) are left out,  *)
(* and so are the interrupts for those bits.                               *)
(***************************************************************************)
EXTENDS Integers, Sequences

CONSTANTS Keys,      \* what is typed
          Follow,    \* what is typed after an ESC
          MaxKeys,   \* bound: characters typed, ^C included
          MaxSends,  \* bound: characters the driver sends
          MaxFlushes,\* bound: writes of FCR
          Mishaps,   \* what the surroundings do that the code does not survive:
                     \*   "overlap"  two threads in their handlers at a time
                     \*   "overrun"  a key while the last one is unread
                     \*   "flush"    a write of FCR while the driver is sending
          None

ASSUME BoundAssumption ==
  /\ MaxKeys \in Nat /\ MaxSends \in Nat /\ MaxFlushes \in Nat
  /\ Mishaps \subseteq {"overlap", "overrun", "flush"}
  /\ Follow \subseteq Keys

BUFFER_SIZE == 3
Threads == {"uart", "receiver", "signal"}

VARIABLES UART_Buffer, index,
          i,             \* uart_receiver's position in UART_Buffer
          DR, THRE,      \* LSR
          RDI, THRI,     \* IER
          DLAB,          \* LCR
          IIR, thr_ipending,
          Reg_HVA,       \* copies of RBR, IIR and LSR
          line,          \* CIU_SUM_UART1
          box,           \* the message, None once served
          pc,            \* the UART's threads
          lsr,           \* the LSR each has loaded to change it
          access,        \* core: the load or store that follows a message
          driver,        \* core: the driver's place
          todo,          \* core: the messages left to set the UART up
          asked,         \* characters the driver has been given to send
          written,       \* those it has sent
          flushes,       \* how many times it has written FCR
          typed,         \* how many characters have been typed
          unread,        \* those the driver has not read
          got,           \* the last one it has read
          out            \* characters printed

shared == <<UART_Buffer, index, i, DR, THRE, RDI, THRI, DLAB, IIR, thr_ipending>>
core == <<access, driver, todo, asked, written, flushes>>
keys == <<typed, unread, got>>
vars == <<shared, Reg_HVA, line, box, pc, lsr, core, keys, out>>

Junk == "junk"
LSR == [DR |-> DR, THRE |-> THRE]
LSRs == [DR : BOOLEAN, THRE : BOOLEAN]
Chars == Keys \cup {"^C", "tx", "divisor", Junk}
KeyRecords == [char : Chars, escape : BOOLEAN]

(* data is the number of the character sent, 0 for the divisor, and for    *)
(* LCR and IER whether DLAB and THRI are among the bits: 1 or 0.           *)
Messages == [op : {"read", "write"}, data : Nat,
             reg : {"THR", "RBR", "IER", "FCR", "IIR", "LCR", "LSR"}]

ASSUME NoneAssumption == None \notin Messages /\ None \notin KeyRecords

TypeOK ==
  /\ UART_Buffer \in [0 .. BUFFER_SIZE - 1 -> Chars] /\ i \in 0 .. BUFFER_SIZE
  /\ index \in 0 .. BUFFER_SIZE
  /\ {DR, THRE, RDI, THRI, DLAB, thr_ipending, line} \subseteq BOOLEAN
  /\ IIR \in {"NO_INT", "CTI", "THRI"}
  /\ Reg_HVA \in [RBR : Chars, IIR : {"NO_INT", "CTI", "THRI", "FCR"}, LSR : LSRs]
  /\ pc \in [Threads -> {"idle", "print", "or", "irq", "raise", "clear", "restart"}]
  /\ lsr \in [Threads -> LSRs \cup {None}]
  /\ driver \in {"setup", "idle", "iir", "lsr", "rbr", "start", "tx"}
  /\ box \in Messages \cup {None} /\ access \in Messages \cup {None}
  /\ asked \in 0 .. MaxSends /\ written \in 0 .. asked /\ flushes \in 0 .. MaxFlushes
  /\ unread \in Seq(KeyRecords)

-----------------------------------------------------------------------------
Read(reg) == [op |-> "read", reg |-> reg, data |-> 0]
Write(reg, data) == [op |-> "write", reg |-> reg, data |-> data]
Enable(thri) == Write("IER", thri)

(* uart_reset, uart_update_memory, the start of uart_receiver, and a       *)
(* driver about to set the UART up: the divisor, then the interrupts.      *)
Init ==
  /\ UART_Buffer = [n \in 0 .. BUFFER_SIZE - 1 |-> Junk] /\ index = 3 /\ i = 0
  /\ DR = FALSE /\ THRE = TRUE
  /\ RDI = FALSE /\ THRI = FALSE /\ DLAB = FALSE
  /\ IIR = "NO_INT" /\ thr_ipending = FALSE
  /\ Reg_HVA = [RBR |-> Junk, IIR |-> "NO_INT", LSR |-> LSR]
  /\ line = FALSE /\ box = None
  /\ pc = [t \in Threads |-> "idle"] /\ lsr = [t \in Threads |-> None]
  /\ access = None /\ driver = "setup"
  /\ todo = <<Write("LCR", 1), Write("THR", 0), Write("LCR", 0), Enable(0)>>
  /\ asked = 0 /\ written = 0 /\ flushes = 0
  /\ typed = 0 /\ unread = << >> /\ got = None /\ out = << >>

-----------------------------------------------------------------------------
(* The driver *)

Post(m) ==
  /\ box = None /\ access = None
  /\ box' = m /\ access' = m

SetUp ==
  /\ driver = "setup" /\ todo # << >>
  /\ Post(Head(todo))
  /\ todo' = Tail(todo)
  /\ UNCHANGED <<shared, Reg_HVA, line, pc, lsr, driver, asked, written, flushes, keys,
                 out>>

(* Something to send.  The driver enables the transmit interrupt and sends *)
(* the first character itself.                                             *)
Ask ==
  /\ asked < MaxSends
  /\ asked' = asked + 1
  /\ UNCHANGED <<shared, Reg_HVA, line, box, pc, lsr, access, driver, todo, written, flushes,
                 keys, out>>

StartTx ==
  /\ driver = "idle" /\ written < asked /\ ~THRI /\ pc["uart"] = "idle"
  /\ Post(Enable(1))
  /\ driver' = "start"
  /\ UNCHANGED <<shared, Reg_HVA, line, pc, lsr, todo, asked, written, flushes, keys, out>>

(* The driver configures the FIFOs: a value with UART_FCR_ENABLE set, at   *)
(* any time, the line up included, but not while it is sending.            *)
Configure ==
  /\ driver = "idle" /\ flushes < MaxFlushes
  /\ THRI => "flush" \in Mishaps
  /\ Post(Write("FCR", 0))
  /\ flushes' = flushes + 1
  /\ UNCHANGED <<shared, Reg_HVA, line, pc, lsr, driver, todo, asked, written, keys, out>>

(* The interrupt handler asks what the interrupt is, reads while there is  *)
(* something to read, and sends the next character or stops.               *)
Driver ==
  /\ \/ driver = "idle" /\ line /\ Post(Read("IIR")) /\ driver' = "iir" /\ UNCHANGED written
     \/ driver \in {"lsr", "start"} /\ Post(Read("LSR")) /\ UNCHANGED <<driver, written>>
     \/ driver = "rbr" /\ Post(Read("RBR")) /\ UNCHANGED <<driver, written>>
     \/ /\ driver = "tx" /\ written < asked /\ Post(Write("THR", written + 1))
        /\ written' = written + 1 /\ driver' = "idle"
     \/ /\ driver = "tx" /\ written = asked /\ Post(Enable(0))
        /\ driver' = "idle" /\ UNCHANGED written
  /\ UNCHANGED <<shared, Reg_HVA, line, pc, lsr, todo, asked, flushes, keys, out>>

(* What the stores of the core leave in the copies.                        *)
Stored(m) ==
  CASE m.op = "write" /\ m.reg = "THR" ->
         [Reg_HVA EXCEPT !.RBR = IF m.data = 0 THEN "divisor" ELSE "tx"]
    [] m.op = "write" /\ m.reg = "FCR" -> [Reg_HVA EXCEPT !.IIR = "FCR"]
    [] OTHER -> Reg_HVA

(* The load or store of the copy.  "early": the message is not served yet. *)
(* The value of FCR has the bit set that says no interrupt in IIR.         *)
Access ==
  /\ access # None
  /\ access' = None
  /\ Reg_HVA' = Stored(access)
  /\ IF access.op = "read" /\ access.reg = "RBR"
     THEN /\ got' = [char |-> Reg_HVA.RBR, early |-> box # None,
                     key |-> IF unread = << >> THEN None ELSE Head(unread)]
          /\ unread' = IF unread = << >> THEN unread ELSE Tail(unread)
     ELSE UNCHANGED <<got, unread>>
  /\ driver' = CASE driver = "setup" -> IF todo = << >> THEN "idle" ELSE "setup"
                 [] driver = "iir" -> IF Reg_HVA.IIR \in {"NO_INT", "FCR"} THEN "idle" ELSE "lsr"
                 [] driver = "lsr" /\ Reg_HVA.LSR.DR -> "rbr"
                 [] driver \in {"lsr", "start"} /\ access.reg = "LSR" ->
                      IF Reg_HVA.LSR.THRE /\ (THRI \/ written < asked) THEN "tx" ELSE "idle"
                 [] driver = "rbr" -> "lsr"
                 [] OTHER -> driver
  /\ UNCHANGED <<shared, line, box, pc, lsr, todo, asked, written, flushes, typed, out>>

-----------------------------------------------------------------------------
(* uart_update_irq, in any thread *)

Quiet(t) == "overlap" \in Mishaps \/ \A u \in Threads \ {t} : pc[u] = "idle"
At(t, place) == pc[t] = place
Goto(t, place) == pc' = [pc EXCEPT ![t] = place]

tempiir == IF RDI /\ DR THEN "CTI" ELSE IF THRI /\ thr_ipending THEN "THRI" ELSE "NO_INT"

uart_update_irq(t) ==
  /\ At(t, "irq")
  /\ IIR' = tempiir
  /\ IF tempiir # "NO_INT"
     THEN /\ thr_ipending' = FALSE
          /\ Reg_HVA' = [Reg_HVA EXCEPT !.IIR = tempiir]
          /\ Goto(t, "raise")
     ELSE Goto(t, "clear") /\ UNCHANGED <<thr_ipending, Reg_HVA>>
  /\ UNCHANGED <<UART_Buffer, index, i, DR, THRE, RDI, THRI, DLAB, line, box, lsr, core,
                 keys, out>>

(* generateInterrupt or clearInterrupt, after which the UART's thread has  *)
(* served the message and the receiver starts over.                        *)
UpdateLine(t) ==
  /\ pc[t] \in {"raise", "clear"}
  /\ line' = At(t, "raise")
  /\ Goto(t, IF t = "receiver" THEN "restart" ELSE "idle")
  /\ box' = IF t = "uart" THEN None ELSE box
  /\ UNCHANGED <<shared, Reg_HVA, lsr, core, keys, out>>

-----------------------------------------------------------------------------
(* The UART's thread: uart_io_write, uart_io_read *)

Serving(op, reg) ==
  box # None /\ box.op = op /\ box.reg = reg /\ At("uart", "idle") /\ Quiet("uart")
Served == box' = None /\ UNCHANGED pc

(* Mutant of WriteTHR: DLAB is not looked at.                              *)
WriteTHR_NoDLAB ==
  /\ \/ Serving("write", "THR") /\ THRE' = FALSE /\ Goto("uart", "print")
        /\ UNCHANGED <<DR, thr_ipending, lsr, out, box>>
     \/ At("uart", "print") /\ out' = Append(out, box.data) /\ lsr' = [lsr EXCEPT !["uart"] = LSR]
        /\ Goto("uart", "or") /\ UNCHANGED <<DR, THRE, thr_ipending, box>>
     \/ At("uart", "or") /\ THRE' = TRUE /\ thr_ipending' = TRUE
        /\ Goto("uart", "irq") /\ UNCHANGED <<DR, lsr, out, box>>
  /\ UNCHANGED <<UART_Buffer, index, i, RDI, THRI, DLAB, IIR, Reg_HVA, line, core, keys>>

(* Mutant of WriteTHR: the transmit interrupt is not made pending.         *)
WriteTHR_NoPending ==
  /\ \/ Serving("write", "THR") /\ DLAB /\ Served /\ UNCHANGED out
     \/ Serving("write", "THR") /\ ~DLAB /\ out' = Append(out, box.data)
        /\ Goto("uart", "irq") /\ UNCHANGED box
  /\ UNCHANGED <<shared, Reg_HVA, line, lsr, core, keys>>

(* With DLAB set the character is the divisor's (DLL).  LSR |= ... is a    *)
(* load and a store.                                                       *)
WriteTHR ==
  /\ \/ /\ Serving("write", "THR") /\ DLAB
        /\ Served /\ UNCHANGED <<DR, THRE, thr_ipending, lsr, out>>
     \/ /\ Serving("write", "THR") /\ ~DLAB
        /\ THRE' = FALSE /\ Goto("uart", "print")
        /\ UNCHANGED <<DR, thr_ipending, lsr, out, box>>
     \/ /\ At("uart", "print")
        /\ out' = Append(out, box.data)
        /\ lsr' = [lsr EXCEPT !["uart"] = LSR] /\ Goto("uart", "or")
        /\ UNCHANGED <<DR, THRE, thr_ipending, box>>
     \/ /\ At("uart", "or")
        /\ DR' = lsr["uart"].DR /\ THRE' = TRUE /\ thr_ipending' = TRUE
        /\ lsr' = [lsr EXCEPT !["uart"] = None] /\ Goto("uart", "irq")
        /\ UNCHANGED <<out, box>>
  /\ UNCHANGED <<UART_Buffer, index, i, RDI, THRI, DLAB, IIR, Reg_HVA, line, core, keys>>

(* Mutant of WriteIER: the interrupt is not updated.                       *)
WriteIER_NoUpdate ==
  /\ Serving("write", "IER") /\ ~DLAB
  /\ RDI' = TRUE /\ THRI' = (box.data = 1) /\ Served
  /\ UNCHANGED <<UART_Buffer, index, i, DR, THRE, DLAB, IIR, thr_ipending, Reg_HVA, line, lsr,
                 core, keys, out>>

(* The driver enables the receive interrupt with every write.              *)
WriteIER ==
  /\ Serving("write", "IER") /\ ~DLAB
  /\ RDI' = TRUE /\ THRI' = (box.data = 1)
  /\ IF THRE THEN Goto("uart", "irq") /\ UNCHANGED box ELSE Served
  /\ UNCHANGED <<UART_Buffer, index, i, DR, THRE, DLAB, IIR, thr_ipending, Reg_HVA, line, lsr,
                 core, keys, out>>

WriteLCR ==
  /\ Serving("write", "LCR")
  /\ DLAB' = (box.data = 1) /\ Served
  /\ UNCHANGED <<UART_Buffer, index, i, DR, THRE, RDI, THRI, IIR, thr_ipending, Reg_HVA, line,
                 lsr, core, keys, out>>

(* FCR is only stored, in the UART's own copy of it.                       *)
WriteFCR ==
  /\ Serving("write", "FCR")
  /\ Served
  /\ UNCHANGED <<shared, Reg_HVA, line, lsr, core, keys, out>>

(* UART_Buffer[n], which has no element BUFFER_SIZE.                       *)
Buffered(n) == IF n \in DOMAIN UART_Buffer THEN UART_Buffer[n] ELSE Junk

(* Mutant of ReadRBR: one character is all there is to read.               *)
ReadRBR_One ==
  /\ Serving("read", "RBR") /\ ~DLAB
  /\ index' = index - 1 /\ DR' = FALSE
  /\ Reg_HVA' = [Reg_HVA EXCEPT !.RBR = Buffered(3 - index), !.LSR = [LSR EXCEPT !.DR = FALSE]]
  /\ Goto("uart", "irq")
  /\ UNCHANGED <<UART_Buffer, i, THRE, RDI, THRI, DLAB, IIR, thr_ipending, line, box, lsr,
                 core, keys, out>>

(* An escape sequence is read character by character, any other key once.  *)
ReadRBR ==
  /\ Serving("read", "RBR") /\ ~DLAB
  /\ index' = index - 1
  /\ LET last == index' = 0 \/ UART_Buffer[0] # "ESC"
         read == [Reg_HVA EXCEPT !.RBR = Buffered(3 - index)]
     IN IF last
        THEN /\ DR' = FALSE
             /\ Reg_HVA' = [read EXCEPT !.LSR = [LSR EXCEPT !.DR = FALSE]]
        ELSE Reg_HVA' = read /\ UNCHANGED DR
  /\ Goto("uart", "irq")
  /\ UNCHANGED <<UART_Buffer, i, THRE, RDI, THRI, DLAB, IIR, thr_ipending, line, box, lsr,
                 core, keys, out>>

ReadIIR ==
  /\ Serving("read", "IIR")
  /\ Reg_HVA' = [Reg_HVA EXCEPT !.IIR = IIR]
  /\ IF IIR = "THRI"
     THEN thr_ipending' = FALSE /\ Goto("uart", "irq") /\ UNCHANGED box
     ELSE Served /\ UNCHANGED thr_ipending
  /\ UNCHANGED <<UART_Buffer, index, i, DR, THRE, RDI, THRI, DLAB, IIR, line, lsr, core,
                 keys, out>>

ReadLSR ==
  /\ Serving("read", "LSR")
  /\ Reg_HVA' = [Reg_HVA EXCEPT !.LSR = LSR]
  /\ Served
  /\ UNCHANGED <<shared, line, lsr, core, keys, out>>

-----------------------------------------------------------------------------
(* The receiver and SIGINT *)

(* When the surroundings let a key come.                                   *)
Unhurried ==
  DR \/ (access # None /\ access.reg = "RBR") => "overrun" \in Mishaps

(* Mutant of Complete: one character too many.                             *)
Complete_More(buffer, n) == buffer[0] # "ESC" \/ n > BUFFER_SIZE

(* The loop of uart_receiver ends.                                         *)
Complete(buffer, n) == buffer[0] # "ESC" \/ n = BUFFER_SIZE

(* getch returns; three characters make up an escape sequence.             *)
Getch(ch) ==
  /\ At("receiver", "idle") /\ Quiet("receiver") /\ Unhurried
  /\ typed < MaxKeys
  /\ UART_Buffer' = [UART_Buffer EXCEPT ![i] = ch]
  /\ i' = IF UART_Buffer'[0] = "ESC" THEN i + 1 ELSE i
  /\ typed' = typed + 1
  /\ unread' = Append(unread, [char |-> ch, escape |-> UART_Buffer'[0] = "ESC"])
  /\ IF Complete(UART_Buffer', i')
     THEN Goto("receiver", "or") /\ lsr' = [lsr EXCEPT !["receiver"] = LSR]
     ELSE UNCHANGED <<pc, lsr>>
  /\ UNCHANGED <<index, DR, THRE, RDI, THRI, DLAB, IIR, thr_ipending, Reg_HVA, line, box, core,
                 got, out>>

(* "@" is a command to the hypervisor: no interrupt is generated.          *)
Receive ==
  /\ At("receiver", "or")
  /\ DR' = TRUE /\ THRE' = lsr["receiver"].THRE
  /\ Reg_HVA' = [Reg_HVA EXCEPT !.RBR = Buffered(i),
                                !.LSR = [lsr["receiver"] EXCEPT !.DR = TRUE]]
  /\ Goto("receiver", IF UART_Buffer[0] = "@" THEN "restart" ELSE "irq")
  /\ lsr' = [lsr EXCEPT !["receiver"] = None]
  /\ UNCHANGED <<UART_Buffer, index, i, RDI, THRI, DLAB, IIR, thr_ipending, line, box,
                 core, keys, out>>

(* Mutant of Restart: index is set once, when the receiver starts.         *)
Restart_Once ==
  /\ At("receiver", "restart")
  /\ i' = 0 /\ Goto("receiver", "idle")
  /\ UNCHANGED <<UART_Buffer, index, DR, THRE, RDI, THRI, DLAB, IIR, thr_ipending, Reg_HVA, line,
                 box, lsr, core, keys, out>>

Restart ==
  /\ At("receiver", "restart")
  /\ index' = 3 /\ i' = 0 /\ Goto("receiver", "idle")
  /\ UNCHANGED <<UART_Buffer, DR, THRE, RDI, THRI, DLAB, IIR, thr_ipending, Reg_HVA, line,
                 box, lsr, core, keys, out>>

sendsignal ==
  /\ At("signal", "idle") /\ Quiet("signal") /\ Unhurried
  /\ i # 0 => "overrun" \in Mishaps
  /\ typed < MaxKeys
  /\ index' = 3 /\ UART_Buffer' = [UART_Buffer EXCEPT ![0] = "^C"]
  /\ DR' = TRUE
  /\ Reg_HVA' = [Reg_HVA EXCEPT !.RBR = "^C", !.LSR = [LSR EXCEPT !.DR = TRUE]]
  /\ Goto("signal", "irq")
  /\ typed' = typed + 1 /\ unread' = Append(unread, [char |-> "^C", escape |-> FALSE])
  /\ UNCHANGED <<i, THRE, RDI, THRI, DLAB, IIR, thr_ipending, line, box, lsr, core, got, out>>

-----------------------------------------------------------------------------

uart_io == WriteTHR \/ WriteIER \/ WriteFCR \/ WriteLCR \/ ReadRBR \/ ReadIIR \/ ReadLSR
uart_receiver == Receive \/ Restart

Next ==
  \/ SetUp \/ Ask \/ StartTx \/ Configure \/ Driver \/ Access
  \/ uart_io \/ uart_receiver \/ sendsignal
  \/ \E ch \in IF i = 0 THEN Keys ELSE Follow : Getch(ch)
  \/ \E t \in Threads : uart_update_irq(t) \/ UpdateLine(t)

(* Every thread that can go on does.  Nothing says that a key is typed,    *)
(* that there is anything to send or that FCR is written.                  *)
Fairness ==
  /\ WF_vars(SetUp) /\ WF_vars(StartTx) /\ WF_vars(Driver) /\ WF_vars(Access)
  /\ WF_vars(uart_io) /\ WF_vars(uart_receiver)
  /\ \A t \in Threads : WF_vars(uart_update_irq(t) \/ UpdateLine(t))

Spec == Init /\ [][Next]_vars /\ Fairness

-----------------------------------------------------------------------------
(* Properties *)

AtRest == box = None /\ \A t \in Threads : pc[t] = "idle"

(* uart_io_read, uart_receiver: the driver reads what was typed, in order, *)
(* each character once, when its load of RBR comes after the service.  An  *)
(* earlier load reads it too unless something has been sent since the key, *)
(* whose copy it then reads, or the key is an escape sequence.             *)
KeyRead ==
  got # None =>
    /\ got.key # None
    /\ \/ got.char = got.key.char
       \/ got.early /\ (got.key.escape \/ got.char \in {"tx", "divisor"})

(* uart_update_irq: between two services, a key that is ready when its     *)
(* interrupt is enabled has raised the line, whichever came first, and the *)
(* copy of IIR says so, unless a store of FCR by the guest has replaced it *)
(* since: the two have one copy.                                           *)
KeyAnnounced ==
  AtRest =>
    /\ line <=> IIR # "NO_INT"
    /\ line => Reg_HVA.IIR \in {IIR, "FCR"}
    /\ DR /\ RDI /\ UART_Buffer[0] # "@" => IIR = "CTI"

(* uart_io_write: what is printed is what was sent, in order; a divisor is *)
(* never printed.                                                          *)
Printed == \A n \in 1 .. Len(out) : out[n] = n

(* A key that has an interrupt is read.                                    *)
KeyServed == unread # << >> /\ Head(unread).char # "@" /\ i = 0 ~> unread = << >>

(* A character given to the driver is printed, although a receive          *)
(* interrupt cancels the pending transmit interrupt.                       *)
AllPrinted == \A n \in 1 .. MaxSends : asked >= n ~> Len(out) >= n

=============================================================================
