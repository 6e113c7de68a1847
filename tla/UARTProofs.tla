----------------------------- MODULE UARTProofs -----------------------------
(***************************************************************************)
(* Theorems about UART for any keys and any number of them, and any number *)
(* of characters sent, when nothing overlaps and nothing overruns (Calm).  *)
(* With either mishap the theorems are false: the read-modify-writes of    *)
(* LSR then lose a bit, and index passes zero.                             *)
(*                                                                         *)
(* UARTInv is the inductive invariant.  Its parts follow the argument:     *)
(* - one handler runs at a time and a message stays until it is served;    *)
(* - the set-up writes the divisor with DLAB set and leaves it clear;      *)
(* - the copy of LSR tells whether a character is ready, so that the       *)
(*   driver reads RBR only when there is one (ReadsWhenReady);             *)
(* - hence index counts the characters of an escape sequence that are left *)
(*   (Receiving), and the driver's unread keys are those of the buffer     *)
(*   from there on (Pending, Contents).                                    *)
(***************************************************************************)
EXTENDS UART, TLAPS

Calm == Mishaps = {}

RBR == Read("RBR")
Escape == UART_Buffer[0] = "ESC"
Unserved == box = RBR /\ pc["uart"] = "idle"

(* Types, without the range of the positions in the buffer.                *)
Types ==
  /\ UART_Buffer \in [0 .. BUFFER_SIZE - 1 -> Chars]
  /\ index \in Int /\ i \in Nat
  /\ {DR, THRE, RDI, THRI, DLAB, thr_ipending, line} \subseteq BOOLEAN
  /\ IIR \in {"NO_INT", "CTI", "THRI"}
  /\ Reg_HVA \in [RBR : Chars, IIR : {"NO_INT", "CTI", "THRI", "FCR"}, LSR : LSRs]
  /\ pc \in [Threads -> {"idle", "print", "or", "irq", "raise", "clear", "restart"}]
  /\ lsr \in [Threads -> LSRs \cup {None}]
  /\ driver \in {"setup", "idle", "iir", "lsr", "rbr", "start", "tx"}
  /\ asked \in 0 .. MaxSends /\ written \in 0 .. asked /\ flushes \in 0 .. MaxFlushes
  /\ box \in Messages \cup {None} /\ access \in Messages \cup {None}
  /\ unread \in Seq(KeyRecords) /\ out \in Seq(Nat)

(* One handler at a time; a message stays until it is served; what each    *)
(* thread's place says of its message and of LSR.                          *)
Handlers ==
  /\ \A t, u \in Threads : t # u => pc[t] = "idle" \/ pc[u] = "idle"
  /\ pc["signal"] \in {"idle", "irq", "raise", "clear"}
  /\ pc["uart"] # "restart" /\ pc["receiver"] # "print"
  /\ pc["uart"] # "idle" => box # None /\ box.reg # "LCR"
  /\ pc["uart"] \in {"print", "or"} <=> ~THRE
  /\ pc["uart"] \in {"print", "or"} => box.op = "write" /\ box.reg = "THR" /\ ~DLAB
  /\ pc["uart"] = "or" => lsr["uart"] \in LSRs /\ lsr["uart"].DR = DR
  /\ pc["receiver"] = "or" => lsr["receiver"] \in LSRs /\ lsr["receiver"].THRE
  /\ Reg_HVA.LSR.DR = DR

(* Where the driver is, against the message it has posted.                 *)
DriverPlaces ==
  /\ access # None => box \in {None, access}
  /\ box # None /\ box.reg = "RBR" => box = RBR
  /\ access # None /\ access.reg = "RBR" => access = RBR
  /\ driver = "setup" => access # RBR
  /\ driver = "iir" => access = Read("IIR")
  /\ driver = "lsr" => access \in {None, Read("LSR")}
  /\ driver = "start" => access \in {None, Enable(1), Read("LSR")}
  /\ driver = "rbr" => access \in {None, RBR}
  /\ driver = "tx" => access = None
  /\ driver = "idle" => access # RBR

(* The set-up: the divisor is written while DLAB is set, and only then.    *)
SetupStages ==
  /\ driver # "setup" => todo = << >>
  /\ \/ /\ todo = <<Write("LCR", 1), Write("THR", 0), Write("LCR", 0), Enable(0)>>
        /\ box = None
     \/ /\ todo = <<Write("THR", 0), Write("LCR", 0), Enable(0)>>
        /\ box \in {None, Write("LCR", 1)} /\ (box = None => DLAB)
     \/ /\ todo = <<Write("LCR", 0), Enable(0)>>
        /\ box \in {None, Write("THR", 0)} /\ DLAB
     \/ /\ todo = <<Enable(0)>>
        /\ box \in {None, Write("LCR", 0)} /\ (box = None => ~DLAB)
     \/ /\ todo = << >> /\ ~DLAB
        /\ box # None => box.reg # "LCR" /\ box # Write("THR", 0)

(* What has been sent is printed but for the character in the box.         *)
Unprinted == /\ box # None /\ box.op = "write" /\ box.reg = "THR" /\ box.data # 0
             /\ pc["uart"] \in {"idle", "print"}

Printing ==
  /\ Unprinted => box.data = written /\ Len(out) + 1 = written
  /\ ~Unprinted => Len(out) = written
  /\ Printed

(* RBR is read only when a character is ready.                             *)
ReadsWhenReady ==
  /\ driver = "rbr" /\ access = None => DR /\ box # RBR
  /\ box = RBR => \/ driver = "rbr" /\ access = RBR
                  \/ driver = "lsr" /\ access = None
  /\ Unserved => DR

(* The receiver's position and the number of characters left to read.      *)
Receiving ==
  /\ i \in 0 .. BUFFER_SIZE /\ index \in 0 .. BUFFER_SIZE
  /\ pc["receiver"] = "idle" => i < BUFFER_SIZE /\ (i # 0 => Escape /\ ~DR)
  /\ pc["receiver"] # "idle" => i = IF Escape THEN BUFFER_SIZE ELSE 0
  /\ pc["receiver"] # "idle" => (DR <=> pc["receiver"] # "or")
  /\ pc["receiver"] = "idle" /\ DR => index > 0 /\ (~Escape => index = 3)
  /\ access = RBR /\ ~Unserved => pc["receiver"] = "idle" /\ i = 0

(* The line and the copy of IIR follow IIR, and IIR follows the key; only  *)
(* the guest's store of FCR replaces the copy.                             *)
Announcing ==
  /\ \A t \in Threads : /\ pc[t] = "raise" => IIR # "NO_INT"
                        /\ pc[t] = "clear" => IIR = "NO_INT"
  /\ (\A t \in Threads : pc[t] \notin {"raise", "clear"}) => (line <=> IIR # "NO_INT")
  /\ IIR # "NO_INT" => Reg_HVA.IIR \in {IIR, "FCR"}
  /\ (\A t \in Threads : pc[t] # "irq") /\ DR /\ RDI /\ UART_Buffer[0] # "@" => IIR = "CTI"

(* The keys not yet read: those of the buffer that are left, one more when *)
(* a service is ahead of its load, one less when the load came first.      *)
Left == IF pc["receiver"] # "idle" THEN IF Escape THEN 3 ELSE 1
        ELSE IF DR THEN IF Escape THEN index ELSE 1
        ELSE i

Pending ==
  Len(unread) = IF access = RBR THEN IF Unserved THEN Left ELSE Left + 1
                ELSE IF Unserved THEN Left - 1 ELSE Left

(* The places in the buffer of the unread keys, and the copy of RBR.       *)
Place(n) == IF ~Escape THEN 0 ELSE IF i \in 1 .. 2 THEN n - 1 ELSE 2 - Len(unread) + n

Contents ==
  /\ \A n \in 1 .. Len(unread) :
        unread[n] = [char |-> UART_Buffer[Place(n)], escape |-> Escape]
  /\ DR /\ ~Escape => Reg_HVA.RBR \in {UART_Buffer[0], "tx", "divisor"}
  /\ access = RBR /\ ~Unserved => Reg_HVA.RBR = unread[1].char
  /\ KeyRead

UARTInv ==
  /\ Types /\ Handlers /\ DriverPlaces /\ SetupStages /\ Printing
  /\ ReadsWhenReady /\ Receiving /\ Announcing /\ Pending /\ Contents

-----------------------------------------------------------------------------
(* The stores of the core replace the copy of RBR or of IIR, by what is    *)
(* stored, and leave that of LSR.                                          *)
LEMMA AccessStores ==
  ASSUME Types, Access
  PROVE  /\ Reg_HVA' \in [RBR : Chars, IIR : {"NO_INT", "CTI", "THRI", "FCR"}, LSR : LSRs]
         /\ Reg_HVA'.RBR \in {Reg_HVA.RBR, "tx", "divisor"}
         /\ Reg_HVA'.IIR \in {Reg_HVA.IIR, "FCR"} /\ Reg_HVA'.LSR = Reg_HVA.LSR
         /\ access.reg = "RBR" => Reg_HVA' = Reg_HVA
<1>1. Reg_HVA \in [RBR : Chars, IIR : {"NO_INT", "CTI", "THRI", "FCR"}, LSR : LSRs]
  BY DEF Types
<1>2. \/ Reg_HVA' = Reg_HVA
      \/ access.reg = "THR" /\ Reg_HVA' = [Reg_HVA EXCEPT !.RBR = "tx"]
      \/ access.reg = "THR" /\ Reg_HVA' = [Reg_HVA EXCEPT !.RBR = "divisor"]
      \/ access.reg = "FCR" /\ Reg_HVA' = [Reg_HVA EXCEPT !.IIR = "FCR"]
  BY DEF Access, Stored
<1> QED BY <1>1, <1>2 DEF Chars

(* The handlers keep the types of the registers, of their copies and of    *)
(* the messages.                                                           *)
LEMMA TypesStep == Calm /\ UARTInv /\ [Next]_vars => Types'
<1> SUFFICES ASSUME Calm, UARTInv, [Next]_vars PROVE Types'
  OBVIOUS
<1> USE BoundAssumption DEF Types
<1>0. Types
  BY DEF UARTInv
<1>1. CASE SetUp
  <2>1. Head(todo) \in Messages
    BY <1>1 DEF SetUp, UARTInv, SetupStages, Enable, Write, Messages
  <2> QED BY <1>0, <1>1, <2>1 DEF SetUp, Post, shared, keys
<1>2. CASE Ask
  BY <1>0, <1>2 DEF Ask, shared, keys
<1>3. CASE StartTx
  <2>1. Enable(1) \in Messages
    BY DEF Enable, Write, Messages
  <2> QED BY <1>0, <1>3, <2>1 DEF StartTx, Post, shared, keys
<1>4. CASE Driver
  <2>1. box' \in Messages /\ access' = box'
    BY <1>0, <1>4 DEF Driver, Post, Enable, Read, Write, Messages
  <2>2. written' \in 0 .. asked
    BY <1>0, <1>4 DEF Driver
  <2>3. driver' \in {"idle", "iir", "lsr", "rbr", "start", "tx"}
    BY <1>4 DEF Driver
  <2> QED BY <1>0, <1>4, <2>1, <2>2, <2>3 DEF Driver, shared, keys
<1>5. CASE Access
  <2>1. Reg_HVA' \in [RBR : Chars, IIR : {"NO_INT", "CTI", "THRI", "FCR"}, LSR : LSRs]
    BY <1>0, <1>5, AccessStores
  <2>2. unread' \in Seq(KeyRecords)
    <3>1. unread # << >> => Tail(unread) \in Seq(KeyRecords)
      BY <1>0
    <3> QED BY <1>0, <1>5, <3>1 DEF Access
  <2>3. driver' \in {"setup", "idle", "iir", "lsr", "rbr", "start", "tx"}
    BY <1>0, <1>5 DEF Access
  <2> QED BY <1>0, <1>5, <2>1, <2>2, <2>3 DEF Access, shared
<1>6. CASE WriteTHR
  <2>1. pc' \in [Threads -> {"idle", "print", "or", "irq", "raise", "clear", "restart"}]
    BY <1>0, <1>6 DEF WriteTHR, Serving, Served, At, Goto, Threads
  <2>2. {DR', THRE', thr_ipending'} \subseteq BOOLEAN
    <3>1. At("uart", "or") => lsr["uart"].DR \in BOOLEAN
      BY DEF At, UARTInv, Handlers, LSRs
    <3> QED BY <1>0, <1>6, <3>1 DEF WriteTHR
  <2>3. lsr' \in [Threads -> LSRs \cup {None}]
    BY <1>0, <1>6 DEF WriteTHR, LSR, LSRs, Threads
  <2>4. box' \in Messages \cup {None}
    BY <1>0, <1>6 DEF WriteTHR, Served
  <2>5. out' \in Seq(Nat)
    <3>1. At("uart", "print") => box.data \in Nat
      BY <1>0, NoneAssumption DEF At, UARTInv, Handlers, Messages
    <3>2. At("uart", "print") => Append(out, box.data) \in Seq(Nat)
      BY <1>0, <3>1
    <3> QED BY <1>0, <1>6, <3>2 DEF WriteTHR
  <2> QED BY <1>0, <1>6, <2>1, <2>2, <2>3, <2>4, <2>5 DEF WriteTHR, core, keys
<1>7. CASE WriteIER
  <2>1. THRI' \in BOOLEAN /\ RDI' \in BOOLEAN
    BY <1>0, <1>7 DEF WriteIER, Serving
  <2>2. box' \in Messages \cup {None}
    BY <1>0, <1>7 DEF WriteIER, Served
  <2>3. pc' \in [Threads -> {"idle", "print", "or", "irq", "raise", "clear", "restart"}]
    BY <1>0, <1>7 DEF WriteIER, Served, Goto, Threads
  <2> QED BY <1>0, <1>7, <2>1, <2>2, <2>3 DEF WriteIER, core, keys
<1>8. CASE WriteLCR
  <2>1. DLAB' \in BOOLEAN
    BY <1>0, <1>8 DEF WriteLCR, Serving
  <2> QED BY <1>0, <1>8, <2>1 DEF WriteLCR, Served, core, keys
<1>9. CASE ReadRBR
  <2>1. Buffered(3 - index) \in Chars
    BY <1>0 DEF Buffered, Chars, Junk
  <2>2. /\ Reg_HVA' \in [RBR : Chars, IIR : {"NO_INT", "CTI", "THRI", "FCR"}, LSR : LSRs]
        /\ DR' \in BOOLEAN
    <3> DEFINE read == [Reg_HVA EXCEPT !.RBR = Buffered(3 - index)]
               full == [read EXCEPT !.LSR = [LSR EXCEPT !.DR = FALSE]]
    <3>1. /\ read \in [RBR : Chars, IIR : {"NO_INT", "CTI", "THRI", "FCR"}, LSR : LSRs]
          /\ full \in [RBR : Chars, IIR : {"NO_INT", "CTI", "THRI", "FCR"}, LSR : LSRs]
      BY <1>0, <2>1 DEF LSR, LSRs
    <3>2. DR' \in BOOLEAN /\ Reg_HVA' \in {read, full}
      BY <1>0, <1>9 DEF ReadRBR
    <3> QED BY <3>1, <3>2
  <2>3. pc' \in [Threads -> {"idle", "print", "or", "irq", "raise", "clear", "restart"}]
    BY <1>0, <1>9 DEF ReadRBR, Goto, Threads
  <2> QED BY <1>0, <1>9, <2>2, <2>3 DEF ReadRBR, core, keys
<1>10. CASE ReadIIR
  <2>1. Reg_HVA' \in [RBR : Chars, IIR : {"NO_INT", "CTI", "THRI", "FCR"}, LSR : LSRs]
    BY <1>0, <1>10 DEF ReadIIR
  <2>2. /\ box' \in Messages \cup {None}
        /\ thr_ipending' \in BOOLEAN
    BY <1>0, <1>10 DEF ReadIIR, Served
  <2>3. pc' \in [Threads -> {"idle", "print", "or", "irq", "raise", "clear", "restart"}]
    BY <1>0, <1>10 DEF ReadIIR, Served, Goto, Threads
  <2> QED BY <1>0, <1>10, <2>1, <2>2, <2>3 DEF ReadIIR, core, keys
<1>11. CASE ReadLSR
  <2>1. Reg_HVA' \in [RBR : Chars, IIR : {"NO_INT", "CTI", "THRI", "FCR"}, LSR : LSRs]
    BY <1>0, <1>11 DEF ReadLSR, LSR, LSRs
  <2> QED BY <1>0, <1>11, <2>1 DEF ReadLSR, Served, shared, core, keys
<1>12. CASE Receive
  <2>1. lsr["receiver"] \in LSRs
    BY <1>12 DEF Receive, At, UARTInv, Handlers
  <2>2. Buffered(i) \in Chars
    BY <1>0 DEF Buffered, Chars, Junk
  <2>3. /\ Reg_HVA' \in [RBR : Chars, IIR : {"NO_INT", "CTI", "THRI", "FCR"}, LSR : LSRs]
        /\ DR' \in BOOLEAN /\ THRE' \in BOOLEAN
    BY <1>0, <1>12, <2>1, <2>2 DEF Receive, LSRs
  <2>4. /\ pc' \in [Threads -> {"idle", "print", "or", "irq", "raise", "clear", "restart"}]
        /\ lsr' \in [Threads -> LSRs \cup {None}]
    BY <1>0, <1>12 DEF Receive, Goto, Threads
  <2> QED BY <1>0, <1>12, <2>3, <2>4 DEF Receive, core, keys
<1>13. CASE Restart
  BY <1>0, <1>13 DEF Restart, Goto, Threads, core, keys
<1>14. CASE sendsignal
  <2>1. /\ Reg_HVA' \in [RBR : Chars, IIR : {"NO_INT", "CTI", "THRI", "FCR"}, LSR : LSRs]
        /\ DR' \in BOOLEAN
    BY <1>0, <1>14 DEF sendsignal, LSR, LSRs, Chars
  <2>2. UART_Buffer' \in [0 .. BUFFER_SIZE - 1 -> Chars]
    BY <1>0, <1>14 DEF sendsignal, Chars
  <2>3. unread' \in Seq(KeyRecords)
    BY <1>0, <1>14 DEF sendsignal, KeyRecords, Chars
  <2>4. pc' \in [Threads -> {"idle", "print", "or", "irq", "raise", "clear", "restart"}]
    BY <1>0, <1>14 DEF sendsignal, Goto, Threads
  <2> QED BY <1>0, <1>14, <2>1, <2>2, <2>3, <2>4 DEF sendsignal, core
<1>15. ASSUME NEW ch \in IF i = 0 THEN Keys ELSE Follow, Getch(ch) PROVE Types'
  <2>0. ch \in Chars
    BY <1>15 DEF Chars
  <2>1. UART_Buffer' \in [0 .. BUFFER_SIZE - 1 -> Chars]
    BY <1>0, <1>15, <2>0 DEF Getch
  <2>2. unread' \in Seq(KeyRecords)
    BY <1>0, <1>15, <2>0 DEF Getch, KeyRecords
  <2>3. /\ pc' \in [Threads -> {"idle", "print", "or", "irq", "raise", "clear", "restart"}]
        /\ lsr' \in [Threads -> LSRs \cup {None}]
    BY <1>0, <1>15 DEF Getch, Goto, Threads, LSR, LSRs
  <2> QED BY <1>0, <1>15, <2>1, <2>2, <2>3 DEF Getch, core
<1>16. ASSUME NEW t \in Threads, uart_update_irq(t) PROVE Types'
  <2>1. tempiir \in {"NO_INT", "CTI", "THRI"}
    BY DEF tempiir
  <2>2. /\ Reg_HVA' \in [RBR : Chars, IIR : {"NO_INT", "CTI", "THRI", "FCR"}, LSR : LSRs]
        /\ IIR' \in {"NO_INT", "CTI", "THRI"} /\ thr_ipending' \in BOOLEAN
    <3>1. [Reg_HVA EXCEPT !.IIR = tempiir]
            \in [RBR : Chars, IIR : {"NO_INT", "CTI", "THRI", "FCR"}, LSR : LSRs]
      BY <1>0, <2>1
    <3> QED BY <1>0, <1>16, <2>1, <3>1 DEF uart_update_irq
  <2>3. pc' \in [Threads -> {"idle", "print", "or", "irq", "raise", "clear", "restart"}]
    BY <1>0, <1>16 DEF uart_update_irq, Goto
  <2> QED BY <1>0, <1>16, <2>2, <2>3 DEF uart_update_irq, core, keys
<1>17. ASSUME NEW t \in Threads, UpdateLine(t) PROVE Types'
  <2>1. pc' \in [Threads -> {"idle", "print", "or", "irq", "raise", "clear", "restart"}]
    BY <1>0, <1>17 DEF UpdateLine, Goto
  <2>2. line' \in BOOLEAN /\ (box' \in Messages \cup {None})
    BY <1>0, <1>17 DEF UpdateLine, At
  <2> QED BY <1>0, <1>17, <2>1, <2>2 DEF UpdateLine, shared, core, keys
<1>18. CASE UNCHANGED vars
  BY <1>0, <1>18 DEF vars, shared, core, keys
<1>19. CASE Configure
  <2>1. Write("FCR", 0) \in Messages
    BY DEF Write, Messages
  <2> QED BY <1>0, <1>19, <2>1 DEF Configure, Post, shared, keys
<1>20. CASE WriteFCR
  BY <1>0, <1>20 DEF WriteFCR, Served, shared, core, keys
<1> QED
  BY <1>1, <1>2, <1>3, <1>4, <1>5, <1>6, <1>7, <1>8, <1>9, <1>10, <1>11, <1>12, <1>13, <1>14,
     <1>15, <1>16, <1>17, <1>18, <1>19, <1>20 DEF Next, uart_io, uart_receiver

(* A read of RBR is served when every thread is idle, a character is ready *)
(* and index says where it is; the service takes one character and clears  *)
(* the ready bit, and its copy, after the last one.                        *)
LEMMA ReadStep ==
  ASSUME Calm, UARTInv, ReadRBR
  PROVE  /\ Unserved /\ box' = box /\ UNCHANGED <<UART_Buffer, i, core, keys>>
         /\ \A t \in Threads : pc[t] = "idle"
         /\ pc' = [pc EXCEPT !["uart"] = "irq"]
         /\ DR /\ i = 0 /\ index \in 1 .. 3 /\ (~Escape => index = 3)
         /\ index' = index - 1
         /\ (DR' <=> Escape /\ index # 1)
         /\ Reg_HVA'.RBR = UART_Buffer[3 - index]
         /\ Reg_HVA'.LSR.DR = DR'
<1>0. Types /\ Handlers /\ DriverPlaces /\ ReadsWhenReady /\ Receiving
  BY DEF UARTInv
<1>1. Unserved /\ box' = box /\ UNCHANGED <<UART_Buffer, i, core, keys>>
  BY <1>0 DEF ReadRBR, Serving, At, DriverPlaces, Unserved
<1>2. \A t \in Threads : pc[t] = "idle"
  BY DEF ReadRBR, Serving, At, Quiet, Calm
<1>3. pc' = [pc EXCEPT !["uart"] = "irq"] /\ index' = index - 1
  BY DEF ReadRBR, Goto
<1>4. DR /\ i = 0 /\ index \in 1 .. 3 /\ (~Escape => index = 3)
  BY <1>0, <1>1, <1>2 DEF Unserved, ReadsWhenReady, Receiving, Threads, BUFFER_SIZE
<1>5. Buffered(3 - index) = UART_Buffer[3 - index]
  BY <1>0, <1>4 DEF Buffered, Types, BUFFER_SIZE
<1>6. CASE Escape /\ index # 1
  <2>1. index' # 0
    BY <1>3, <1>4, <1>6
  <2>2. Reg_HVA' = [Reg_HVA EXCEPT !.RBR = Buffered(3 - index)] /\ DR' = DR
    BY <1>6, <2>1 DEF ReadRBR, Escape
  <2> QED
    BY <1>0, <1>1, <1>2, <1>3, <1>4, <1>5, <1>6, <2>2 DEF Types, Handlers, LSRs
<1>7. CASE ~(Escape /\ index # 1)
  <2>1. index' = 0 \/ UART_Buffer[0] # "ESC"
    BY <1>3, <1>4, <1>7 DEF Escape
  <2>2. /\ Reg_HVA' = [[Reg_HVA EXCEPT !.RBR = Buffered(3 - index)]
                         EXCEPT !.LSR = [LSR EXCEPT !.DR = FALSE]]
        /\ DR' = FALSE
    BY <2>1 DEF ReadRBR
  <2>3. Reg_HVA'.RBR = Buffered(3 - index) /\ Reg_HVA'.LSR.DR = FALSE
    BY <1>0, <2>2 DEF Types, LSR
  <2> QED
    BY <1>0, <1>1, <1>2, <1>3, <1>4, <1>5, <1>7, <2>2, <2>3
<1> QED BY <1>6, <1>7

(* The handlers exclude one another, a message stays until it is served,   *)
(* and the copy of LSR keeps up with the ready bit.                        *)
LEMMA HandlersStep == Calm /\ UARTInv /\ [Next]_vars => Handlers'
<1> SUFFICES ASSUME Calm, UARTInv, [Next]_vars PROVE Handlers'
  OBVIOUS
<1> USE NoneAssumption DEF Calm, Types, Handlers, Threads, LSRs, BUFFER_SIZE, Messages
<1>0. Types /\ Handlers
  BY DEF UARTInv
<1>1. CASE SetUp
  BY <1>0, <1>1 DEF SetUp, Post, shared, keys
<1>2. CASE Ask
  BY <1>0, <1>2 DEF Ask, shared, keys
<1>3. CASE StartTx
  BY <1>0, <1>3 DEF StartTx, Post, Enable, shared, keys
<1>4. CASE Driver
  BY <1>0, <1>4 DEF Driver, Post, Enable, shared, keys
<1>5. CASE Access
  <2>1. UNCHANGED <<pc, box, THRE, DLAB, lsr, DR>>
    BY <1>5 DEF Access, shared
  <2>2. Reg_HVA'.LSR = Reg_HVA.LSR
    BY <1>0, <1>5, AccessStores
  <2> QED BY <1>0, <2>1, <2>2
<1>6. CASE WriteTHR
  <2>0. UNCHANGED <<DLAB, Reg_HVA>>
    BY <1>6 DEF WriteTHR
  <2>1. CASE Serving("write", "THR") /\ DLAB
    BY <1>0, <1>6, <2>0, <2>1 DEF WriteTHR, Serving, Served, At
  <2>2. CASE Serving("write", "THR") /\ ~DLAB
    <3>1. /\ pc' = [pc EXCEPT !["uart"] = "print"] /\ THRE' = FALSE
          /\ UNCHANGED <<DR, lsr, box>> /\ \A t \in Threads : pc[t] = "idle"
      BY <1>6, <2>2 DEF WriteTHR, Serving, At, Goto, Quiet
    <3>2. box # None /\ box.op = "write" /\ box.reg = "THR" /\ ~DLAB
      BY <2>2 DEF Serving
    <3> QED BY <1>0, <2>0, <3>1, <3>2
  <2>3. CASE At("uart", "print")
    BY <1>0, <1>6, <2>0, <2>3 DEF WriteTHR, Serving, At, Goto, LSR
  <2>4. CASE At("uart", "or")
    BY <1>0, <1>6, <2>0, <2>4 DEF WriteTHR, Serving, At, Goto
  <2> QED BY <1>6, <2>1, <2>2, <2>3, <2>4 DEF WriteTHR
<1>7. CASE WriteIER
  BY <1>0, <1>7 DEF WriteIER, Serving, Served, At, Goto, Quiet, core, keys
<1>8. CASE WriteLCR
  BY <1>0, <1>8 DEF WriteLCR, Serving, Served, At, Goto, Quiet, core, keys
<1>9. CASE ReadRBR
  <2>1. UNCHANGED <<THRE, DLAB, lsr>>
    BY <1>9 DEF ReadRBR
  <2>2. box = RBR /\ box.reg = "RBR" /\ box # None
    BY <1>9, ReadStep DEF Unserved, ReadRBR, Serving
  <2> QED BY <1>0, <1>9, <2>1, <2>2, ReadStep
<1>10. CASE ReadIIR
  BY <1>0, <1>10 DEF ReadIIR, Serving, Served, At, Goto, Quiet, core, keys
<1>11. CASE ReadLSR
  BY <1>0, <1>11 DEF ReadLSR, Serving, Served, At, Quiet, LSR, shared, core, keys
<1>12. CASE Receive
  BY <1>0, <1>12 DEF Receive, At, Goto, Buffered, core, keys
<1>13. CASE Restart
  BY <1>0, <1>13 DEF Restart, At, Goto, core, keys
<1>14. CASE sendsignal
  BY <1>0, <1>14 DEF sendsignal, At, Goto, Quiet, Unhurried, LSR, core
<1>15. ASSUME NEW ch \in IF i = 0 THEN Keys ELSE Follow, Getch(ch) PROVE Handlers'
  BY <1>0, <1>15 DEF Getch, Complete, At, Goto, Quiet, Unhurried, LSR, core
<1>16. ASSUME NEW t \in Threads, uart_update_irq(t) PROVE Handlers'
  <2>1. /\ pc[t] = "irq"
        /\ pc' = [pc EXCEPT ![t] = "raise"] \/ pc' = [pc EXCEPT ![t] = "clear"]
        /\ UNCHANGED <<DR, THRE, DLAB, box, lsr>>
    BY <1>16 DEF uart_update_irq, At, Goto, tempiir, core, keys
  <2>2. Reg_HVA'.LSR = Reg_HVA.LSR
    BY <1>0, <1>16 DEF uart_update_irq, tempiir
  <2>3. pc'[t] \in {"raise", "clear"} /\ \A u \in Threads \ {t} : pc'[u] = pc[u]
    BY <1>0, <2>1
  <2>4. \A u \in Threads \ {t} : pc[u] = "idle"
    BY <1>0, <2>1
  <2>5. CASE t = "uart"
    BY <1>0, <2>1, <2>2, <2>3, <2>4, <2>5
  <2>6. CASE t = "receiver"
    BY <1>0, <2>1, <2>2, <2>3, <2>4, <2>6
  <2>7. CASE t = "signal"
    BY <1>0, <2>1, <2>2, <2>3, <2>4, <2>7
  <2> QED BY <2>5, <2>6, <2>7
<1>17. ASSUME NEW t \in Threads, UpdateLine(t) PROVE Handlers'
  BY <1>0, <1>17 DEF UpdateLine, At, Goto, shared, core, keys
<1>18. CASE UNCHANGED vars
  BY <1>0, <1>18 DEF vars, shared, core, keys
<1>19. CASE Configure
  BY <1>0, <1>19 DEF Configure, Post, Write, shared, keys
<1>20. CASE WriteFCR
  BY <1>0, <1>20 DEF WriteFCR, Serving, Served, At, Quiet, shared, core, keys
<1> QED
  BY <1>1, <1>2, <1>3, <1>4, <1>5, <1>6, <1>7, <1>8, <1>9, <1>10, <1>11, <1>12, <1>13, <1>14,
     <1>15, <1>16, <1>17, <1>18, <1>19, <1>20 DEF Next, uart_io, uart_receiver

(* The driver posts only what its place calls for, and the message in the  *)
(* box is the one whose access is outstanding.                             *)
LEMMA DriverPlacesStep == Calm /\ UARTInv /\ [Next]_vars => DriverPlaces'
<1> SUFFICES ASSUME Calm, UARTInv, [Next]_vars PROVE DriverPlaces'
  OBVIOUS
<1> USE NoneAssumption DEF Calm, Types, Handlers, DriverPlaces, SetupStages, RBR, Read, Write,
        Enable, Messages
<1>0. Types /\ Handlers /\ DriverPlaces /\ SetupStages
  BY DEF UARTInv
<1>1. CASE SetUp
  BY <1>0, <1>1 DEF SetUp, Post, shared, keys
<1>2. CASE Ask
  BY <1>0, <1>2 DEF Ask, shared, keys
<1>3. CASE StartTx
  BY <1>0, <1>3 DEF StartTx, Post, Enable, shared, keys
<1>4. CASE Driver
  BY <1>0, <1>4 DEF Driver, Post, Enable, shared, keys
<1>5. CASE Access
  BY <1>0, <1>5, AccessStores DEF Access, shared
<1>6. CASE WriteTHR
  BY <1>0, <1>6 DEF WriteTHR, Serving, Served, At, Goto, Quiet, LSR, core, keys
<1>7. CASE WriteIER
  BY <1>0, <1>7 DEF WriteIER, Serving, Served, At, Goto, Quiet, core, keys
<1>8. CASE WriteLCR
  BY <1>0, <1>8 DEF WriteLCR, Serving, Served, At, Goto, Quiet, core, keys
<1>9. CASE ReadRBR
  BY <1>0, <1>9 DEF ReadRBR, Serving, At, Goto, Quiet, LSR, Buffered, core, keys
<1>10. CASE ReadIIR
  BY <1>0, <1>10 DEF ReadIIR, Serving, Served, At, Goto, Quiet, core, keys
<1>11. CASE ReadLSR
  BY <1>0, <1>11 DEF ReadLSR, Serving, Served, At, Quiet, LSR, shared, core, keys
<1>12. CASE Receive
  BY <1>0, <1>12 DEF Receive, At, Goto, Buffered, core, keys
<1>13. CASE Restart
  BY <1>0, <1>13 DEF Restart, At, Goto, core, keys
<1>14. CASE sendsignal
  BY <1>0, <1>14 DEF sendsignal, At, Goto, Quiet, Unhurried, LSR, core
<1>15. ASSUME NEW ch \in IF i = 0 THEN Keys ELSE Follow, Getch(ch) PROVE DriverPlaces'
  BY <1>0, <1>15 DEF Getch, Complete, At, Goto, Quiet, Unhurried, LSR, core
<1>16. ASSUME NEW t \in Threads, uart_update_irq(t) PROVE DriverPlaces'
  BY <1>0, <1>16 DEF uart_update_irq, At, Goto, tempiir, core, keys
<1>17. ASSUME NEW t \in Threads, UpdateLine(t) PROVE DriverPlaces'
  BY <1>0, <1>17 DEF UpdateLine, At, Goto, shared, core, keys
<1>18. CASE UNCHANGED vars
  BY <1>0, <1>18 DEF vars, shared, core, keys
<1>19. CASE Configure
  BY <1>0, <1>19 DEF Configure, Post, Write, shared, keys
<1>20. CASE WriteFCR
  BY <1>0, <1>20 DEF WriteFCR, Serving, Served, At, Quiet, shared, core, keys
<1> QED
  BY <1>1, <1>2, <1>3, <1>4, <1>5, <1>6, <1>7, <1>8, <1>9, <1>10, <1>11, <1>12, <1>13, <1>14,
     <1>15, <1>16, <1>17, <1>18, <1>19, <1>20 DEF Next, uart_io, uart_receiver

(* The driver's set-up reaches the end with DLAB clear, and the divisor is *)
(* served while DLAB is set.                                               *)
LEMMA SetupStagesStep == Calm /\ UARTInv /\ [Next]_vars => SetupStages'
<1> SUFFICES ASSUME Calm, UARTInv, [Next]_vars PROVE SetupStages'
  OBVIOUS
<1> USE NoneAssumption DEF Calm, Types, Handlers, DriverPlaces, SetupStages, Read, Write,
        Enable, Threads, Messages
<1>0. Types /\ Handlers /\ DriverPlaces /\ SetupStages
  BY DEF UARTInv
<1>1. CASE SetUp
  <2>1. /\ box = None /\ todo # << >> /\ driver = "setup" /\ UNCHANGED <<DLAB, driver>>
        /\ box' = Head(todo) /\ todo' = Tail(todo)
    BY <1>1 DEF SetUp, Post, shared
  <2>2. /\ None \notin {Write("LCR", 1), Write("THR", 0), Write("LCR", 0), Enable(0)}
        /\ Enable(0).reg # "LCR" /\ Enable(0) # Write("THR", 0)
    OBVIOUS
  <2> HIDE DEF Write, Enable
  <2>3. CASE todo = <<Write("LCR", 1), Write("THR", 0), Write("LCR", 0), Enable(0)>>
    BY <2>1, <2>2, <2>3
  <2>4. CASE todo = <<Write("THR", 0), Write("LCR", 0), Enable(0)>>
    BY <1>0, <2>1, <2>2, <2>4
  <2>5. CASE todo = <<Write("LCR", 0), Enable(0)>>
    BY <1>0, <2>1, <2>2, <2>5
  <2>6. CASE todo = <<Enable(0)>>
    BY <1>0, <2>1, <2>2, <2>6
  <2> QED BY <1>0, <2>1, <2>3, <2>4, <2>5, <2>6
<1>2. CASE Ask
  BY <1>0, <1>2 DEF Ask, shared, keys
<1>3. CASE StartTx
  BY <1>0, <1>3 DEF StartTx, Post, Enable, shared, keys
<1>4. CASE Driver
  <2>1. driver # "setup" /\ driver' # "setup" /\ UNCHANGED <<todo, DLAB>>
    BY <1>4 DEF Driver, shared
  <2>2. todo = << >> /\ ~DLAB /\ written \in Nat
    BY <1>0, <2>1
  <2>3. box' # None /\ box'.reg # "LCR" /\ box' # Write("THR", 0)
    BY <1>4, <2>2 DEF Driver, Post
  <2> QED BY <2>1, <2>2, <2>3
<1>5. CASE Access
  BY <1>0, <1>5, AccessStores DEF Access, shared
<1>6. CASE WriteTHR
  BY <1>0, <1>6 DEF WriteTHR, Serving, Served, At, Goto, Quiet, LSR, core, keys
<1>7. CASE WriteIER
  BY <1>0, <1>7 DEF WriteIER, Serving, Served, At, Goto, Quiet, core, keys
<1>8. CASE WriteLCR
  <2>1. /\ box # None /\ box.reg = "LCR" /\ box' = None
        /\ DLAB' <=> box.data = 1
        /\ UNCHANGED <<todo, driver>>
    BY <1>8 DEF WriteLCR, Serving, Served, core
  <2>2. /\ box = Write("LCR", 1) => DLAB'
        /\ box = Write("LCR", 0) => ~DLAB'
        /\ box # Write("THR", 0)
    BY <2>1
  <2> HIDE DEF Write, Enable
  <2> QED BY <1>0, <2>1, <2>2
<1>9. CASE ReadRBR
  BY <1>0, <1>9 DEF ReadRBR, Serving, At, Goto, Quiet, LSR, Buffered, core, keys
<1>10. CASE ReadIIR
  BY <1>0, <1>10 DEF ReadIIR, Serving, Served, At, Goto, Quiet, core, keys
<1>11. CASE ReadLSR
  BY <1>0, <1>11 DEF ReadLSR, Serving, Served, At, Quiet, LSR, shared, core, keys
<1>12. CASE Receive
  BY <1>0, <1>12 DEF Receive, At, Goto, Buffered, core, keys
<1>13. CASE Restart
  BY <1>0, <1>13 DEF Restart, At, Goto, core, keys
<1>14. CASE sendsignal
  BY <1>0, <1>14 DEF sendsignal, At, Goto, Quiet, Unhurried, LSR, core
<1>15. ASSUME NEW ch \in IF i = 0 THEN Keys ELSE Follow, Getch(ch) PROVE SetupStages'
  BY <1>0, <1>15 DEF Getch, Complete, At, Goto, Quiet, Unhurried, LSR, core
<1>16. ASSUME NEW t \in Threads, uart_update_irq(t) PROVE SetupStages'
  BY <1>0, <1>16 DEF uart_update_irq, At, Goto, tempiir, core, keys
<1>17. ASSUME NEW t \in Threads, UpdateLine(t) PROVE SetupStages'
  BY <1>0, <1>17 DEF UpdateLine, At, Goto, shared, core, keys
<1>18. CASE UNCHANGED vars
  BY <1>0, <1>18 DEF vars, shared, core, keys
<1>19. CASE Configure
  BY <1>0, <1>19 DEF Configure, Post, Write, shared, keys
<1>20. CASE WriteFCR
  BY <1>0, <1>20 DEF WriteFCR, Serving, Served, At, Quiet, shared, core, keys
<1> QED
  BY <1>1, <1>2, <1>3, <1>4, <1>5, <1>6, <1>7, <1>8, <1>9, <1>10, <1>11, <1>12, <1>13, <1>14,
     <1>15, <1>16, <1>17, <1>18, <1>19, <1>20 DEF Next, uart_io, uart_receiver

(* uart_io_write prints the characters in the order they were sent.        *)
LEMMA PrintingStep == Calm /\ UARTInv /\ [Next]_vars => Printing'
<1> SUFFICES ASSUME Calm, UARTInv, [Next]_vars PROVE Printing'
  OBVIOUS
<1> USE NoneAssumption DEF Calm, Types, Handlers, SetupStages, Printing, Unprinted, Printed,
        Read, Write, Enable, Threads, Messages
<1>0. Types /\ Handlers /\ SetupStages /\ Printing
  BY DEF UARTInv
<1>1. CASE SetUp
  BY <1>0, <1>1 DEF SetUp, Post, shared, keys
<1>2. CASE Ask
  BY <1>0, <1>2 DEF Ask, shared, keys
<1>3. CASE StartTx
  BY <1>0, <1>3 DEF StartTx, Post, Enable, shared, keys
<1>4. CASE Driver
  BY <1>0, <1>4 DEF Driver, Post, Enable, shared, keys
<1>5. CASE Access
  BY <1>0, <1>5, AccessStores DEF Access, shared
<1>6. CASE WriteTHR
  <2>1. CASE Serving("write", "THR") /\ DLAB /\ Served /\ UNCHANGED out
    <3>1. box.data = 0
      BY <1>0, <2>1 DEF Serving
    <3> QED BY <1>0, <1>6, <2>1, <3>1 DEF WriteTHR, Serving, Served, core
  <2>2. CASE Serving("write", "THR") /\ Goto("uart", "print") /\ UNCHANGED <<out, box>>
    BY <1>0, <1>6, <2>2 DEF WriteTHR, Serving, At, Goto, core
  <2>3. CASE At("uart", "print") /\ out' = Append(out, box.data) /\ Goto("uart", "or")
             /\ UNCHANGED box
    <3>1. Unprinted
      BY <1>0, <2>3 DEF At
    <3>2. box.data = Len(out) + 1
      BY <1>0, <3>1
    <3>3. Len(out') = written /\ Printed'
      BY <1>0, <2>3, <3>1, <3>2
    <3>4. ~Unprinted' /\ UNCHANGED written
      BY <1>0, <1>6, <2>3 DEF WriteTHR, Goto, core
    <3> QED BY <3>3, <3>4
  <2>4. CASE At("uart", "or") /\ Goto("uart", "irq") /\ UNCHANGED <<out, box>>
    BY <1>0, <1>6, <2>4 DEF WriteTHR, At, Goto, core
  <2> QED BY <1>6, <2>1, <2>2, <2>3, <2>4 DEF WriteTHR
<1>7. CASE WriteIER
  BY <1>0, <1>7 DEF WriteIER, Serving, Served, At, Goto, Quiet, core, keys
<1>8. CASE WriteLCR
  BY <1>0, <1>8 DEF WriteLCR, Serving, Served, At, Goto, Quiet, core, keys
<1>9. CASE ReadRBR
  BY <1>0, <1>9 DEF ReadRBR, Serving, At, Goto, Quiet, LSR, Buffered, core, keys
<1>10. CASE ReadIIR
  BY <1>0, <1>10 DEF ReadIIR, Serving, Served, At, Goto, Quiet, core, keys
<1>11. CASE ReadLSR
  BY <1>0, <1>11 DEF ReadLSR, Serving, Served, At, Quiet, LSR, shared, core, keys
<1>12. CASE Receive
  BY <1>0, <1>12 DEF Receive, At, Goto, Buffered, core, keys
<1>13. CASE Restart
  BY <1>0, <1>13 DEF Restart, At, Goto, core, keys
<1>14. CASE sendsignal
  BY <1>0, <1>14 DEF sendsignal, At, Goto, Quiet, Unhurried, LSR, core
<1>15. ASSUME NEW ch \in IF i = 0 THEN Keys ELSE Follow, Getch(ch) PROVE Printing'
  BY <1>0, <1>15 DEF Getch, Complete, At, Goto, Quiet, Unhurried, LSR, core
<1>16. ASSUME NEW t \in Threads, uart_update_irq(t) PROVE Printing'
  BY <1>0, <1>16 DEF uart_update_irq, At, Goto, tempiir, core, keys
<1>17. ASSUME NEW t \in Threads, UpdateLine(t) PROVE Printing'
  BY <1>0, <1>17 DEF UpdateLine, At, Goto, shared, core, keys
<1>18. CASE UNCHANGED vars
  BY <1>0, <1>18 DEF vars, shared, core, keys
<1>19. CASE Configure
  BY <1>0, <1>19 DEF Configure, Post, Write, shared, keys
<1>20. CASE WriteFCR
  BY <1>0, <1>20 DEF WriteFCR, Serving, Served, At, Quiet, shared, core, keys
<1> QED
  BY <1>1, <1>2, <1>3, <1>4, <1>5, <1>6, <1>7, <1>8, <1>9, <1>10, <1>11, <1>12, <1>13, <1>14,
     <1>15, <1>16, <1>17, <1>18, <1>19, <1>20 DEF Next, uart_io, uart_receiver

(* The driver asks for a character only after the copy of LSR said that    *)
(* one was ready, and none but the service of that request takes it.       *)
LEMMA ReadsWhenReadyStep == Calm /\ UARTInv /\ [Next]_vars => ReadsWhenReady'
<1> SUFFICES ASSUME Calm, UARTInv, [Next]_vars PROVE ReadsWhenReady'
  OBVIOUS
<1> USE NoneAssumption DEF Calm, Types, Handlers, DriverPlaces, SetupStages, ReadsWhenReady,
        RBR, Read, Write, Enable, Threads, Messages, Unserved
<1>0. Types /\ Handlers /\ DriverPlaces /\ SetupStages /\ ReadsWhenReady
  BY DEF UARTInv
<1>1. CASE SetUp
  BY <1>0, <1>1 DEF SetUp, Post, shared, keys
<1>2. CASE Ask
  BY <1>0, <1>2 DEF Ask, shared, keys
<1>3. CASE StartTx
  BY <1>0, <1>3 DEF StartTx, Post, Enable, shared, keys
<1>4. CASE Driver
  BY <1>0, <1>4 DEF Driver, Post, Enable, shared, keys
<1>5. CASE Access
  BY <1>0, <1>5, AccessStores DEF Access, shared
<1>6. CASE WriteTHR
  BY <1>0, <1>6 DEF WriteTHR, Serving, Served, At, Goto, Quiet, LSR, core, keys
<1>7. CASE WriteIER
  BY <1>0, <1>7 DEF WriteIER, Serving, Served, At, Goto, Quiet, core, keys
<1>8. CASE WriteLCR
  BY <1>0, <1>8 DEF WriteLCR, Serving, Served, At, Goto, Quiet, core, keys
<1>9. CASE ReadRBR
  BY <1>0, <1>9 DEF ReadRBR, Serving, At, Goto, Quiet, LSR, Buffered, core, keys
<1>10. CASE ReadIIR
  BY <1>0, <1>10 DEF ReadIIR, Serving, Served, At, Goto, Quiet, core, keys
<1>11. CASE ReadLSR
  BY <1>0, <1>11 DEF ReadLSR, Serving, Served, At, Quiet, LSR, shared, core, keys
<1>12. CASE Receive
  BY <1>0, <1>12 DEF Receive, At, Goto, Buffered, core, keys
<1>13. CASE Restart
  BY <1>0, <1>13 DEF Restart, At, Goto, core, keys
<1>14. CASE sendsignal
  BY <1>0, <1>14 DEF sendsignal, At, Goto, Quiet, Unhurried, LSR, core
<1>15. ASSUME NEW ch \in IF i = 0 THEN Keys ELSE Follow, Getch(ch) PROVE ReadsWhenReady'
  BY <1>0, <1>15 DEF Getch, Complete, At, Goto, Quiet, Unhurried, LSR, core
<1>16. ASSUME NEW t \in Threads, uart_update_irq(t) PROVE ReadsWhenReady'
  BY <1>0, <1>16 DEF uart_update_irq, At, Goto, tempiir, core, keys
<1>17. ASSUME NEW t \in Threads, UpdateLine(t) PROVE ReadsWhenReady'
  BY <1>0, <1>17 DEF UpdateLine, At, Goto, shared, core, keys
<1>18. CASE UNCHANGED vars
  BY <1>0, <1>18 DEF vars, shared, core, keys
<1>19. CASE Configure
  BY <1>0, <1>19 DEF Configure, Post, Write, shared, keys
<1>20. CASE WriteFCR
  BY <1>0, <1>20 DEF WriteFCR, Serving, Served, At, Quiet, shared, core, keys
<1> QED
  BY <1>1, <1>2, <1>3, <1>4, <1>5, <1>6, <1>7, <1>8, <1>9, <1>10, <1>11, <1>12, <1>13, <1>14,
     <1>15, <1>16, <1>17, <1>18, <1>19, <1>20 DEF Next, uart_io, uart_receiver

(* The receiver stays inside UART_Buffer and starts over with index at 3;  *)
(* index reaches zero only with the last character of an escape sequence.  *)
LEMMA ReceivingStep == Calm /\ UARTInv /\ [Next]_vars => Receiving'
<1> SUFFICES ASSUME Calm, UARTInv, [Next]_vars PROVE Receiving'
  OBVIOUS
<1> USE NoneAssumption DEF Calm, Types, Handlers, DriverPlaces, ReadsWhenReady, Receiving,
        RBR, Read, Write, Threads, Messages, Escape, BUFFER_SIZE, Unserved
<1>0. Types /\ Handlers /\ DriverPlaces /\ ReadsWhenReady /\ Receiving
  BY DEF UARTInv
<1>1. CASE SetUp
  BY <1>0, <1>1 DEF SetUp, Post, shared, keys
<1>2. CASE Ask
  BY <1>0, <1>2 DEF Ask, shared, keys
<1>3. CASE StartTx
  BY <1>0, <1>3 DEF StartTx, Post, Enable, shared, keys
<1>4. CASE Driver
  BY <1>0, <1>4 DEF Driver, Post, Enable, shared, keys
<1>5. CASE Access
  BY <1>0, <1>5, AccessStores DEF Access, shared
<1>6. CASE WriteTHR
  BY <1>0, <1>6 DEF WriteTHR, Serving, Served, At, Goto, Quiet, LSR, core, keys
<1>7. CASE WriteIER
  BY <1>0, <1>7 DEF WriteIER, Serving, Served, At, Goto, Quiet, core, keys
<1>8. CASE WriteLCR
  BY <1>0, <1>8 DEF WriteLCR, Serving, Served, At, Goto, Quiet, core, keys
<1>9. CASE ReadRBR
  <2>1. Escape' = Escape /\ pc'["receiver"] = "idle" /\ i' = 0
    BY <1>0, <1>9, ReadStep
  <2>2. index' \in 0 .. 2 /\ (DR' => Escape /\ index' > 0)
    <3>1. index \in 1 .. 3 /\ index' = index - 1 /\ (DR' <=> Escape /\ index # 1)
      BY <1>9, ReadStep
    <3> QED BY <3>1
  <2> QED BY <1>0, <2>1, <2>2
<1>10. CASE ReadIIR
  BY <1>0, <1>10 DEF ReadIIR, Serving, Served, At, Goto, Quiet, core, keys
<1>11. CASE ReadLSR
  BY <1>0, <1>11 DEF ReadLSR, Serving, Served, At, Quiet, LSR, shared, core, keys
<1>12. CASE Receive
  BY <1>0, <1>12 DEF Receive, At, Goto, Buffered, core, keys
<1>13. CASE Restart
  BY <1>0, <1>13 DEF Restart, At, Goto, core, keys
<1>14. CASE sendsignal
  BY <1>0, <1>14 DEF sendsignal, At, Goto, Quiet, Unhurried, LSR, core
<1>15. ASSUME NEW ch \in IF i = 0 THEN Keys ELSE Follow, Getch(ch) PROVE Receiving'
  BY <1>0, <1>15 DEF Getch, Complete, At, Goto, Quiet, Unhurried, LSR, core
<1>16. ASSUME NEW t \in Threads, uart_update_irq(t) PROVE Receiving'
  BY <1>0, <1>16 DEF uart_update_irq, At, Goto, tempiir, core, keys
<1>17. ASSUME NEW t \in Threads, UpdateLine(t) PROVE Receiving'
  BY <1>0, <1>17 DEF UpdateLine, At, Goto, shared, core, keys
<1>18. CASE UNCHANGED vars
  BY <1>0, <1>18 DEF vars, shared, core, keys
<1>19. CASE Configure
  BY <1>0, <1>19 DEF Configure, Post, Write, shared, keys
<1>20. CASE WriteFCR
  BY <1>0, <1>20 DEF WriteFCR, Serving, Served, At, Quiet, shared, core, keys
<1> QED
  BY <1>1, <1>2, <1>3, <1>4, <1>5, <1>6, <1>7, <1>8, <1>9, <1>10, <1>11, <1>12, <1>13, <1>14,
     <1>15, <1>16, <1>17, <1>18, <1>19, <1>20 DEF Next, uart_io, uart_receiver

(* uart_update_irq and the line follow the ready bit.                      *)
LEMMA AnnouncingStep == Calm /\ UARTInv /\ [Next]_vars => Announcing'
<1> SUFFICES ASSUME Calm, UARTInv, [Next]_vars PROVE Announcing'
  OBVIOUS
<1> USE NoneAssumption DEF Calm, Types, Handlers, Receiving, Announcing, Threads, Escape,
        BUFFER_SIZE
<1>0. Types /\ Handlers /\ Receiving /\ Announcing
  BY DEF UARTInv
<1>1. CASE SetUp
  BY <1>0, <1>1 DEF SetUp, Post, shared, keys
<1>2. CASE Ask
  BY <1>0, <1>2 DEF Ask, shared, keys
<1>3. CASE StartTx
  BY <1>0, <1>3 DEF StartTx, Post, Enable, shared, keys
<1>4. CASE Driver
  BY <1>0, <1>4 DEF Driver, Post, Enable, shared, keys
<1>5. CASE Access
  BY <1>0, <1>5, AccessStores DEF Access, shared
<1>6. CASE WriteTHR
  BY <1>0, <1>6 DEF WriteTHR, Serving, Served, At, Goto, Quiet, LSR, core, keys
<1>7. CASE WriteIER
  BY <1>0, <1>7 DEF WriteIER, Serving, Served, At, Goto, Quiet, core, keys
<1>8. CASE WriteLCR
  BY <1>0, <1>8 DEF WriteLCR, Serving, Served, At, Goto, Quiet, core, keys
<1>9. CASE ReadRBR
  BY <1>0, <1>9 DEF ReadRBR, Serving, At, Goto, Quiet, LSR, Buffered, core, keys
<1>10. CASE ReadIIR
  BY <1>0, <1>10 DEF ReadIIR, Serving, Served, At, Goto, Quiet, core, keys
<1>11. CASE ReadLSR
  BY <1>0, <1>11 DEF ReadLSR, Serving, Served, At, Quiet, LSR, shared, core, keys
<1>12. CASE Receive
  BY <1>0, <1>12 DEF Receive, At, Goto, Buffered, core, keys
<1>13. CASE Restart
  BY <1>0, <1>13 DEF Restart, At, Goto, core, keys
<1>14. CASE sendsignal
  BY <1>0, <1>14 DEF sendsignal, At, Goto, Quiet, Unhurried, LSR, core
<1>15. ASSUME NEW ch \in IF i = 0 THEN Keys ELSE Follow, Getch(ch) PROVE Announcing'
  BY <1>0, <1>15 DEF Getch, Complete, At, Goto, Quiet, Unhurried, LSR, core
<1>16. ASSUME NEW t \in Threads, uart_update_irq(t) PROVE Announcing'
  BY <1>0, <1>16 DEF uart_update_irq, At, Goto, tempiir, core, keys
<1>17. ASSUME NEW t \in Threads, UpdateLine(t) PROVE Announcing'
  BY <1>0, <1>17 DEF UpdateLine, At, Goto, shared, core, keys
<1>18. CASE UNCHANGED vars
  BY <1>0, <1>18 DEF vars, shared, core, keys
<1>19. CASE Configure
  BY <1>0, <1>19 DEF Configure, Post, Write, shared, keys
<1>20. CASE WriteFCR
  BY <1>0, <1>20 DEF WriteFCR, Serving, Served, At, Quiet, shared, core, keys
<1> QED
  BY <1>1, <1>2, <1>3, <1>4, <1>5, <1>6, <1>7, <1>8, <1>9, <1>10, <1>11, <1>12, <1>13, <1>14,
     <1>15, <1>16, <1>17, <1>18, <1>19, <1>20 DEF Next, uart_io, uart_receiver

(* Every key is taken from the buffer once and from the copy of RBR once.  *)
LEMMA PendingStep == Calm /\ UARTInv /\ [Next]_vars => Pending'
<1> SUFFICES ASSUME Calm, UARTInv, [Next]_vars PROVE Pending'
  OBVIOUS
<1> USE NoneAssumption DEF Calm, Types, Handlers, DriverPlaces, ReadsWhenReady, Receiving,
        Pending, RBR, Read, Write, Enable, Threads, Messages, Escape, BUFFER_SIZE, Unserved,
        Left
<1>0. Types /\ Handlers /\ DriverPlaces /\ ReadsWhenReady /\ Receiving /\ Pending
  BY DEF UARTInv
<1>1. CASE SetUp
  BY <1>0, <1>1 DEF SetUp, Post, shared, keys
<1>2. CASE Ask
  BY <1>0, <1>2 DEF Ask, shared, keys
<1>3. CASE StartTx
  BY <1>0, <1>3 DEF StartTx, Post, Enable, shared, keys
<1>4. CASE Driver
  BY <1>0, <1>4 DEF Driver, Post, Enable, shared, keys
<1>5. CASE Access
  <2>1. UNCHANGED <<Left, Unserved>> /\ access' # RBR /\ Left \in Nat
    BY <1>0, <1>5, AccessStores DEF Access, shared
  <2>2. CASE access = RBR
    <3>1. Len(unread) >= 1 /\ unread # << >>
      <4>1. Unserved => Left >= 1
        BY <1>0
      <4> HIDE DEF Left, Unserved
      <4>2. Len(unread) >= 1
        BY <1>0, <2>1, <2>2, <4>1
      <4> QED BY <4>2
    <3>2. access # None /\ access.op = "read" /\ access.reg = "RBR"
      BY <1>5, <2>2 DEF Access
    <3>3. unread' = Tail(unread)
      BY <1>5, <3>1, <3>2 DEF Access
    <3>4. Len(unread') = Len(unread) - 1
      BY <1>0, <3>1, <3>3
    <3> HIDE DEF Left, Unserved
    <3> QED BY <1>0, <2>1, <2>2, <3>4
  <2>3. CASE access # RBR
    <3>1. UNCHANGED unread
      BY <1>0, <1>5, <2>3 DEF Access
    <3>2. Left' = Left /\ Unserved' = Unserved /\ access' # RBR
      BY <2>1
    <3> HIDE DEF Left, Unserved
    <3>3. Len(unread) = IF Unserved THEN Left - 1 ELSE Left
      BY <1>0, <2>3
    <3>4. Len(unread') = IF Unserved' THEN Left' - 1 ELSE Left'
      BY <3>1, <3>2, <3>3
    <3> QED BY <3>2, <3>4
  <2> QED BY <2>2, <2>3
<1>6. CASE WriteTHR
  BY <1>0, <1>6 DEF WriteTHR, Serving, Served, At, Goto, Quiet, LSR, core, keys
<1>7. CASE WriteIER
  BY <1>0, <1>7 DEF WriteIER, Serving, Served, At, Goto, Quiet, core, keys
<1>8. CASE WriteLCR
  BY <1>0, <1>8 DEF WriteLCR, Serving, Served, At, Goto, Quiet, core, keys
<1>9. CASE ReadRBR
  <2>1. /\ Unserved /\ ~Unserved' /\ UNCHANGED <<access, unread, Escape, i>>
        /\ pc["receiver"] = "idle" /\ pc'["receiver"] = "idle"
    BY <1>0, <1>9, ReadStep DEF core, keys
  <2>2. /\ DR /\ i = 0 /\ index \in 1 .. 3 /\ (~Escape => index = 3) /\ index' = index - 1
        /\ DR' <=> Escape /\ index # 1
    BY <1>9, ReadStep
  <2>3. Left' = Left - 1
    <3>1. Left = IF Escape THEN index ELSE 1
      BY <2>1, <2>2
    <3>2. Left' = IF DR' THEN IF Escape THEN index' ELSE 1 ELSE 0
      BY <2>1, <2>2
    <3> HIDE DEF Left, Escape
    <3> QED BY <2>2, <3>1, <3>2
  <2> HIDE DEF Left, Unserved
  <2> QED BY <1>0, <2>1, <2>3
<1>10. CASE ReadIIR
  BY <1>0, <1>10 DEF ReadIIR, Serving, Served, At, Goto, Quiet, core, keys
<1>11. CASE ReadLSR
  BY <1>0, <1>11 DEF ReadLSR, Serving, Served, At, Quiet, LSR, shared, core, keys
<1>12. CASE Receive
  BY <1>0, <1>12 DEF Receive, At, Goto, Buffered, core, keys
<1>13. CASE Restart
  BY <1>0, <1>13 DEF Restart, At, Goto, core, keys
<1>14. CASE sendsignal
  BY <1>0, <1>14 DEF sendsignal, At, Goto, Quiet, Unhurried, LSR, core
<1>15. ASSUME NEW ch \in IF i = 0 THEN Keys ELSE Follow, Getch(ch) PROVE Pending'
  BY <1>0, <1>15 DEF Getch, Complete, At, Goto, Quiet, Unhurried, LSR, core
<1>16. ASSUME NEW t \in Threads, uart_update_irq(t) PROVE Pending'
  BY <1>0, <1>16 DEF uart_update_irq, At, Goto, tempiir, core, keys
<1>17. ASSUME NEW t \in Threads, UpdateLine(t) PROVE Pending'
  BY <1>0, <1>17 DEF UpdateLine, At, Goto, shared, core, keys
<1>18. CASE UNCHANGED vars
  BY <1>0, <1>18 DEF vars, shared, core, keys
<1>19. CASE Configure
  BY <1>0, <1>19 DEF Configure, Post, Write, shared, keys
<1>20. CASE WriteFCR
  BY <1>0, <1>20 DEF WriteFCR, Serving, Served, At, Quiet, shared, core, keys
<1> QED
  BY <1>1, <1>2, <1>3, <1>4, <1>5, <1>6, <1>7, <1>8, <1>9, <1>10, <1>11, <1>12, <1>13, <1>14,
     <1>15, <1>16, <1>17, <1>18, <1>19, <1>20 DEF Next, uart_io, uart_receiver

(* What a step has to leave alone for the unread keys to stay where they   *)
(* are in the buffer.                                                      *)
LEMMA ContentsKept ==
  ASSUME Contents, UNCHANGED <<UART_Buffer, i, unread, got>>, Reg_HVA'.RBR = Reg_HVA.RBR,
         DR' => DR, access' = RBR /\ ~Unserved' => access = RBR /\ ~Unserved
  PROVE  Contents'
<1>1. Escape' = Escape /\ \A n : Place(n)' = Place(n)
  BY DEF Escape, Place
<1> QED BY <1>1 DEF Contents, KeyRead, RBR, Read

(* The unread keys stay those in the buffer, and the load that follows the *)
(* service of a read finds the first of them in the copy of RBR.           *)
LEMMA ContentsStep == Calm /\ UARTInv /\ [Next]_vars => Contents'
<1> SUFFICES ASSUME Calm, UARTInv, [Next]_vars PROVE Contents'
  OBVIOUS
<1>0. /\ Types /\ Handlers /\ DriverPlaces /\ ReadsWhenReady /\ Receiving /\ Pending
      /\ Contents /\ SetupStages
  BY DEF UARTInv
<1>a. box = None => pc["uart"] = "idle"
  BY <1>0 DEF Handlers
<1>1. CASE SetUp
  <2>1. access' # RBR
    BY <1>0, <1>1 DEF SetUp, Post, SetupStages, Write, Enable, Read, RBR
  <2> QED BY <1>0, <1>1, <2>1, ContentsKept DEF SetUp, shared, keys
<1>2. CASE Ask
  BY <1>0, <1>2, ContentsKept DEF Ask, shared, keys, Unserved
<1>3. CASE StartTx
  <2>1. access' # RBR
    BY <1>3 DEF StartTx, Post, Write, Enable, Read, RBR
  <2> QED BY <1>0, <1>3, <2>1, ContentsKept DEF StartTx, shared, keys
<1>4. CASE Driver
  <2>1. access' = box' /\ pc'["uart"] = "idle"
    BY <1>a, <1>4 DEF Driver, Post, Write, Enable, Read
  <2> QED BY <1>0, <1>4, <2>1, ContentsKept DEF Driver, Unserved, shared, keys, RBR, Read
<1>5. CASE Access
  <2>1. UNCHANGED <<UART_Buffer, i, DR, box, pc>> /\ access' = None /\ None # RBR
    BY <1>5, NoneAssumption DEF Access, shared, RBR, Read, Messages
  <2>2. CASE access = RBR
    <3>1. i \notin 1 .. 2 /\ (Unserved => DR)
      BY <1>0, <2>2 DEF Receiving, ReadsWhenReady, BUFFER_SIZE
    <3>2. Len(unread) >= 1 /\ unread # << >>
      <4>1. Left \in Nat /\ (Unserved => Left >= 1)
        BY <1>0 DEF Left, Receiving, ReadsWhenReady, BUFFER_SIZE
      <4>2. Len(unread) >= 1
        BY <1>0, <2>2, <4>1 DEF Pending
      <4> QED BY <4>2
    <3>3. access # None /\ access.op = "read" /\ access.reg = "RBR"
      BY <1>5, <2>2 DEF Access, RBR, Read
    <3>4. /\ unread' = Tail(unread) /\ UNCHANGED Reg_HVA
          /\ got' = [char |-> Reg_HVA.RBR, early |-> box # None, key |-> unread[1]]
      BY <1>0, <1>5, <3>2, <3>3, AccessStores DEF Access
    <3>5. \A n \in 1 .. Len(unread) :
            unread[n] = [char |-> UART_Buffer[Place(n)], escape |-> Escape]
      BY <1>0 DEF Contents
    <3>6. ASSUME NEW n \in 1 .. Len(unread')
          PROVE  unread'[n] = [char |-> UART_Buffer'[Place(n)'], escape |-> Escape']
      <4>1. /\ unread'[n] = unread[n + 1] /\ n + 1 \in 1 .. Len(unread)
            /\ Len(unread') = Len(unread) - 1 /\ Len(unread) \in Nat
        BY <1>0, <3>2, <3>4 DEF Types
      <4>2. Place(n)' = Place(n + 1) /\ Escape' = Escape
        BY <2>1, <3>1, <4>1 DEF Place, Escape
      <4> QED BY <2>1, <3>5, <4>1, <4>2
    <3>7. unread[1] = [char |-> UART_Buffer[Place(1)], escape |-> Escape]
      BY <3>2, <3>5
    <3>8. KeyRead'
      <4>1. unread[1] \in KeyRecords
        BY <1>0, <3>2 DEF Types
      <4>2. /\ unread[1] # None /\ got'.key = unread[1] /\ got'.char = Reg_HVA.RBR
            /\ got'.early <=> box # None
        BY <3>4, <4>1, NoneAssumption
      <4>3. CASE ~Unserved
        BY <1>0, <2>2, <4>2, <4>3 DEF Contents, KeyRead
      <4>4. CASE Unserved
        <5>1. got'.early
          BY <2>1, <4>2, <4>4 DEF Unserved
        <5>2. unread[1].escape = Escape /\ unread[1].char = UART_Buffer[Place(1)]
          BY <3>7
        <5>3. CASE Escape
          BY <4>2, <5>1, <5>2, <5>3 DEF KeyRead
        <5>4. CASE ~Escape
          BY <1>0, <3>1, <4>2, <4>4, <5>1, <5>2, <5>4 DEF KeyRead, Contents, Place
        <5> QED BY <5>3, <5>4
      <4> QED BY <4>3, <4>4
    <3>9. DR' /\ ~Escape' => Reg_HVA'.RBR \in {UART_Buffer'[0], "tx", "divisor"}
      BY <1>0, <2>1, <3>4 DEF Contents, Escape
    <3> QED BY <2>1, <3>6, <3>8, <3>9 DEF Contents, RBR, Read
  <2>3. CASE access # RBR
    <3>1. UNCHANGED <<unread, got>>
      BY <1>0, <1>5, <2>3 DEF Access, DriverPlaces
    <3>2. Reg_HVA'.RBR \in {Reg_HVA.RBR, "tx", "divisor"}
      BY <1>0, <1>5, AccessStores
    <3>3. Escape' = Escape /\ \A n : Place(n)' = Place(n)
      BY <2>1, <3>1 DEF Place, Escape
    <3> QED BY <1>0, <2>1, <3>1, <3>2, <3>3 DEF Contents, KeyRead, RBR, Read
  <2> QED BY <2>2, <2>3
<1>6. CASE WriteTHR
  <2>1. UNCHANGED <<UART_Buffer, i, unread, got, access, Reg_HVA>>
    BY <1>6 DEF WriteTHR, core, keys
  <2>2. DR' = DR
    BY <1>0, <1>6 DEF WriteTHR, At, Handlers
  <2>3. ~Unserved
    BY <1>6 DEF WriteTHR, Serving, At, Unserved, RBR, Read
  <2> QED BY <1>0, <2>1, <2>2, <2>3, ContentsKept DEF RBR, Read
<1>7. CASE WriteIER
  <2>1. ~Unserved
    BY <1>7 DEF WriteIER, Serving, Unserved, RBR, Read
  <2> QED BY <1>0, <1>7, <2>1, ContentsKept DEF WriteIER, core, keys, RBR, Read
<1>8. CASE WriteLCR
  <2>1. ~Unserved
    BY <1>8 DEF WriteLCR, Serving, Unserved, RBR, Read
  <2> QED BY <1>0, <1>8, <2>1, ContentsKept DEF WriteLCR, core, keys, RBR, Read
<1>9. CASE ReadRBR
  <2>1. /\ Unserved /\ UNCHANGED <<access, unread, got, i, UART_Buffer>>
        /\ pc["receiver"] = "idle"
    BY <1>9, ReadStep DEF core, keys, Threads
  <2>2. /\ DR /\ i = 0 /\ index \in 1 .. 3 /\ (~Escape => index = 3)
        /\ DR' => Escape
        /\ Reg_HVA'.RBR = UART_Buffer[3 - index]
    BY <1>9, ReadStep
  <2>3. Escape' = Escape /\ \A n : Place(n)' = Place(n)
    BY <2>1 DEF Escape, Place
  <2>4. access = RBR => Reg_HVA'.RBR = unread[1].char
    <3> SUFFICES ASSUME access = RBR PROVE Reg_HVA'.RBR = unread[1].char
      OBVIOUS
    <3>1. Len(unread) = IF Escape THEN index ELSE 1
      BY <1>0, <2>1, <2>2 DEF Pending, Left
    <3>2. Place(1) = 3 - index /\ 1 \in 1 .. Len(unread)
      BY <2>2, <3>1 DEF Place
    <3>3. unread[1] = [char |-> UART_Buffer[Place(1)], escape |-> Escape]
      BY <1>0, <3>2 DEF Contents
    <3> QED BY <2>2, <3>2, <3>3
  <2> QED BY <1>0, <2>1, <2>2, <2>3, <2>4 DEF Contents, KeyRead, RBR, Read
<1>10. CASE ReadIIR
  <2>1. ~Unserved
    BY <1>10 DEF ReadIIR, Serving, Unserved, RBR, Read
  <2>2. Reg_HVA'.RBR = Reg_HVA.RBR
    BY <1>0, <1>10 DEF ReadIIR, Types
  <2> QED BY <1>0, <1>10, <2>1, <2>2, ContentsKept DEF ReadIIR, core, keys, RBR, Read
<1>11. CASE ReadLSR
  <2>1. ~Unserved
    BY <1>11 DEF ReadLSR, Serving, Unserved, RBR, Read
  <2>2. Reg_HVA'.RBR = Reg_HVA.RBR
    BY <1>0, <1>11 DEF ReadLSR, Types
  <2> QED BY <1>0, <1>11, <2>1, <2>2, ContentsKept DEF ReadLSR, shared, core, keys, RBR, Read
<1>12. CASE Receive
  <2>1. UNCHANGED <<UART_Buffer, i, unread, got, access>>
    BY <1>12 DEF Receive, core, keys
  <2>2. pc["receiver"] = "or" /\ ~DR /\ access # RBR
    BY <1>0, <1>12 DEF Receive, At, Receiving, ReadsWhenReady
  <2>3. ~Escape => Reg_HVA'.RBR = UART_Buffer[0]
    BY <1>0, <1>12, <2>2 DEF Receive, Buffered, Types, Receiving, BUFFER_SIZE
  <2>4. Escape' = Escape /\ \A n : Place(n)' = Place(n)
    BY <2>1 DEF Escape, Place
  <2> QED BY <1>0, <2>1, <2>2, <2>3, <2>4 DEF Contents, KeyRead, RBR, Read
<1>13. CASE Restart
  <2>1. UNCHANGED <<UART_Buffer, unread, got, access, box, DR, Reg_HVA>>
    BY <1>13 DEF Restart, core, keys
  <2>2. i' = 0 /\ i \notin 1 .. 2
    BY <1>0, <1>13 DEF Restart, At, Receiving, BUFFER_SIZE
  <2>3. Escape' = Escape /\ \A n : Place(n)' = Place(n)
    BY <2>1, <2>2 DEF Escape, Place
  <2>4. Unserved' = Unserved
    BY <1>0, <1>13, <2>1 DEF Restart, Goto, Unserved, Types, Threads, RBR, Read
  <2> QED BY <1>0, <2>1, <2>3, <2>4 DEF Contents, KeyRead, RBR, Read
<1>14. CASE sendsignal
  <2>1. ~DR /\ access # RBR /\ i = 0 /\ pc["receiver"] = "idle" /\ UNCHANGED <<access, got>>
    BY <1>0, <1>14, NoneAssumption
    DEF sendsignal, Quiet, Unhurried, core, Threads, RBR, Read, Messages, Calm
  <2>2. Len(unread) = 0 /\ unread = << >>
    <3>1. Len(unread) = 0
      BY <1>0, <2>1 DEF Pending, Left, ReadsWhenReady
    <3> QED BY <1>0, <3>1 DEF Types
  <2>3. unread' = <<[char |-> "^C", escape |-> FALSE]>>
    BY <1>14, <2>2 DEF sendsignal
  <2>4. UART_Buffer'[0] = "^C" /\ Reg_HVA'.RBR = "^C"
    BY <1>0, <1>14 DEF sendsignal, Types, BUFFER_SIZE
  <2>5. ~Escape' /\ \A n : Place(n)' = 0
    BY <2>4 DEF Escape, Place
  <2>6. \A n \in 1 .. Len(unread') :
           unread'[n] = [char |-> UART_Buffer'[Place(n)'], escape |-> Escape']
    <3>1. Escape' = FALSE
      BY <2>4 DEF Escape
    <3>2. \A n \in 1 .. Len(unread') : unread'[n] = [char |-> "^C", escape |-> FALSE]
      <4> DEFINE key == [char |-> "^C", escape |-> FALSE]
      <4> HIDE DEF key
      <4>1. unread' = <<key>>
        BY <2>3 DEF key
      <4>2. \A n \in 1 .. Len(unread') : unread'[n] = key
        BY <4>1
      <4> QED BY <4>2 DEF key
    <3> QED BY <2>4, <2>5, <3>1, <3>2
  <2> QED BY <1>0, <2>1, <2>4, <2>6 DEF Contents, KeyRead, RBR, Read
<1>15. ASSUME NEW ch \in IF i = 0 THEN Keys ELSE Follow, Getch(ch) PROVE Contents'
  <2>1. /\ ~DR /\ access # RBR /\ pc["receiver"] = "idle" /\ i \in 0 .. 2
        /\ UNCHANGED <<access, got, DR>>
    BY <1>0, <1>15, NoneAssumption
    DEF Getch, At, Unhurried, core, RBR, Read, Messages, Calm, Receiving, BUFFER_SIZE
  <2>2. Len(unread) = i
    BY <1>0, <2>1 DEF Pending, Left, ReadsWhenReady
  <2>3. UART_Buffer' = [UART_Buffer EXCEPT ![i] = ch]
    BY <1>15 DEF Getch
  <2>4. i # 0 => Escape
    BY <1>0, <2>1 DEF Receiving
  <2>5. /\ i # 0 => Escape'
        /\ UART_Buffer'[i] = ch /\ \A n \in 0 .. 2 : n # i => UART_Buffer'[n] = UART_Buffer[n]
    BY <1>0, <2>1, <2>3, <2>4 DEF Types, BUFFER_SIZE, Escape
  <2>6. i' = IF Escape' THEN i + 1 ELSE i
    BY <1>15 DEF Getch, Escape
  <2>7. unread' = Append(unread, [char |-> ch, escape |-> Escape'])
    BY <1>15 DEF Getch, Escape
  <2>8. /\ Len(unread') = i + 1 /\ unread'[i + 1] = [char |-> ch, escape |-> Escape']
        /\ \A n \in 1 .. i : unread'[n] = unread[n]
    BY <1>0, <2>1, <2>2, <2>7 DEF Types
  <2>9. ASSUME NEW n \in 1 .. Len(unread')
        PROVE  unread'[n] = [char |-> UART_Buffer'[Place(n)'], escape |-> Escape']
    <3>0. i \in Nat /\ n \in 1 .. i + 1
      BY <2>1, <2>8
    <3>1. Place(n)' = n - 1
      BY <2>1, <2>4, <2>5, <2>6, <2>8, <3>0 DEF Place
    <3>2. CASE n = i + 1
      BY <2>5, <2>8, <3>0, <3>1, <3>2
    <3>3. CASE n # i + 1
      <4>1. n \in 1 .. i /\ Escape /\ Escape' /\ i \in 1 .. 2
        BY <2>1, <2>4, <2>5, <3>0, <3>3
      <4>2. Place(n) = n - 1
        BY <4>1 DEF Place
      <4>3. unread[n] = [char |-> UART_Buffer[n - 1], escape |-> Escape]
        BY <1>0, <2>2, <4>1, <4>2 DEF Contents
      <4>4. n - 1 \in 0 .. 2 /\ n - 1 # i
        BY <2>1, <4>1
      <4> QED BY <2>5, <2>8, <3>1, <4>1, <4>3, <4>4
    <3> QED BY <3>2, <3>3
  <2> QED BY <1>0, <2>1, <2>9 DEF Contents, KeyRead, RBR, Read
<1>16. ASSUME NEW t \in Threads, uart_update_irq(t) PROVE Contents'
  <2>1. Reg_HVA'.RBR = Reg_HVA.RBR /\ UNCHANGED <<UART_Buffer, i, unread, got, access, box, DR>>
    BY <1>0, <1>16 DEF uart_update_irq, Types, core, keys
  <2>2. Unserved => Unserved'
    <3>1. CASE t = "uart"
      BY <1>16, <3>1 DEF uart_update_irq, At, Unserved
    <3>2. CASE t # "uart"
      <4>1. \E place : pc' = [pc EXCEPT ![t] = place]
        BY <1>16, Zenon DEF uart_update_irq, Goto
      <4>2. pc'["uart"] = pc["uart"]
        BY <1>0, <3>2, <4>1 DEF Types, Threads
      <4> QED BY <2>1, <4>2 DEF Unserved, RBR, Read
    <3> QED BY <3>1, <3>2
  <2> QED BY <1>0, <2>1, <2>2, ContentsKept DEF RBR, Read
<1>17. ASSUME NEW t \in Threads, UpdateLine(t) PROVE Contents'
  <2>1. UNCHANGED <<UART_Buffer, i, unread, got, access, DR, Reg_HVA>>
    BY <1>17 DEF UpdateLine, shared, core, keys
  <2>2. Unserved => Unserved'
    BY <1>0, <1>17 DEF UpdateLine, Goto, Unserved, Types, RBR, Read
  <2> QED BY <1>0, <2>1, <2>2, ContentsKept DEF RBR, Read
<1>18. CASE UNCHANGED vars
  BY <1>0, <1>18, ContentsKept DEF vars, shared, core, keys, Unserved, RBR, Read
<1>19. CASE Configure
  <2>1. access' # RBR
    BY <1>19 DEF Configure, Post, Write, Read, RBR
  <2> QED BY <1>0, <1>19, <2>1, ContentsKept DEF Configure, shared, keys
<1>20. CASE WriteFCR
  <2>1. ~Unserved
    BY <1>20 DEF WriteFCR, Serving, Unserved, RBR, Read
  <2> QED BY <1>0, <1>20, <2>1, ContentsKept DEF WriteFCR, shared, core, keys, RBR, Read
<1> QED
  BY <1>1, <1>2, <1>3, <1>4, <1>5, <1>6, <1>7, <1>8, <1>9, <1>10, <1>11, <1>12, <1>13, <1>14,
     <1>15, <1>16, <1>17, <1>18, <1>19, <1>20 DEF Next, uart_io, uart_receiver

-----------------------------------------------------------------------------
(* The UART after uart_reset, with the receiver waiting and the driver     *)
(* about to set it up.                                                     *)
LEMMA InvInit == Init => UARTInv
<1> SUFFICES ASSUME Init PROVE UARTInv
  OBVIOUS
<1>1. Types
  <2>1. Reg_HVA \in [RBR : Chars, IIR : {"NO_INT", "CTI", "THRI", "FCR"}, LSR : LSRs]
    BY DEF Init, LSR, LSRs, Chars
  <2>2. UART_Buffer \in [0 .. BUFFER_SIZE - 1 -> Chars]
    BY DEF Init, Chars
  <2>3. box \in Messages \cup {None} /\ access \in Messages \cup {None}
    BY DEF Init
  <2>4. /\ pc \in [Threads -> {"idle", "print", "or", "irq", "raise", "clear", "restart"}]
        /\ lsr \in [Threads -> LSRs \cup {None}]
    BY DEF Init
  <2>5. unread \in Seq(KeyRecords) /\ out \in Seq(Nat)
    BY DEF Init
  <2>6. asked \in 0 .. MaxSends /\ written \in 0 .. asked /\ flushes \in 0 .. MaxFlushes
    BY BoundAssumption DEF Init
  <2>7. index \in Int /\ i \in Nat /\ IIR = "NO_INT" /\ driver = "setup"
    BY DEF Init
  <2>8. {DR, THRE, RDI, THRI, DLAB, thr_ipending, line} \subseteq BOOLEAN
    BY Zenon DEF Init
  <2> QED BY <2>1, <2>2, <2>3, <2>4, <2>5, <2>6, <2>7, <2>8 DEF Types
<1>2. Handlers /\ DriverPlaces /\ ReadsWhenReady
  BY NoneAssumption DEF Init, Handlers, DriverPlaces, ReadsWhenReady, Unserved, Threads, LSR,
     LSRs, RBR, Read, Messages
<1>3. SetupStages
  BY DEF Init, SetupStages
<1>4. Printing
  BY DEF Init, Printing, Unprinted, Printed
<1>5. access # RBR /\ ~Unserved
  BY NoneAssumption DEF Init, Unserved, RBR, Read, Messages
<1>6. Receiving /\ Pending
  BY <1>5 DEF Init, Receiving, Pending, Left, Escape, Junk, Threads, BUFFER_SIZE
<1>7. Announcing
  BY DEF Init, Announcing, Threads
<1>8. Contents
  BY <1>5 DEF Init, Contents, KeyRead
<1> QED BY <1>1, <1>2, <1>3, <1>4, <1>6, <1>7, <1>8 DEF UARTInv

(* UARTInv is inductive when nothing overlaps and nothing overruns.        *)
LEMMA InvStep == Calm /\ UARTInv /\ [Next]_vars => UARTInv'
  BY TypesStep, HandlersStep, DriverPlacesStep, SetupStagesStep, PrintingStep,
     ReadsWhenReadyStep, ReceivingStep, AnnouncingStep, PendingStep, ContentsStep DEF UARTInv

(* Every variable keeps its type; in particular uart_receiver stays inside *)
(* UART_Buffer, and index stays between 0 and 3 although every read of RBR *)
(* decrements it.                                                          *)
THEOREM TypeCorrect == ASSUME Calm PROVE Spec => []TypeOK
<1>1. UARTInv => TypeOK
  BY DEF UARTInv, Types, Receiving, TypeOK
<1> QED BY <1>1, InvInit, InvStep, PTL DEF Spec

(* The driver reads what was typed, in order, each character once, as      *)
(* KeyRead says: no read of RBR comes too early for its key, and none      *)
(* returns the character of another.                                       *)
THEOREM KeysRead == ASSUME Calm PROVE Spec => []KeyRead
<1>1. UARTInv => KeyRead
  BY DEF UARTInv, Contents
<1> QED BY <1>1, InvInit, InvStep, PTL DEF Spec

(* Between two services, a key that is ready when its interrupt is enabled *)
(* has raised the line, and the copy of IIR says so unless the guest has   *)
(* stored FCR there since.                                                 *)
THEOREM KeysAnnounced == ASSUME Calm PROVE Spec => []KeyAnnounced
<1>1. UARTInv => KeyAnnounced
  BY DEF UARTInv, Announcing, KeyAnnounced, AtRest
<1> QED BY <1>1, InvInit, InvStep, PTL DEF Spec

(* What is printed is what was sent, in order, and the divisor is never    *)
(* printed.                                                                *)
THEOREM PrintedInOrder == ASSUME Calm PROVE Spec => []Printed
<1>1. UARTInv => Printed
  BY DEF UARTInv, Printing
<1> QED BY <1>1, InvInit, InvStep, PTL DEF Spec

=============================================================================
