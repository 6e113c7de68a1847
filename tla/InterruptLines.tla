--------------------------- MODULE InterruptLines ---------------------------
(***************************************************************************)
(* How the threads of the board share the interrupt state of one core: the *)
(* summary word of the CIU behind line IP2 and the Cause register of the   *)
(* core.  Both are plain words that every thread reads, changes and writes *)
(* back without a lock.                                                    *)
(*                                                                         *)
(*   - the thread behind each source: the CIU thread for the mailboxes     *)
(*     (handleMboxSet, handleMboxClr), the UART, disk and net threads for  *)
(*     their own source (generateInterrupt, clearInterrupt).  It rewrites  *)
(*     the summary word and then runs CIU::updateInterrupt;                *)
(*   - the timer signal, which is delivered to the thread that built the   *)
(*     board (timer::timer) and so runs beside the core's thread           *)
(*     (TimerUnit_Handler, setTimerTick);                                  *)
(*   - the core itself: it writes the exception code (Perform_Exception),  *)
(*     clears IP7 when the guest writes Compare (mtc0) and produces a tick *)
(*     when none came for 3 seconds (NewBlock).                            *)
(*                                                                         *)
(* One load or one store of a shared word is one step.  The enables do not *)
(* change here (CIU has them); IP3 and IP4 are driven like IP2.            *)
(***************************************************************************)
CONSTANTS Sources,   \* the sources, each raised and cleared by its own thread
          Enabled,   \* the sources enabled in INT_EN0
          CoreOps    \* what the core and its timer do: a subset of AllCoreOps

AllCoreOps == {"exception", "compare", "watchdog", "tick"}

ASSUME EnabledAssumption == Enabled \subseteq Sources
ASSUME SourceAssumption == {"core", "timer"} \cap Sources = {}
ASSUME CoreOpsAssumption == CoreOps \subseteq AllCoreOps

Agents == Sources \cup {"core", "timer"}

VARIABLES sum,      \* INT_SUM0[2c]
          cause,    \* bits IP2 and IP7 of Cause
          pc, op,   \* where each thread is, and in what
          word,     \* its copy of the summary word
          reg,      \* its copy of Cause
          raised,   \* history: sources whose last operation stored was a raise
          ticked,   \* history: a tick was written after the last Compare
          clean     \* history: nobody else stored since this source's
                    \* thread began

vars == <<sum, cause, pc, op, word, reg, raised, ticked, clean>>

Init ==
  /\ sum = {}
  /\ cause = {}
  /\ pc = [a \in Agents |-> "idle"]
  /\ op = [a \in Agents |-> "none"]
  /\ word = [s \in Sources |-> {}]
  /\ reg = [a \in Agents |-> {}]
  /\ raised = {}
  /\ ticked = FALSE
  /\ clean = [s \in Sources |-> TRUE]

-----------------------------------------------------------------------------
Begin(a, o, to) ==
  /\ pc[a] = "idle"
  /\ pc' = [pc EXCEPT ![a] = to]
  /\ op' = [op EXCEPT ![a] = o]

(* A store by a disturbs every other thread of a source that is under way. *)
Disturb(a) ==
  clean' = [s \in Sources |-> pc[s] = "idle" \/ (s = a /\ clean[s])]

(* generateInterrupt, clearInterrupt, handleMboxSet, handleMboxClr: the    *)
(* load of  INT_SUM0[2c]->value |= flag  and its like.                     *)
LoadSum(s, o) ==
  /\ Begin(s, o, "store")
  /\ clean' = [clean EXCEPT ![s] = TRUE]
  /\ word' = [word EXCEPT ![s] = sum]
  /\ UNCHANGED <<sum, cause, reg, raised, ticked>>

StoreSum(s) ==
  /\ pc[s] = "store"
  /\ pc' = [pc EXCEPT ![s] = "read"]
  /\ sum' = IF op[s] = "raise" THEN word[s] \cup {s} ELSE word[s] \ {s}
  /\ raised' = IF op[s] = "raise" THEN raised \cup {s} ELSE raised \ {s}
  /\ Disturb(s)
  /\ UNCHANGED <<cause, op, word, reg, ticked>>

(* updateInterrupt: Cause is read first, then the line is worked out.      *)
ReadCause(s) ==
  /\ pc[s] = "read"
  /\ pc' = [pc EXCEPT ![s] = "sample"]
  /\ reg' = [reg EXCEPT ![s] = cause]
  /\ UNCHANGED <<sum, cause, op, word, raised, ticked, clean>>

(* Mutant of SampleLine: the line is worked out from the word the thread   *)
(* loaded before it changed it.                                            *)
SampleLine_Early(s) ==
  /\ pc[s] = "sample"
  /\ pc' = [pc EXCEPT ![s] = "write"]
  /\ reg' = [reg EXCEPT ![s] = IF word[s] \cap Enabled # {}
                               THEN @ \cup {"IP2"} ELSE @ \ {"IP2"}]
  /\ UNCHANGED <<sum, cause, op, word, raised, ticked, clean>>

SampleLine(s) ==
  /\ pc[s] = "sample"
  /\ pc' = [pc EXCEPT ![s] = "write"]
  /\ reg' = [reg EXCEPT ![s] = IF sum \cap Enabled # {}
                               THEN @ \cup {"IP2"} ELSE @ \ {"IP2"}]
  /\ UNCHANGED <<sum, cause, op, word, raised, ticked, clean>>

(* The core and the timer read Cause and work out what to write back.      *)
CauseUpdate(a, o, new) ==
  /\ o \in CoreOps
  /\ Begin(a, o, "write")
  /\ reg' = [reg EXCEPT ![a] = new]
  /\ UNCHANGED <<sum, cause, word, raised, ticked, clean>>

Perform_Exception == CauseUpdate("core", "exception", cause)
mtc0_Compare == CauseUpdate("core", "compare", cause \ {"IP7"})
NewBlock_Watchdog == CauseUpdate("core", "watchdog", cause \cup {"IP7"})
setTimerTick == CauseUpdate("timer", "tick", cause \cup {"IP7"})

(* CP0_IPE::write of Cause, which ends every one of these: the thread's    *)
(* copies are gone.                                                        *)
WriteCause(a) ==
  /\ pc[a] = "write"
  /\ pc' = [pc EXCEPT ![a] = "idle"]
  /\ cause' = reg[a]
  /\ ticked' = CASE op[a] = "compare" -> FALSE
                 [] op[a] \in {"watchdog", "tick"} -> TRUE
                 [] OTHER -> ticked
  /\ Disturb(a)
  /\ op' = [op EXCEPT ![a] = "none"]
  /\ reg' = [reg EXCEPT ![a] = {}]
  /\ word' = [s \in Sources |-> IF s = a THEN {} ELSE word[s]]
  /\ UNCHANGED <<sum, raised>>

Next ==
  \/ \E s \in Sources : \/ LoadSum(s, "raise") \/ LoadSum(s, "clear")
                        \/ StoreSum(s) \/ ReadCause(s) \/ SampleLine(s)
  \/ Perform_Exception \/ mtc0_Compare \/ NewBlock_Watchdog \/ setTimerTick
  \/ \E a \in Agents : WriteCause(a)

Spec == Init /\ [][Next]_vars

-----------------------------------------------------------------------------
(* Properties *)

LineExact == "IP2" \in cause <=> sum \cap Enabled # {}

AllIdle == \A a \in Agents : pc[a] = "idle"

(* An operation of a source that no other thread's store disturbs leaves   *)
(* the summary word with its source as it should be and line IP2 exactly   *)
(* right, whatever earlier overlapping operations had lost: the next quiet *)
(* generateInterrupt or clearInterrupt repairs the line.                   *)
QuietUpdateRepairs ==
  [][\A s \in Sources : WriteCause(s) /\ clean[s] =>
       LineExact' /\ (s \in sum' <=> op[s] = "raise")]_vars

(* "Set UART flags in summary registers and update cores interrupt status  *)
(* when UART interrupt is generated" (generateInterrupt), "write on        *)
(* compare register clears the IP7 in cause" (mtc0): once the threads are  *)
(* done, the summary word holds the sources raised last, IP2 tells whether *)
(* an enabled one is among them, and IP7 whether a tick came after the     *)
(* last write of Compare.                                                  *)
NothingLost ==
  AllIdle => /\ sum = raised
             /\ LineExact
             /\ "IP7" \in cause <=> ticked
=============================================================================
