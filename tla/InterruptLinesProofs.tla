----------------------- MODULE InterruptLinesProofs -----------------------
(* QuietUpdateRepairs holds for any set of sources, whatever is enabled    *)
(* and whatever the core and its timer do meanwhile.                       *)
EXTENDS InterruptLines, TLAPS

PCs == {"idle", "store", "read", "sample", "write"}
Ops == {"none", "raise", "clear", "exception", "compare", "watchdog", "tick"}
Bits == {"IP2", "IP7"}

Shape ==
  /\ sum \in SUBSET Sources
  /\ cause \in SUBSET Bits
  /\ pc \in [Agents -> PCs]
  /\ op \in [Agents -> Ops]
  /\ word \in [Sources -> SUBSET Sources]
  /\ reg \in [Agents -> SUBSET Bits]
  /\ clean \in [Sources -> BOOLEAN]
  /\ \A s \in Sources : pc[s] = "store" => op[s] \in {"raise", "clear"}

(* What a thread that nobody disturbed knows of the shared words.          *)
Knows(s) ==
  /\ pc[s] = "store" => word[s] = sum
  /\ pc[s] \in {"read", "sample", "write"} => (s \in sum <=> op[s] = "raise")
  /\ pc[s] = "write" => ("IP2" \in reg[s] <=> sum \cap Enabled # {})

CleanInv == Shape /\ \A s \in Sources : clean[s] => Knows(s)

(* The invariant holds when the board starts: every thread is idle.        *)
LEMMA CleanInit == Init => CleanInv
<1> SUFFICES ASSUME Init PROVE CleanInv
  OBVIOUS
<1>1. Shape
  BY DEF Init, Shape, Agents, PCs, Ops, Bits
<1>2. ASSUME NEW s \in Sources PROVE Knows(s)
  BY DEF Init, Knows, Agents
<1> QED
  BY <1>1, <1>2 DEF CleanInv

(* A source's thread loads the summary word (generateInterrupt and its     *)
(* like): it then knows the word.                                          *)
LEMMA LoadSumStep ==
  ASSUME CleanInv, NEW s \in Sources, NEW o \in {"raise", "clear"}, LoadSum(s, o)
  PROVE  CleanInv'
<1>1. Shape'
  BY DEF CleanInv, Shape, LoadSum, Begin, Agents, PCs, Ops, Bits
<1>2. ASSUME NEW t \in Sources, clean'[t] PROVE Knows(t)'
  <2>1. CASE t = s
    BY <2>1 DEF CleanInv, Shape, LoadSum, Begin, Agents, Knows
  <2>2. CASE t # s
    <3>1. clean[t]
      BY <1>2, <2>2 DEF CleanInv, Shape, LoadSum, Begin
    <3> QED
      BY <2>2, <3>1 DEF CleanInv, Shape, LoadSum, Begin, Agents, Knows
  <2> QED
    BY <2>1, <2>2
<1> QED
  BY <1>1, <1>2 DEF CleanInv

(* It stores the word: every other thread under way is now disturbed, and  *)
(* its own source is in the word exactly if it raised it.                  *)
LEMMA StoreSumStep ==
  ASSUME CleanInv, NEW s \in Sources, StoreSum(s)
  PROVE  CleanInv'
<1>1. Shape'
  BY DEF CleanInv, Shape, StoreSum, Disturb, Agents, PCs, Ops, Bits
<1>2. ASSUME NEW t \in Sources, clean'[t] PROVE Knows(t)'
  <2>1. pc[t] = "idle" \/ (t = s /\ clean[s])
    BY <1>2 DEF StoreSum, Disturb
  <2>2. CASE t = s
    <3>1. /\ pc'[s] = "read" /\ op'[s] = op[s] /\ op[s] \in {"raise", "clear"}
      BY DEF CleanInv, Shape, StoreSum, Agents
    <3>2. s \in sum' <=> op[s] = "raise"
      BY <3>1 DEF StoreSum
    <3> QED
      BY <2>2, <3>1, <3>2 DEF Knows
  <2>3. CASE t # s
    BY <2>1, <2>3 DEF CleanInv, Shape, StoreSum, Agents, Knows
  <2> QED
    BY <2>2, <2>3
<1> QED
  BY <1>1, <1>2 DEF CleanInv

(* updateInterrupt reads Cause and samples the line: no shared word is     *)
(* stored, and the sample agrees with the summary word.                    *)
LEMMA SampleStep ==
  ASSUME CleanInv, NEW s \in Sources, ReadCause(s) \/ SampleLine(s)
  PROVE  CleanInv'
<1>1. Shape'
  <2>1. CASE ReadCause(s)
    BY <2>1 DEF CleanInv, Shape, ReadCause, Agents, PCs, Ops, Bits
  <2>2. CASE SampleLine(s)
    BY <2>2 DEF CleanInv, Shape, SampleLine, Agents, PCs, Ops, Bits
  <2> QED
    BY <2>1, <2>2
<1>2. ASSUME NEW t \in Sources, clean'[t] PROVE Knows(t)'
  <2>1. clean[t] /\ Knows(t)
    BY <1>2 DEF CleanInv, ReadCause, SampleLine
  <2>2. CASE ReadCause(s)
    BY <2>1, <2>2 DEF CleanInv, Shape, ReadCause, Agents, Knows
  <2>3. CASE SampleLine(s) /\ t = s
    <3>1. "IP2" \in reg'[s] <=> sum \cap Enabled # {}
      BY <2>3 DEF CleanInv, Shape, SampleLine, Agents
    <3> QED
      BY <2>1, <2>3, <3>1 DEF CleanInv, Shape, SampleLine, Agents, Knows
  <2>4. CASE SampleLine(s) /\ t # s
    BY <2>1, <2>4 DEF CleanInv, Shape, SampleLine, Agents, Knows
  <2> QED
    BY <2>2, <2>3, <2>4
<1> QED
  BY <1>1, <1>2 DEF CleanInv

(* The core or the timer reads Cause: nothing a source's thread knows      *)
(* changes.                                                                *)
LEMMA CauseUpdateStep ==
  ASSUME CleanInv, NEW a \in {"core", "timer"},
         NEW o \in {"exception", "compare", "watchdog", "tick"},
         NEW new \in SUBSET Bits, CauseUpdate(a, o, new)
  PROVE  CleanInv'
<1>1. a \notin Sources
  BY SourceAssumption
<1>2. Shape'
  BY <1>1 DEF CleanInv, Shape, CauseUpdate, Begin, Agents, PCs, Ops, Bits
<1>3. ASSUME NEW t \in Sources, clean'[t] PROVE Knows(t)'
  BY <1>1, <1>3 DEF CleanInv, Shape, CauseUpdate, Begin, Agents, Knows
<1> QED
  BY <1>2, <1>3 DEF CleanInv

(* A thread writes Cause: it is done, and every other thread under way is  *)
(* disturbed.                                                              *)
LEMMA WriteCauseStep ==
  ASSUME CleanInv, NEW a \in Agents, WriteCause(a)
  PROVE  CleanInv'
<1>1. Shape'
  BY DEF CleanInv, Shape, WriteCause, Disturb, Agents, PCs, Ops, Bits
<1>2. ASSUME NEW t \in Sources, clean'[t] PROVE Knows(t)'
  <2>1. pc[t] = "idle" \/ t = a
    BY <1>2 DEF WriteCause, Disturb
  <2>2. pc'[t] = "idle"
    BY <2>1 DEF CleanInv, Shape, WriteCause, Agents
  <2> QED
    BY <2>2 DEF Knows
<1> QED
  BY <1>1, <1>2 DEF CleanInv

(* Every step of the board keeps CleanInv.                                 *)
LEMMA CleanStep == CleanInv /\ [Next]_vars => CleanInv'
<1> SUFFICES ASSUME CleanInv, [Next]_vars PROVE CleanInv'
  OBVIOUS
<1>1. ASSUME NEW s \in Sources, LoadSum(s, "raise") \/ LoadSum(s, "clear")
      PROVE  CleanInv'
  BY <1>1, LoadSumStep
<1>2. ASSUME NEW s \in Sources, StoreSum(s) PROVE CleanInv'
  BY <1>2, StoreSumStep
<1>3. ASSUME NEW s \in Sources, ReadCause(s) \/ SampleLine(s) PROVE CleanInv'
  BY <1>3, SampleStep
<1>4. CASE Perform_Exception \/ mtc0_Compare \/ NewBlock_Watchdog \/ setTimerTick
  <2>1. /\ cause \in SUBSET Bits
        /\ cause \ {"IP7"} \in SUBSET Bits
        /\ cause \cup {"IP7"} \in SUBSET Bits
    BY DEF CleanInv, Shape, Bits
  <2> QED
    BY <1>4, <2>1, CauseUpdateStep
       DEF Perform_Exception, mtc0_Compare, NewBlock_Watchdog, setTimerTick
<1>5. ASSUME NEW a \in Agents, WriteCause(a) PROVE CleanInv'
  BY <1>5, WriteCauseStep
<1>6. CASE UNCHANGED vars
  BY <1>6 DEF CleanInv, Shape, Knows, vars
<1> QED
  BY <1>1, <1>2, <1>3, <1>4, <1>5, <1>6 DEF Next

(* QuietUpdateRepairs, from CleanInv: what an undisturbed thread writes to *)
(* Cause agrees with the summary word at that moment.                      *)
THEOREM QuietUpdates == Spec => QuietUpdateRepairs
<1>1. CleanInv /\ [Next]_vars =>
        [\A s \in Sources : WriteCause(s) /\ clean[s] =>
           LineExact' /\ (s \in sum' <=> op[s] = "raise")]_vars
  <2> SUFFICES ASSUME CleanInv, NEW s \in Sources, WriteCause(s), clean[s]
               PROVE  LineExact' /\ (s \in sum' <=> op[s] = "raise")
    OBVIOUS
  <2>1. Knows(s) /\ pc[s] = "write" /\ cause' = reg[s] /\ sum' = sum
    BY DEF CleanInv, WriteCause
  <2> QED
    BY <2>1 DEF Knows, LineExact
<1> QED
  BY <1>1, CleanInit, CleanStep, PTL DEF Spec, QuietUpdateRepairs
===========================================================================
