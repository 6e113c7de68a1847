----------------------------- MODULE DeviceOps -----------------------------
(***************************************************************************)
(* What the message box of IOManager promises to the cores of the board:   *)
(* a register write is one operation of the device, a core hands over the  *)
(* next one only when every earlier one has been carried out, each is      *)
(* carried out exactly once, and a register read starts only when nothing  *)
(* is outstanding.  MessageBox is the code's implementation of it.         *)
(***************************************************************************)
EXTENDS Naturals

CONSTANT Cores

VARIABLES posted,    \* posted[c]: operations core c has handed over
          applied,   \* applied[c]: operations of c the device carried out
          reading    \* the cores that are using a register value they read

opsVars == <<posted, applied, reading>>

Outstanding == {c \in Cores : applied[c] # posted[c]}

OpsInit ==
  /\ posted = [c \in Cores |-> 0]
  /\ applied = [c \in Cores |-> 0]
  /\ reading = {}

Post(c) ==
  /\ Outstanding = {}
  /\ posted' = [posted EXCEPT ![c] = @ + 1]
  /\ UNCHANGED <<applied, reading>>

Apply(c) ==
  /\ c \in Outstanding
  /\ applied' = [applied EXCEPT ![c] = @ + 1]
  /\ UNCHANGED <<posted, reading>>

BeginRead(c) ==
  /\ Outstanding = {}
  /\ reading' = reading \cup {c}
  /\ UNCHANGED <<posted, applied>>

EndRead(c) ==
  /\ reading' = reading \ {c}
  /\ UNCHANGED <<posted, applied>>

OpsNext == \E c \in Cores : Post(c) \/ Apply(c) \/ BeginRead(c) \/ EndRead(c)

OpsSpec == OpsInit /\ [][OpsNext]_opsVars
=============================================================================
