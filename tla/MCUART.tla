------------------------------- MODULE MCUART -------------------------------
(* One key, a command key and escape sequences.                            *)
EXTENDS UART

MCKeys == {"a", "@", "ESC"}
=============================================================================
