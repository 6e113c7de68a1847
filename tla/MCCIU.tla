------------------------------- MODULE MCCIU -------------------------------
(* Instances of CIU for TLC: the register stores the guest makes.          *)
EXTENDS CIU

(* Stores of the cores in "by" to registers of those in "to".              *)
StoresTo(reg, by, to, k, data) ==
  [by : by, reg : reg, to : to, k : k, data : data]

(* Core 1 programs its enables and clears its mailbox, which core 0 sets;  *)
(* core 0 does the rest.  Stores to the summary registers are left out:    *)
(* they change what is pending.                                            *)
MCStores ==
  StoresTo({"EN0"}, {1}, {1}, {0}, {{}, Sources})
    \cup StoresTo({"EN0"}, {1}, {1}, {1}, {Sources})
    \cup StoresTo({"EN0_W1C", "EN0_W1S"}, {1}, {1}, {0}, {{MBOX0}})
    \cup StoresTo({"EN1"}, {0}, {0}, {1}, {{MBOX0}})
    \cup StoresTo({"EN4"}, {1}, {0}, {1}, {Sources})
    \cup StoresTo({"EN4_W1S"}, {1}, {1}, {0}, {{MBOX0}})
    \cup StoresTo({"EN4_W1C"}, {1}, {1}, {0, 1}, {{MBOX0}})
    \cup StoresTo({"MBOX_SET"}, {0}, {1}, {0}, {UpperBits, MboxBits})
    \cup StoresTo({"MBOX_CLR"}, {1}, {1}, {0}, {LowerBits, MboxBits})
    \cup StoresTo({"NMI"}, {0}, {0}, {0}, {NMIBits})
    \cup StoresTo({"SOFT_RST", "OTHER"}, {0}, {0}, {0}, {{}})
=============================================================================
