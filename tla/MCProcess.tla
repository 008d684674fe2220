------------------------------ MODULE MCProcess ------------------------------
(* The process table with a few slots, pids and exit codes. *)
EXTENDS Process

MCXstates     == {0}
MCFaultCauses == {"StorePageFault"}
==============================================================================
