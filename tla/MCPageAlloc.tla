---- MODULE MCPageAlloc ----
(* A small instance of PageAlloc for TLC.                                     *)
EXTENDS PageAlloc
====
