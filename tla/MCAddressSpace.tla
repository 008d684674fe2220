--------------------------- MODULE MCAddressSpace ----------------------------
(* Two processes and two programs in an address space of eight pages: code at *)
(* 0, a guard page, one stack page, heap below HEAP_TOP, and at the top the   *)
(* trapframe and the trampoline.                                              *)
EXTENDS AddressSpace

MCProcs == 1 .. 2
MCPrograms == [init |-> 1, sh |-> 2]
MCArgCounts == {1}
MCStorePages == {2}

(* A kernel stack holds what load_process allocates before it asks for a new  *)
(* one (reference tables and buf), and the part of the stack in use.          *)
ASSUME StackAssumption ==
  \A g \in DOMAIN Programs : 2 + 2 * UFAN + UFAN * UFAN + Programs[g] + StackUse < KStack
=============================================================================
