---------------------------- MODULE PrivateMemory ----------------------------
(* What user programs may rely on: each process has a memory of its own.      *)
(* fork copies it, execve replaces it, exit drops it, and nothing else that   *)
(* any process does changes it.  New stack and heap pages come uncleared.     *)
EXTENDS Integers

CONSTANTS Procs,      \* entries of the process table
          Programs,   \* the pages of each program
          UStack,     \* pages of a user stack
          HEAP_TOP    \* first page that the heap must not reach

VARIABLES mem,   \* the pages of each process and what they hold
          brk    \* the first page behind the stack of each process

NoPages == [u \in {} |-> <<>>]

CodePages(g) == 0 .. Programs[g] - 1
(* One guard page lies between the program and its stack.                     *)
StackPages(g) == Programs[g] + 1 .. Programs[g] + UStack
HeapBottom(g) == Programs[g] + 1 + UStack

OthersKeep(p) == \A q \in DOMAIN mem \ {p} : mem'[q] = mem[q] /\ brk'[q] = brk[q]

Init == \A p \in Procs : mem[p] = NoPages /\ brk[p] = 0

Exec(p, g) ==
  /\ OthersKeep(p)
  /\ DOMAIN mem'[p] = CodePages(g) \cup StackPages(g)
  /\ \A u \in CodePages(g) : mem'[p][u] = <<g, u>>
  /\ brk'[p] = HeapBottom(g)

Fork(p, c) ==
  /\ OthersKeep(c) /\ mem[c] = NoPages /\ mem[p] # NoPages
  /\ mem'[c] = mem[p] /\ brk'[c] = brk[p]

(* brk stays: a second sbrk returns, and remaps, the pages of the first.      *)
Sbrk(p, n) ==
  LET new == brk[p] .. brk[p] + n - 1
  IN  /\ OthersKeep(p) /\ brk' = brk
      /\ DOMAIN mem'[p] = DOMAIN mem[p] \cup new
      /\ \A u \in DOMAIN mem[p] \ new : mem'[p][u] = mem[p][u]

Exit(p) == OthersKeep(p) /\ mem'[p] = NoPages

Store(p) ==
  \E u \in DOMAIN mem[p] :
    /\ OthersKeep(p) /\ brk' = brk
    /\ mem'[p] = [mem[p] EXCEPT ![u] = <<"user", p>>]

Next == \E p \in Procs :
  \/ \E g \in DOMAIN Programs : Exec(p, g)
  \/ \E c \in Procs : Fork(p, c)
  \/ \E n \in 1 .. HEAP_TOP - brk[p] - 1 : Sbrk(p, n)
  \/ Exit(p) \/ Store(p)

Spec == Init /\ [][Next]_<<mem, brk>>
=============================================================================
