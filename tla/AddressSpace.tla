---------------------------- MODULE AddressSpace -----------------------------
(* User address spaces: load_process, sys_execve, sys_fork, sys_sbrk,         *)
(* sys_exit and sys_waitpid, composed with the allocators of PageAlloc.       *)
(*                                                                            *)
(* A handler is the list (todo) of what it asks of the allocators, in program *)
(* order; each step runs one step of PageAlloc for the head of the list.  No  *)
(* other process runs before Return, but the steps matter: a handler frees    *)
(* blocks, the kernel stack it runs on among them, and goes on to allocate.   *)
EXTENDS PageAlloc, SequencesExt

CONSTANTS Procs, Programs, UStack, HEAP_TOP,   \* as in PrivateMemory
          InitProgram,  \* what the first process runs
          UFAN,         \* entries of a user page table (512 in the code)
          KStack,       \* pages of a kernel stack, without its guard page
          StackUse,     \* pages at its top that the running handler uses
          ArgCounts,    \* lengths of argv and envp
          StorePages,   \* bound: user pages that programs store to
          MaxCalls      \* bound: system calls of a behaviour

VARIABLES status, parent, waited,   \* fields of the PCBs
          brk,       \* PCB.brk in pages; it always equals heap_bottom
          held,      \* the blocks each process reaches through its PCB; 0: locals
          lost,      \* blocks in use that nothing points to, and what they were
          data,      \* what each frame holds
          todo,      \* the rest of the running handler
          work,      \* whose space the handler changes, 0 in user mode
          was,       \* the memory and brk of work when the handler started
          runs_on,   \* the kernel stack that the handler runs on
          calls      \* system calls so far

local == <<status, parent, waited, brk, held, lost, data, todo, work, was, runs_on, calls>>
allvars == <<vars, local>>

Nothing == [k \in {} |-> 0]
NoStack == Block("k", 0, 0, 0)
TRAMPOLINE == UFAN * UFAN * UFAN - 1
TRAPFRAME == TRAMPOLINE - 1

(* UserMemory is read through the page tables.  While a handler works on a    *)
(* space, its owner cannot look.                                              *)
UserPages(p) == {u \in 0 .. TRAPFRAME - 1 : <<"page", u>> \in DOMAIN held[p]}
walkupt(p, u) == held[p][<<"page", u>>]
Memory(p) == [u \in UserPages(p) |-> data[walkupt(p, u).pfn]]
UserMemory == [p \in Procs |-> IF p = work THEN was.mem ELSE Memory(p)]
UserBrk == [p \in Procs |-> IF p = work THEN was.brk ELSE brk[p]]
Private == INSTANCE PrivateMemory WITH mem <- UserMemory, brk <- UserBrk

-----------------------------------------------------------------------------
(* Requests: an operation on what process p holds under key.  put says what   *)
(* becomes of the frames: "keep" leaves them uncleared.  User pages and page  *)
(* tables come from dmalloc, the kernel's own tables and buffers from kalloc. *)
IsDma(key) == key[1] \in {"page", "table", "base"}
Request(op, p, key, n, put) == [op |-> op, p |-> p, key |-> key, n |-> n, put |-> put]
Dmalloc(p, key, put) == Request("alloc", p, key, 1, put)
Kalloc(p, key, n) == Request("alloc", p, key, n, <<"kernel">>)
Free(p, key) == Request("free", p, key, 0, <<>>)

(* The tables of level l on the path to page u, and the pages of their        *)
(* reference tables, which hold pointers as well at level 2.                  *)
Index(l, u) == u \div (IF l = 2 THEN UFAN * UFAN ELSE UFAN)
TableAt(p, l, i) ==
  <<Dmalloc(p, <<"table", l, i>>, <<"kernel">>), Kalloc(p, <<"refs", l, i>>, l)>>
uptmap(p, u) == TableAt(p, 2, Index(2, u)) \o TableAt(p, 1, Index(1, u))
Base(p) == <<Dmalloc(p, <<"base">>, <<"kernel">>), Kalloc(p, <<"ref">>, 2)>>

(* dmalloc(&kernel_vpn, 1, false) followed by uptmap, for the pages lo .. hi. *)
MapPages(p, lo, hi, put) ==
  FlattenSeq([i \in 1 .. hi - lo + 1 |->
    <<Dmalloc(p, <<"page", lo + i - 1>>, put[lo + i - 1])>> \o uptmap(p, lo + i - 1)])
Keep == [u \in 0 .. TRAMPOLINE |-> <<"keep">>]

KernelStack(p) ==
  <<Kalloc(p, <<"stack">>, KStack + 1), Request("guard", p, <<"stack">>, 0, <<>>)>>

(* buf is a local variable that is never freed.                               *)
load_process(p, g) ==
  Base(p) \o uptmap(p, TRAMPOLINE) \o <<Kalloc(0, <<"buf">>, Programs[g])>>
    \o MapPages(p, 0, Programs[g] - 1, [u \in 0 .. Programs[g] - 1 |-> <<g, u>>])
    \o MapPages(p, Programs[g] + 1, Programs[g] + UStack, Keep)
    \o MapPages(p, TRAPFRAME, TRAPFRAME, Keep) \o KernelStack(p)

(* The keys of a whole address space, in the order of the loops of ptref_free *)
(* and ptref_copy.                                                            *)
Each(S(_)) == FlattenSeq([i \in 1 .. UFAN |-> S(i - 1)])
FreeOrder ==
  Each(LAMBDA i :
    Each(LAMBDA j :
      Each(LAMBDA k : <<<<"page", (i * UFAN + j) * UFAN + k>>>>)
        \o <<<<"table", 1, i * UFAN + j>>, <<"refs", 1, i * UFAN + j>>>>)
      \o <<<<"table", 2, i>>, <<"refs", 2, i>>>>)
    \o <<<<"base">>, <<"ref">>>>

MutLeavesRefs(p) ==
  LET keys == SelectSeq(FreeOrder, LAMBDA key : key \in DOMAIN held[p] /\ key[1] # "refs")
  IN  [i \in DOMAIN keys |-> Free(p, keys[i])]

ptref_free(p) ==
  LET keys == SelectSeq(FreeOrder, LAMBDA key : key \in DOMAIN held[p])
  IN  [i \in DOMAIN keys |-> Free(p, keys[i])]

MutKeepsStack(p) == ptref_free(p)

free_process_space(p) == ptref_free(p) \o <<Request("freestack", p, <<"stack">>, 0, <<>>)>>

MutNoCopy(c, p) ==
  LET Held(key, list) == IF key \in DOMAIN held[p] THEN list ELSE <<>>
  IN  Each(LAMBDA i :
        Held(<<"table", 2, i>>, TableAt(c, 2, i) \o
          Each(LAMBDA j :
            Held(<<"table", 1, i * UFAN + j>>, TableAt(c, 1, i * UFAN + j) \o
              Each(LAMBDA k :
                LET key == <<"page", (i * UFAN + j) * UFAN + k>>
                IN  Held(key, <<Dmalloc(c, key, <<"keep">>)>>))))))

ptref_copy(c, p) ==
  LET Held(key, list) == IF key \in DOMAIN held[p] THEN list ELSE <<>>
  IN  Each(LAMBDA i :
        Held(<<"table", 2, i>>, TableAt(c, 2, i) \o
          Each(LAMBDA j :
            Held(<<"table", 1, i * UFAN + j>>, TableAt(c, 1, i * UFAN + j) \o
              Each(LAMBDA k :
                LET key == <<"page", (i * UFAN + j) * UFAN + k>>
                IN  Held(key, <<Dmalloc(c, key, <<"copy", p>>)>>))))))

-----------------------------------------------------------------------------
(* Steps of a handler.                                                        *)
Running(op) == todo # <<>> /\ Head(todo).op = op

(* uptmap only allocates the tables that are missing.                         *)
Present(r) == r.key[1] \in {"table", "refs"} /\ r.key \in DOMAIN held[r.p]

SkipTable ==
  /\ Running("alloc") /\ Present(Head(todo))
  /\ todo' = Tail(todo)
  /\ UNCHANGED <<vars, status, parent, waited, brk, held, lost, data, work, was, runs_on, calls>>

(* The block under r.key, when it is about to be overwritten.                 *)
Overwritten(r) ==
  IF r.key \in DOMAIN held[r.p] THEN {[key |-> r.key, block |-> held[r.p][r.key]]} ELSE {}

MutSharesPage(r, b) ==
  LET own == held[r.p]
      shared == r.put[1] = "copy"
      frames == IF shared \/ r.put = <<"keep">> THEN {} ELSE {pt'[v] : v \in PagesOf(b)}
  IN  /\ held' = [held EXCEPT ![r.p] = [k \in DOMAIN own \cup {r.key} |->
                                          IF k # r.key THEN own[k]
                                          ELSE IF shared THEN held[r.put[2]][k] ELSE b]]
      /\ lost' = lost \cup IF shared THEN {[key |-> r.key, block |-> b]} ELSE Overwritten(r)
      /\ data' = [f \in DOMAIN data |-> IF f \in frames THEN r.put ELSE data[f]]
      /\ todo' = Tail(todo)

(* The allocation is over: its block is stored, whatever was there before.    *)
Bind(r, b) ==
  LET own == held[r.p]
      put == IF r.put[1] = "copy" THEN data[held[r.put[2]][r.key].pfn] ELSE r.put
      frames == IF put = <<"keep">> THEN {} ELSE {pt'[v] : v \in PagesOf(b)}
  IN  /\ held' = [held EXCEPT ![r.p] = [k \in DOMAIN own \cup {r.key} |->
                                          IF k = r.key THEN b ELSE own[k]]]
      /\ lost' = lost \cup Overwritten(r)
      /\ data' = [f \in DOMAIN data |-> IF f \in frames THEN put ELSE data[f]]
      /\ todo' = Tail(todo)

Allocate ==
  /\ Running("alloc") /\ ~Present(Head(todo))
  /\ LET r == Head(todo)
     IN  /\ r.p \in DOMAIN held /\ r.n \in Sizes
         /\ \/ IsDma(r.key) /\ (DmallocFit(r.n) \/ DmallocGrow(r.n) \/ DmallocMap)
            \/ ~IsDma(r.key) /\ (KallocFit(r.n) \/ KallocGrow(r.n) \/ KallocMap)
         /\ IF live' = live THEN UNCHANGED <<held, lost, data, todo>>
            ELSE \E b \in live' \ live : Bind(r, b)
  /\ UNCHANGED <<status, parent, waited, brk, work, was, runs_on, calls>>

Holds(r) == r.p \in DOMAIN held /\ r.key \in DOMAIN held[r.p]
Drop(r) == held' = [held EXCEPT ![r.p] = [k \in DOMAIN held[r.p] \ {r.key} |-> held[r.p][k]]]

(* dmafree and kfree write a list node into the first page they are given.    *)
Release ==
  /\ Running("free") \/ Running("freestack")
  /\ LET r == Head(todo)
         b == held[r.p][r.key]
     IN  /\ Holds(r)
         /\ IF Running("freestack") THEN FreeStack(b) ELSE dmafree(b) \/ kfree(b)
         /\ data' = [data EXCEPT ![pt'[b.vpn]] = <<"node">>]
         /\ Drop(r)
  /\ todo' = Tail(todo)
  /\ UNCHANGED <<status, parent, waited, brk, lost, work, was, runs_on, calls>>

GuardStack ==
  /\ Running("guard")
  /\ LET r == Head(todo)
     IN  /\ Holds(r) /\ Guard(held[r.p][r.key])
         /\ \E c \in live' \ live : held' = [held EXCEPT ![r.p][r.key] = c]
  /\ todo' = Tail(todo)
  /\ UNCHANGED <<status, parent, waited, brk, lost, data, work, was, runs_on, calls>>

(* The handler returns to user mode; its local variables are gone.            *)
Return ==
  /\ todo = <<>> /\ work # 0
  /\ lost' = lost \cup {[key |-> k, block |-> held[0][k]] : k \in DOMAIN held[0]}
  /\ held' = [held EXCEPT ![0] = Nothing]
  /\ work' = 0 /\ runs_on' = NoStack /\ was' = [mem |-> Nothing, brk |-> 0]
  /\ UNCHANGED <<vars, status, parent, waited, brk, data, todo, calls>>

Panic ==
  /\ Running("alloc") /\ ~Present(Head(todo))
  /\ NoTableFrames \/ (IsDma(Head(todo).key) /\ Ready /\ NoFrames(Head(todo).n))
  /\ OutOfFrames
  /\ UNCHANGED local

-----------------------------------------------------------------------------
(* System calls.                                                              *)
Trap(p) ==
  /\ work = 0 /\ ~panicked /\ status[p] = "ready" /\ calls < MaxCalls
  /\ calls' = calls + 1

(* p's handler changes the space of w.                                        *)
Handle(p, w, list) ==
  /\ todo' = list /\ work' = w
  /\ was' = [mem |-> Memory(w), brk |-> brk[w]]
  /\ runs_on' = held[p][<<"stack">>]
  /\ UNCHANGED <<vars, held, lost, data>>

NoHandler == UNCHANGED <<vars, held, lost, data, todo, work, was, runs_on>>

(* brk is returned but not advanced; a negative size fails the bounds check.  *)
sys_sbrk(p, n) ==
  /\ Trap(p) /\ brk[p] + n < HEAP_TOP
  /\ Handle(p, p, MapPages(p, brk[p], brk[p] + n - 1, Keep))
  /\ UNCHANGED <<status, parent, waited, brk>>

Unused == {c \in Procs : status[c] = "unused"}

sys_fork(p) ==
  /\ Trap(p)
  /\ \E c \in Unused :
       /\ \A d \in Unused : c <= d
       /\ status' = [status EXCEPT ![c] = "ready"] /\ parent' = [parent EXCEPT ![c] = p]
       /\ waited' = [waited EXCEPT ![c] = FALSE] /\ brk' = [brk EXCEPT ![c] = brk[p]]
       /\ Handle(p, c, Base(c) \o ptref_copy(c, p) \o uptmap(c, TRAMPOLINE) \o KernelStack(c))

(* The memory that the lookup of a path of one name takes.                    *)
getfile(found) ==
  <<Kalloc(0, <<"file">>, 1), Kalloc(0, <<"entries">>, 1), Free(0, <<"entries">>)>>
    \o IF found THEN <<>> ELSE <<Free(0, <<"file">>)>>

Strings(name, n) == [i \in 1 .. n |-> Kalloc(0, <<name, i>>, 2)]
FreeStrings(name, n) == [i \in 1 .. n |-> Free(0, <<name, i>>)] \o <<Free(0, <<name>>)>>

sys_execve(p, g, argc, envc, outcome) ==
  LET copyin == <<Kalloc(0, <<"path">>, 2), Kalloc(0, <<"argv">>, 2), Kalloc(0, <<"envp">>, 2)>>
                  \o Strings("argv", argc) \o Strings("envp", envc)
                  \o getfile(outcome # "nofile") \o <<Free(0, <<"path">>)>>
      free_args == FreeStrings("argv", argc) \o FreeStrings("envp", envc)
  IN  /\ Trap(p)
      /\ Handle(p, p, copyin \o CASE outcome = "nofile" -> <<>>
                                   [] outcome = "noexec" -> free_args
                                   [] outcome = "ok" -> free_process_space(p)
                                                          \o load_process(p, g) \o free_args)
      /\ brk' = IF outcome = "ok" THEN [brk EXCEPT ![p] = Private!HeapBottom(g)] ELSE brk
      /\ UNCHANGED <<status, parent, waited>>

unload_process(p, c) == Handle(p, c, free_process_space(c))

sys_exit(p) ==
  /\ Trap(p)
  /\ IF waited[p]
     THEN /\ status' = [status EXCEPT ![p] = "unused", ![parent[p]] = "ready"]
          /\ unload_process(p, p)
     ELSE status' = [status EXCEPT ![p] = "zombie"] /\ NoHandler
  /\ UNCHANGED <<parent, waited, brk>>

sys_waitpid(p, c) ==
  /\ Trap(p) /\ parent[c] = p
  /\ IF status[c] = "zombie"
     THEN /\ status' = [status EXCEPT ![c] = "unused"] /\ waited' = waited
          /\ unload_process(p, c)
     ELSE /\ status' = [status EXCEPT ![p] = "blocked"]
          /\ waited' = [waited EXCEPT ![c] = TRUE] /\ NoHandler
  /\ UNCHANGED <<parent, brk>>

(* A user program stores to one of its pages.                                 *)
Store(p, u) ==
  /\ work = 0 /\ status[p] = "ready" /\ u \in UserPages(p)
  /\ data' = [data EXCEPT ![walkupt(p, u).pfn] = <<"user", p>>]
  /\ UNCHANGED <<vars, status, parent, waited, brk, held, lost, todo, work, was, runs_on, calls>>

(* init_scheduler loads the first process on the boot stack.                  *)
SpaceInit ==
  /\ Init
  /\ status = [p \in Procs |-> IF p = 1 THEN "ready" ELSE "unused"]
  /\ parent = [p \in Procs |-> 0] /\ waited = [p \in Procs |-> FALSE]
  /\ brk = [p \in Procs |-> IF p = 1 THEN Private!HeapBottom(InitProgram) ELSE 0]
  /\ held = [p \in Procs \cup {0} |-> Nothing] /\ lost = {}
  /\ data = [f \in 0 .. max_pfn - 1 |-> <<"zero">>]   \* palloc_ptr clears a new frame
  /\ todo = getfile(TRUE) \o load_process(1, InitProgram)
  /\ work = 1 /\ was = [mem |-> Nothing, brk |-> 0] /\ runs_on = NoStack /\ calls = 0

(* User programs run on without system calls, or the machine has stopped: a   *)
(* handler that cannot go on is a deadlock.                                   *)
Elsewhere == (work = 0 \/ panicked) /\ UNCHANGED allvars

SystemCall(p) ==
  \/ \E n \in 1 .. HEAP_TOP : sys_sbrk(p, n)
  \/ sys_fork(p) \/ sys_exit(p)
  \/ \E c \in Procs : sys_waitpid(p, c)
  \/ \E g \in DOMAIN Programs, argc, envc \in ArgCounts, outcome \in {"ok", "noexec", "nofile"} :
       sys_execve(p, g, argc, envc, outcome)

SpaceNext ==
  \/ SkipTable \/ Allocate \/ Release \/ GuardStack \/ Return \/ Panic \/ Elsewhere
  \/ \E p \in Procs : SystemCall(p) \/ \E u \in StorePages : Store(p, u)

SpaceSpec == SpaceInit /\ [][SpaceNext]_allvars

-----------------------------------------------------------------------------
(* A process's memory is its own: it changes as PrivateMemory says, at each   *)
(* step of each handler, whatever frames are freed, split and reused.         *)
PrivateMemorySpec == Private!Spec

(* README.md lists "Isolated Processes": no two user pages, of two processes  *)
(* or of one, lie in the same frame.                                          *)
Mappings == {m \in Procs \X (0 .. TRAPFRAME) : <<"page", m[2]>> \in DOMAIN held[m[1]]}
Isolated ==
  \A a, b \in Mappings : walkupt(a[1], a[2]).pfn = walkupt(b[1], b[2]).pfn => a = b

(* The kernel forgets no memory but this.  A handler that returns leaves      *)
(* behind the program's FSFile and buf (exec.c:68, process.c:38), or the      *)
(* arguments of an execve whose file is not found (exec.c:69-73), and a       *)
(* second sbrk maps over heap pages (sysproc.c:36).  No table, reference      *)
(* table, stack, string or other page is lost, in any order of calls: each    *)
(* block in use is held by a process or the running handler, or is one of     *)
(* those.                                                                     *)
IsHeapPage(key) ==
  key[1] = "page" /\ key[2] < HEAP_TOP /\ \E g \in DOMAIN Programs : key[2] >= Private!HeapBottom(g)
KnownLeaks ==
  LET blocks == UNION {{held[p][k] : k \in DOMAIN held[p]} : p \in DOMAIN held}
  IN  /\ live \ blocks = {x.block : x \in lost}
      /\ \A x \in lost : x.key[1] \in {"file", "buf", "argv", "envp"} \/ IsHeapPage(x.key)
      /\ todo = <<>> => {k[1] : k \in DOMAIN held[0]}
                          \in {{}, {"file"}, {"file", "buf"}, {"argv", "envp"}}

(* sys_execve runs on the kernel stack that it has freed.  Nothing that it    *)
(* allocates, and no list node, reaches the top of that stack.                *)
LiveStackKept ==
  LET top == {v \in PagesOf(runs_on) : v >= runs_on.vpn + runs_on.size - StackUse}
  IN  /\ \A b \in live \ {runs_on} : PagesOf(b) \cap top = {}
      /\ \A k \in DOMAIN vfreelist : vfreelist[k].vpn \notin top

(* A process that is gone has given back all it held, and nothing got lost on *)
(* the way.                                                                   *)
ExitLosesNothing ==
  [][work # 0 /\ work' = 0 /\ status[work] = "unused" => lost' = lost /\ held'[work] = Nothing]_allvars

(* The inductive invariant behind Isolated: what is held is allocated, by the *)
(* right allocator, and under one key only.                                   *)
HeldInv ==
  /\ DOMAIN held = Procs \cup {0}
  /\ \A p \in DOMAIN held : \A k \in DOMAIN held[p] :
       held[p][k] \in live /\ (IsDma(k) <=> held[p][k].kind = "dma")
  /\ \A p, q \in DOMAIN held : \A k \in DOMAIN held[p], l \in DOMAIN held[q] :
       held[p][k] = held[q][l] => p = q /\ k = l
=============================================================================
