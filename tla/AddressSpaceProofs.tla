------------------------- MODULE AddressSpaceProofs --------------------------
(* Proofs about AddressSpace: its handlers use the allocators as PageAlloc    *)
(* allows, so that what is proved there holds here, and processes share no    *)
(* frame.                                                                     *)
EXTENDS AddressSpace, PageAllocProofs

-----------------------------------------------------------------------------
(* Each step of a handler is a step of the allocators.                        *)
LEMMA StepOfPageAlloc == ASSUME [SpaceNext]_allvars PROVE [Next]_vars
<1>1. CASE Allocate
  BY <1>1 DEF Allocate, Next
<1>2. CASE Release
  <2>1. PICK b : dmafree(b) \/ kfree(b) \/ FreeStack(b)
    BY <1>2 DEF Release
  <2>2. b \in live
    BY <2>1 DEF dmafree, kfree, FreeStack
  <2>3. QED BY <2>1, <2>2 DEF Next
<1>3. CASE GuardStack
  <2>1. PICK b : Guard(b)
    BY <1>3 DEF GuardStack
  <2>2. b \in live
    BY <2>1 DEF Guard
  <2>3. QED BY <2>1, <2>2 DEF Next
<1>4. CASE Panic
  BY <1>4 DEF Panic, Next
<1>5. CASE SkipTable \/ Return \/ Elsewhere
  BY <1>5 DEF SkipTable, Return, Elsewhere, allvars
<1>6. ASSUME NEW p \in Procs, SystemCall(p) PROVE UNCHANGED vars
  <2>1. CASE \E n \in 1 .. HEAP_TOP : sys_sbrk(p, n)
    BY <2>1 DEF sys_sbrk, Handle
  <2>2. CASE sys_fork(p)
    BY <2>2 DEF sys_fork, Handle
  <2>3. CASE sys_exit(p)
    BY <2>3 DEF sys_exit, unload_process, Handle, NoHandler
  <2>4. CASE \E c \in Procs : sys_waitpid(p, c)
    BY <2>4 DEF sys_waitpid, unload_process, Handle, NoHandler
  <2>5. ASSUME NEW g \in DOMAIN Programs, NEW argc \in ArgCounts, NEW envc \in ArgCounts,
               NEW outcome \in {"ok", "noexec", "nofile"}, sys_execve(p, g, argc, envc, outcome)
        PROVE  UNCHANGED vars
    BY <2>5 DEF sys_execve, Handle
  <2>6. QED BY <1>6, <2>1, <2>2, <2>3, <2>4, <2>5 DEF SystemCall
<1>7. ASSUME NEW p \in Procs, NEW u \in StorePages, Store(p, u) PROVE UNCHANGED vars
  BY <1>7 DEF Store
<1>8. CASE UNCHANGED allvars
  BY <1>8 DEF allvars
<1>9. QED BY <1>1, <1>2, <1>3, <1>4, <1>5, <1>6, <1>7, <1>8 DEF SpaceNext

(* load_process, fork, execve, sbrk, exit and waitpid keep to the protocol of *)
(* the allocators: every behaviour of the address spaces is one of PageAlloc. *)
THEOREM ImplementsPageAlloc == SpaceSpec => Spec
<1>1. SpaceInit => Init
  BY DEF SpaceInit
<1>2. [SpaceNext]_allvars => [Next]_vars
  BY StepOfPageAlloc
<1>3. QED BY <1>1, <1>2, PTL DEF SpaceSpec, Spec

(* Therefore no frame and no page has two owners in any of their states.      *)
THEOREM SpacePageAllocInv == SpaceSpec => []PageAllocInv
  BY ImplementsPageAlloc, PageAllocInvariant, PTL

-----------------------------------------------------------------------------
(* What the allocators do to the set of blocks in use.                        *)
LEMMA DmallocLive ==
  ASSUME PageAllocInv, NEW n \in Sizes, DmallocFit(n) \/ DmallocGrow(n) \/ DmallocMap
  PROVE  live \subseteq live' /\ \A b \in live' \ live : b.kind = "dma"
<1>1. CASE DmallocFit(n)
  <2>1. PICK k \in DOMAIN ptfreelist : live' = live \cup {Fit(ptfreelist, k, n)}
    BY <1>1 DEF DmallocFit
  <2>2. Fit(ptfreelist, k, n).kind = "dma"
    BY <2>1, Facts DEF Fit, Block, BlockSet
  <2>3. QED BY <2>1, <2>2
<1>2. CASE DmallocGrow(n)
  BY <1>2 DEF DmallocGrow
<1>3. CASE DmallocMap
  BY <1>3 DEF DmallocMap, Mapped, Block
<1>4. QED BY <1>1, <1>2, <1>3

LEMMA KallocLive ==
  ASSUME PageAllocInv, NEW n \in Sizes, KallocFit(n) \/ KallocGrow(n) \/ KallocMap
  PROVE  live \subseteq live' /\ \A b \in live' \ live : b.kind # "dma"
<1>1. CASE KallocFit(n)
  <2>1. PICK k \in DOMAIN vfreelist : live' = live \cup {Fit(vfreelist, k, n)}
    BY <1>1 DEF KallocFit
  <2>2. Fit(vfreelist, k, n).kind = "k"
    BY <2>1, Facts DEF Fit, Block, BlockSet
  <2>3. QED BY <2>1, <2>2
<1>2. CASE KallocGrow(n)
  BY <1>2 DEF KallocGrow
<1>3. CASE KallocMap
  BY <1>3 DEF KallocMap, Mapped, Block
<1>4. QED BY <1>1, <1>2, <1>3

-----------------------------------------------------------------------------
(* HeldInv is inductive.                                                      *)
LEMMA AllocateHeld == ASSUME PageAllocInv, HeldInv, Allocate PROVE HeldInv'
<1> DEFINE r == Head(todo)
<1>1. /\ r.p \in DOMAIN held /\ r.n \in Sizes
      /\ \/ IsDma(r.key) /\ (DmallocFit(r.n) \/ DmallocGrow(r.n) \/ DmallocMap)
         \/ ~IsDma(r.key) /\ (KallocFit(r.n) \/ KallocGrow(r.n) \/ KallocMap)
      /\ IF live' = live THEN UNCHANGED <<held, lost, data, todo>>
         ELSE \E b \in live' \ live : Bind(r, b)
  BY DEF Allocate
<1> HIDE DEF r
<1>2. live \subseteq live' /\ \A b \in live' \ live : IsDma(r.key) <=> b.kind = "dma"
  BY <1>1, DmallocLive, KallocLive
<1>3. CASE live' = live
  BY <1>1, <1>3 DEF HeldInv
<1>4. CASE live' # live
  <2>1. PICK b \in live' \ live : Bind(r, b)
    BY <1>1, <1>4
  <2> DEFINE own == held[r.p]
             new == [k \in DOMAIN own \cup {r.key} |-> IF k = r.key THEN b ELSE own[k]]
  <2>2. held' = [held EXCEPT ![r.p] = new]
    BY <2>1 DEF Bind
  <2>3. /\ DOMAIN held' = DOMAIN held
        /\ \A p \in DOMAIN held : held'[p] = IF p = r.p THEN new ELSE held[p]
    BY <1>1, <2>2
  <2>4. DOMAIN new = DOMAIN own \cup {r.key} /\ new[r.key] = b
        /\ \A k \in DOMAIN own : k # r.key => new[k] = own[k]
    OBVIOUS
  <2> HIDE DEF own, new
  <2>5. \A p \in DOMAIN held : \A k \in DOMAIN held'[p] :
          \/ p = r.p /\ k = r.key /\ held'[p][k] = b
          \/ k \in DOMAIN held[p] /\ held'[p][k] = held[p][k]
    BY <2>3, <2>4 DEF own
  <2>6. \A p \in DOMAIN held : \A k \in DOMAIN held[p] : held[p][k] \in live /\ held[p][k] # b
    BY <2>1 DEF HeldInv
  <2>7. ASSUME NEW p \in DOMAIN held', NEW k \in DOMAIN held'[p]
        PROVE  held'[p][k] \in live' /\ (IsDma(k) <=> held'[p][k].kind = "dma")
    <3>1. CASE k = r.key /\ held'[p][k] = b
      BY <1>2, <2>1, <3>1
    <3>2. CASE k \in DOMAIN held[p] /\ held'[p][k] = held[p][k]
      BY <1>2, <2>3, <3>2 DEF HeldInv
    <3>3. QED BY <2>3, <2>5, <3>1, <3>2
  <2>8. \A p, q \in DOMAIN held' : \A k \in DOMAIN held'[p], l \in DOMAIN held'[q] :
          held'[p][k] = held'[q][l] => p = q /\ k = l
    BY <2>3, <2>5, <2>6 DEF HeldInv
  <2>9. QED BY <2>3, <2>7, <2>8 DEF HeldInv
<1>5. QED BY <1>3, <1>4

LEMMA ReleaseHeld == ASSUME PageAllocInv, HeldInv, Release PROVE HeldInv'
<1> DEFINE r == Head(todo)
           b == held[r.p][r.key]
<1>1. /\ r.p \in DOMAIN held /\ r.key \in DOMAIN held[r.p] /\ live' = live \ {b}
      /\ held' = [held EXCEPT ![r.p] = [k \in DOMAIN held[r.p] \ {r.key} |-> held[r.p][k]]]
  <2>1. dmafree(b) \/ kfree(b) \/ FreeStack(b)
    BY DEF Release
  <2>2. live' = live \ {b}
    BY <2>1 DEF dmafree, kfree, FreeStack
  <2>3. QED BY <2>2 DEF Release, Holds, Drop
<1> HIDE DEF r, b
<1>2. /\ DOMAIN held' = DOMAIN held
      /\ \A p \in DOMAIN held : \A k \in DOMAIN held'[p] :
           /\ k \in DOMAIN held[p] /\ held'[p][k] = held[p][k]
           /\ p # r.p \/ k # r.key
  BY <1>1
<1>3. \A p \in DOMAIN held : \A k \in DOMAIN held'[p] : held'[p][k] # b
  BY <1>1, <1>2 DEF HeldInv, b
<1>4. ASSUME NEW p \in DOMAIN held', NEW k \in DOMAIN held'[p]
      PROVE  held'[p][k] \in live' /\ (IsDma(k) <=> held'[p][k].kind = "dma")
  <2>1. k \in DOMAIN held[p] /\ held'[p][k] = held[p][k] /\ held'[p][k] # b
    BY <1>2, <1>3
  <2>2. held[p][k] \in live /\ (IsDma(k) <=> held[p][k].kind = "dma")
    BY <1>2, <2>1 DEF HeldInv
  <2>3. held'[p][k] \in live'
    BY <1>1, <2>1, <2>2
  <2>4. QED BY <2>1, <2>2, <2>3
<1>5. \A p, q \in DOMAIN held' : \A k \in DOMAIN held'[p], l \in DOMAIN held'[q] :
        held'[p][k] = held'[q][l] => p = q /\ k = l
  BY <1>2 DEF HeldInv
<1>6. QED BY <1>2, <1>4, <1>5 DEF HeldInv

LEMMA GuardHeld == ASSUME PageAllocInv, HeldInv, GuardStack PROVE HeldInv'
<1> DEFINE r == Head(todo)
           b == held[r.p][r.key]
           G == Block("k", b.vpn, pt[b.vpn], b.size)
<1>1. /\ r.p \in DOMAIN held /\ r.key \in DOMAIN held[r.p] /\ b.kind = "k"
      /\ live' = (live \ {b}) \cup {G}
      /\ \E c \in live' \ live : held' = [held EXCEPT ![r.p][r.key] = c]
  BY DEF GuardStack, Holds, Guard
<1>2. G.kind = "k"
  BY DEF Block
<1> HIDE DEF r, b, G
<1>3. PICK c \in live' \ live : held' = [held EXCEPT ![r.p][r.key] = c]
  BY <1>1
<1>4. c = G /\ c \notin live /\ c \in live'
  BY <1>1, <1>3
<1>5. /\ DOMAIN held' = DOMAIN held
      /\ \A p \in DOMAIN held : \A k \in DOMAIN held'[p] :
           /\ k \in DOMAIN held[p]
           /\ held'[p][k] = IF p = r.p /\ k = r.key THEN c ELSE held[p][k]
  BY <1>1, <1>3
<1>6. \A p \in DOMAIN held : \A k \in DOMAIN held[p] :
        /\ held[p][k] # c
        /\ (p = r.p /\ k = r.key) \/ held[p][k] # b
  BY <1>1, <1>4 DEF HeldInv, b
<1>7. ~IsDma(r.key)
  BY <1>1 DEF HeldInv, b
<1>8. \A p \in DOMAIN held' : \A k \in DOMAIN held'[p] :
        held'[p][k] \in live' /\ (IsDma(k) <=> held'[p][k].kind = "dma")
  BY <1>1, <1>2, <1>4, <1>5, <1>6, <1>7 DEF HeldInv
<1>9. \A p, q \in DOMAIN held' : \A k \in DOMAIN held'[p], l \in DOMAIN held'[q] :
        held'[p][k] = held'[q][l] => p = q /\ k = l
  BY <1>5, <1>6 DEF HeldInv
<1>10. QED BY <1>5, <1>8, <1>9 DEF HeldInv

LEMMA ReturnHeld == ASSUME HeldInv, Return PROVE HeldInv'
<1>1. live' = live /\ held' = [held EXCEPT ![0] = Nothing]
  BY DEF Return, vars
<1>2. DOMAIN Nothing = {}
  BY DEF Nothing
<1>3. /\ DOMAIN held' = DOMAIN held
      /\ \A p \in DOMAIN held : \A k \in DOMAIN held'[p] :
           k \in DOMAIN held[p] /\ held'[p][k] = held[p][k]
  BY <1>1, <1>2
<1>4. QED BY <1>1, <1>3 DEF HeldInv

LEMMA HeldNext == ASSUME PageAllocInv, HeldInv, [SpaceNext]_allvars PROVE HeldInv'
<1>1. CASE Allocate
  BY <1>1, AllocateHeld
<1>2. CASE Release
  BY <1>2, ReleaseHeld
<1>3. CASE GuardStack
  BY <1>3, GuardHeld
<1>4. CASE Return
  BY <1>4, ReturnHeld
<1>5. CASE UNCHANGED <<live, held>>
  BY <1>5 DEF HeldInv
<1>6. CASE SkipTable \/ Panic \/ Elsewhere \/ UNCHANGED allvars
  BY <1>5, <1>6 DEF SkipTable, Panic, OutOfFrames, Elsewhere, allvars, local, vars
<1>7. ASSUME NEW p \in Procs, SystemCall(p) PROVE UNCHANGED <<live, held>>
  <2>1. CASE \E n \in 1 .. HEAP_TOP : sys_sbrk(p, n)
    BY <2>1 DEF sys_sbrk, Handle, vars
  <2>2. CASE sys_fork(p)
    BY <2>2 DEF sys_fork, Handle, vars
  <2>3. CASE sys_exit(p)
    BY <2>3 DEF sys_exit, unload_process, Handle, NoHandler, vars
  <2>4. CASE \E c \in Procs : sys_waitpid(p, c)
    BY <2>4 DEF sys_waitpid, unload_process, Handle, NoHandler, vars
  <2>5. ASSUME NEW g \in DOMAIN Programs, NEW argc \in ArgCounts, NEW envc \in ArgCounts,
               NEW outcome \in {"ok", "noexec", "nofile"}, sys_execve(p, g, argc, envc, outcome)
        PROVE  UNCHANGED <<live, held>>
    BY <2>5 DEF sys_execve, Handle, vars
  <2>6. QED BY <1>7, <2>1, <2>2, <2>3, <2>4, <2>5 DEF SystemCall
<1>8. ASSUME NEW p \in Procs, NEW u \in StorePages, Store(p, u) PROVE UNCHANGED <<live, held>>
  BY <1>8 DEF Store, vars
<1>9. QED BY <1>1, <1>2, <1>3, <1>4, <1>5, <1>6, <1>7, <1>8 DEF SpaceNext

(* Every block that a PCB or a handler points to is allocated and pointed to  *)
(* from one place only.                                                       *)
THEOREM HeldInvariant == SpaceSpec => []HeldInv
<1>1. SpaceInit => HeldInv
  BY DEF SpaceInit, HeldInv, Nothing
<1>2. PageAllocInv /\ HeldInv /\ [SpaceNext]_allvars => HeldInv'
  BY HeldNext
<1>3. QED BY <1>1, <1>2, SpacePageAllocInv, PTL DEF SpaceSpec

(* "Isolated Processes": for every number of processes, programs and frames,  *)
(* no frame is mapped twice by user page tables.                              *)
THEOREM ProcessesIsolated == SpaceSpec => []Isolated
<1>1. ASSUME PageAllocInv, HeldInv PROVE Isolated
  <2>1. SUFFICES ASSUME NEW a \in Mappings, NEW c \in Mappings,
                        walkupt(a[1], a[2]).pfn = walkupt(c[1], c[2]).pfn
                 PROVE  a = c
    BY DEF Isolated
  <2> DEFINE A == walkupt(a[1], a[2])
             C == walkupt(c[1], c[2])
  <2>2. \A m \in Mappings : /\ m[1] \in DOMAIN held /\ <<"page", m[2]>> \in DOMAIN held[m[1]]
                            /\ m = <<m[1], m[2]>> /\ IsDma(<<"page", m[2]>>)
    BY <1>1 DEF Mappings, HeldInv, IsDma
  <2>3. A \in live /\ C \in live /\ A.kind = "dma" /\ C.kind = "dma"
    BY <1>1, <2>2 DEF HeldInv, walkupt
  <2>4. A.vpn \in Nat /\ A.size \in Nat \ {0} /\ C.vpn \in Nat /\ C.size \in Nat \ {0}
        /\ A.pfn \in Nat /\ C.pfn \in Nat
    BY <1>1, <2>3, Facts DEF BlockSet
  <2> HIDE DEF A, C
  <2>5. A.vpn \in PagesOf(A) /\ C.vpn \in PagesOf(C)
    BY <2>4 DEF PagesOf
  <2>6. /\ A.vpn \in DOMAIN pt /\ pt[A.vpn] = A.pfn + (A.vpn - A.vpn)
        /\ C.vpn \in DOMAIN pt /\ pt[C.vpn] = C.pfn + (C.vpn - C.vpn)
    BY <1>1, <2>3, <2>5 DEF PageAllocInv, DmaContiguous, Contiguous
  <2>7. A.pfn = C.pfn
    BY <2>1 DEF A, C
  <2>8. A.vpn = C.vpn
    BY <1>1, <2>4, <2>6, <2>7 DEF PageAllocInv, FramesOwnedOnce
  <2>9. A = C
    BY <1>1, <2>3, <2>4, <2>8 DEF PageAllocInv, BlocksDisjoint, Disjoint
  <2>10. a[1] = c[1] /\ <<"page", a[2]>> = <<"page", c[2]>>
    BY <1>1, <2>2, <2>9 DEF HeldInv, walkupt, A, C
  <2>11. QED BY <2>2, <2>10
<1>2. QED BY <1>1, SpacePageAllocInv, HeldInvariant, PTL
=============================================================================
