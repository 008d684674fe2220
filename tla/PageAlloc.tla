------------------------------ MODULE PageAlloc ------------------------------
(* The frame and page allocators of kernel/pagetable.c.                      *)
(*                                                                            *)
(* dmalloc hands out pages whose frames are contiguous and remembered by the  *)
(* caller; kalloc hands out pages of the managed space and forgets their      *)
(* frames.  Both keep first-fit lists whose nodes lie in the free pages       *)
(* themselves and otherwise grow their region, one ptmap per page.  ptmap may *)
(* need frames of its own, for page tables, in the middle of an allocation:   *)
(* therefore each ptmap is a step here, although no other call can run in     *)
(* between (call).  pfree has no caller, so pfreelist is always empty and is  *)
(* left out.                                                                  *)
EXTENDS Integers, Sequences, FiniteSets

CONSTANTS FAN,        \* entries of a page table (512 in the code)
          ekernel,    \* first frame behind the kernel and its boot tables
          max_pfn,    \* frames of the machine
          DMA0,       \* first page of the unmanaged space, ptbrk at boot
          K0,         \* first page of the managed space, kbrk at boot
          MaxPages    \* bound: pages of one request

ASSUME PageAllocAssumption ==
  /\ FAN \in Nat \ {0}
  /\ ekernel \in Nat \ {0} /\ max_pfn \in Nat /\ ekernel <= max_pfn
  /\ DMA0 \in Nat /\ K0 \in Nat /\ MaxPages \in Nat \ {0}
  /\ DMA0 + max_pfn <= K0   \* the unmanaged space ends before the managed one

VARIABLES pfn_start,   \* frames below are claimed
          ptbrk, kbrk, \* ends of the two spaces, in pages
          ptfreelist,  \* free blocks of the unmanaged space, head first
          vfreelist,   \* free blocks of the managed space, head first
          pt,          \* the valid leaf entries of the kernel page table
          tables,      \* frames of its inner tables
          live,        \* blocks in the hands of callers
          call,        \* the allocation that is being mapped
          panicked

vars == <<pfn_start, ptbrk, kbrk, ptfreelist, vfreelist, pt, tables, live, call, panicked>>

(* A block of pages.  A "dma" block knows its first frame.  A "k" block has   *)
(* pfn 0, unless its first page is an unmapped guard page: then pfn is the    *)
(* frame that ptunmap returned and the PCB keeps.                             *)
Block(kind, vpn, pfn, size) == [kind |-> kind, vpn |-> vpn, pfn |-> pfn, size |-> size]
PagesOf(b) == b.vpn .. b.vpn + b.size - 1
Idle == [op |-> "idle", vpn |-> 0, pfn |-> 0, size |-> 0, i |-> 0]
Sizes == 1 .. MaxPages

Init ==
  /\ pfn_start = ekernel /\ ptbrk = DMA0 /\ kbrk = K0
  /\ ptfreelist = <<>> /\ vfreelist = <<>>
  /\ pt = [v \in {} |-> 0] /\ tables = [t \in {} |-> 0]
  /\ live = {} /\ call = Idle /\ panicked = FALSE

Ready == call.op = "idle" /\ ~panicked

-----------------------------------------------------------------------------
(* The kernel page table.  next is the first frame that is not yet claimed.   *)
Table2(v) == <<2, v \div (FAN * FAN)>>
Table1(v) == <<1, v \div FAN>>
New(t) == IF t \in DOMAIN tables THEN 0 ELSE 1
TableFrames(v) == New(Table2(v)) + New(Table1(v))

ptmap(v, pfn, next) ==
  /\ next + TableFrames(v) <= max_pfn
  /\ pfn_start' = next + TableFrames(v)
  /\ tables' = [t \in DOMAIN tables \cup {Table2(v), Table1(v)} |->
                  IF t \in DOMAIN tables THEN tables[t]
                  ELSE IF t = Table2(v) THEN next ELSE next + New(Table2(v))]
  /\ pt' = [w \in DOMAIN pt \cup {v} |-> IF w = v THEN pfn ELSE pt[w]]

ptunmap(v) == pt' = [w \in DOMAIN pt \ {v} |-> pt[w]]

-----------------------------------------------------------------------------
(* First fit.                                                                 *)
Fits(list, n) == {k \in DOMAIN list : list[k].size >= n}
IsFirstFit(list, n, k) == k \in Fits(list, n) /\ \A j \in Fits(list, n) : k <= j

MutKeepsFrame(b, n) == Block(b.kind, b.vpn + n, b.pfn, b.size - n)
MutOverlaps(b, n) ==
  Block(b.kind, b.vpn + n - 1, IF b.kind = "dma" THEN b.pfn + n - 1 ELSE b.pfn, b.size - n)
(* The node of what is left of block b when n pages are cut off its front.    *)
Rest(b, n) ==
  Block(b.kind, b.vpn + n, IF b.kind = "dma" THEN b.pfn + n ELSE b.pfn, b.size - n)
Without(list, k) == [i \in 1 .. Len(list) - 1 |-> IF i < k THEN list[i] ELSE list[i + 1]]
MutDropsRest(list, k, n) == Without(list, k)
Take(list, k, n) ==
  IF list[k].size = n THEN Without(list, k)
  ELSE [list EXCEPT ![k] = Rest(list[k], n)]

MutFromBack(list, k, n) ==
  Block(list[k].kind, list[k].vpn + list[k].size - n, list[k].pfn, n)
Fit(list, k, n) == Block(list[k].kind, list[k].vpn, list[k].pfn, n)

-----------------------------------------------------------------------------
DmallocFit(n) ==
  /\ Ready
  /\ \E k \in DOMAIN ptfreelist :
       /\ IsFirstFit(ptfreelist, n, k)
       /\ ptfreelist' = Take(ptfreelist, k, n)
       /\ live' = live \cup {Fit(ptfreelist, k, n)}
  /\ UNCHANGED <<pfn_start, ptbrk, kbrk, vfreelist, pt, tables, call, panicked>>

(* The frames are claimed here, before the first ptmap.                       *)
DmallocGrow(n) ==
  /\ Ready /\ Fits(ptfreelist, n) = {}
  /\ pfn_start + n <= max_pfn
  /\ ptbrk' = ptbrk + n
  /\ pfn_start' = pfn_start + n
  /\ call' = [op |-> "dmalloc", vpn |-> ptbrk, pfn |-> pfn_start, size |-> n, i |-> 0]
  /\ UNCHANGED <<kbrk, ptfreelist, vfreelist, pt, tables, live, panicked>>

(* One iteration of a mapping loop is over: the last one returns the block.   *)
Mapped(kind) ==
  IF call.i + 1 = call.size
  THEN /\ call' = Idle
       /\ live' = live \cup {Block(kind, call.vpn, call.pfn, call.size)}
  ELSE /\ call' = [call EXCEPT !.i = @ + 1]
       /\ live' = live

DmallocMap ==
  /\ call.op = "dmalloc" /\ ~panicked
  /\ ptmap(call.vpn + call.i, call.pfn + call.i, pfn_start)
  /\ Mapped("dma")
  /\ UNCHANGED <<ptbrk, kbrk, ptfreelist, vfreelist, panicked>>

dmafree(b) ==
  /\ Ready /\ b \in live /\ b.kind = "dma"
  /\ ptfreelist' = <<b>> \o ptfreelist
  /\ live' = live \ {b}
  /\ UNCHANGED <<pfn_start, ptbrk, kbrk, vfreelist, pt, tables, call, panicked>>

KallocFit(n) ==
  /\ Ready
  /\ \E k \in DOMAIN vfreelist :
       /\ IsFirstFit(vfreelist, n, k)
       /\ vfreelist' = Take(vfreelist, k, n)
       /\ live' = live \cup {Fit(vfreelist, k, n)}
  /\ UNCHANGED <<pfn_start, ptbrk, kbrk, ptfreelist, pt, tables, call, panicked>>

KallocGrow(n) ==
  /\ Ready /\ Fits(vfreelist, n) = {}
  /\ call' = [op |-> "kalloc", vpn |-> kbrk, pfn |-> 0, size |-> n, i |-> 0]
  /\ UNCHANGED <<pfn_start, ptbrk, kbrk, ptfreelist, vfreelist, pt, tables, live, panicked>>

MutTablesFirst ==
  /\ call.op = "kalloc" /\ ~panicked
  /\ ptmap(kbrk, pfn_start, pfn_start)
  /\ kbrk' = kbrk + 1
  /\ Mapped("k")
  /\ UNCHANGED <<ptbrk, ptfreelist, vfreelist, panicked>>

(* palloc_ptr claims a frame and maps it at kbrk, which then moves.           *)
KallocMap ==
  /\ call.op = "kalloc" /\ ~panicked
  /\ ptmap(kbrk, pfn_start, pfn_start + 1)
  /\ kbrk' = kbrk + 1
  /\ Mapped("k")
  /\ UNCHANGED <<ptbrk, ptfreelist, vfreelist, panicked>>

kfree(b) ==
  /\ Ready /\ b \in live /\ b.kind = "k" /\ b.pfn = 0
  /\ vfreelist' = <<b>> \o vfreelist
  /\ live' = live \ {b}
  /\ UNCHANGED <<pfn_start, ptbrk, kbrk, ptfreelist, pt, tables, call, panicked>>

MutForgetsFrame(b) ==
  /\ Ready /\ b \in live /\ b.kind = "k" /\ b.pfn = 0 /\ b.size > 1
  /\ ptunmap(b.vpn)
  /\ UNCHANGED <<live, pfn_start, ptbrk, kbrk, ptfreelist, vfreelist, tables, call, panicked>>

(* load_process and sys_fork unmap the guard page of a new kernel stack ...   *)
Guard(b) ==
  /\ Ready /\ b \in live /\ b.kind = "k" /\ b.pfn = 0 /\ b.size > 1
  /\ ptunmap(b.vpn)
  /\ live' = (live \ {b}) \cup {Block("k", b.vpn, pt[b.vpn], b.size)}
  /\ UNCHANGED <<pfn_start, ptbrk, kbrk, ptfreelist, vfreelist, tables, call, panicked>>

(* ... and free_process_space maps it again before it frees the stack.        *)
FreeStack(b) ==
  /\ Ready /\ b \in live /\ b.kind = "k" /\ b.pfn # 0
  /\ ptmap(b.vpn, b.pfn, pfn_start)
  /\ vfreelist' = <<Block("k", b.vpn, 0, b.size)>> \o vfreelist
  /\ live' = live \ {b}
  /\ UNCHANGED <<ptbrk, kbrk, ptfreelist, call, panicked>>

(* palloc, palloc_ptr and dmalloc find no frame left ...                      *)
NoFrames(n) == Fits(ptfreelist, n) = {} /\ pfn_start + n > max_pfn
NoTableFrames ==
  \/ call.op = "dmalloc" /\ pfn_start + TableFrames(call.vpn + call.i) > max_pfn
  \/ call.op = "kalloc" /\ pfn_start + 1 + TableFrames(kbrk) > max_pfn

(* ... and panic("cannot allocate more pages"): the machine stops.            *)
OutOfFrames ==
  /\ ~panicked
  /\ (Ready /\ \E n \in Sizes : NoFrames(n)) \/ NoTableFrames
  /\ panicked' = TRUE
  /\ UNCHANGED <<pfn_start, ptbrk, kbrk, ptfreelist, vfreelist, pt, tables, live, call>>

Halted == panicked /\ UNCHANGED vars

Next ==
  \/ \E n \in Sizes : DmallocFit(n) \/ DmallocGrow(n) \/ KallocFit(n) \/ KallocGrow(n)
  \/ DmallocMap \/ KallocMap
  \/ \E b \in live : dmafree(b) \/ kfree(b) \/ Guard(b) \/ FreeStack(b)
  \/ OutOfFrames \/ Halted

Spec == Init /\ [][Next]_vars

-----------------------------------------------------------------------------
BlockSet(kind) == [kind : {kind}, vpn : Nat, pfn : Nat, size : Nat \ {0}]

TypeOK ==
  /\ pfn_start \in ekernel .. max_pfn
  /\ ptbrk \in DMA0 .. DMA0 + (pfn_start - ekernel) /\ kbrk \in Nat /\ kbrk >= K0
  /\ ptfreelist \in Seq(BlockSet("dma")) /\ vfreelist \in Seq(BlockSet("k"))
  /\ live \subseteq BlockSet("dma") \cup BlockSet("k")
  /\ pt \in [DOMAIN pt -> Nat] /\ DOMAIN pt \subseteq (DMA0 .. ptbrk - 1) \cup (K0 .. kbrk - 1)
  /\ tables \in [DOMAIN tables -> Nat]
  /\ call \in [op : {"idle", "dmalloc", "kalloc"}, vpn : Nat, pfn : Nat, size : Nat, i : Nat]
  /\ panicked \in BOOLEAN

(* Frames that a PCB keeps for an unmapped guard page.                        *)
Guarded == {b \in live : b.kind = "k" /\ b.pfn # 0}

(* No frame is used twice: neither by two pages of the kernel, nor by a page  *)
(* and a page table or a guard page, whatever ptmap claims for page tables in *)
(* the middle of dmalloc and kalloc.                                          *)
FramesOwnedOnce ==
  /\ \A v, w \in DOMAIN pt : pt[v] = pt[w] => v = w
  /\ \A t, u \in DOMAIN tables : tables[t] = tables[u] => t = u
  /\ \A b, c \in Guarded : b.pfn = c.pfn => b = c
  /\ \A v \in DOMAIN pt, t \in DOMAIN tables : pt[v] # tables[t]
  /\ \A b \in Guarded : (\A v \in DOMAIN pt : b.pfn # pt[v])
                      /\ (\A t \in DOMAIN tables : b.pfn # tables[t])

(* The block is mapped on the contiguous frames that start at its pfn.        *)
Contiguous(b) == \A p \in PagesOf(b) : p \in DOMAIN pt /\ pt[p] = b.pfn + (p - b.vpn)

(* What dmalloc returns is physically contiguous, as devices and user page    *)
(* tables assume, also after blocks were split and reused.                    *)
DmaContiguous ==
  /\ \A b \in live : b.kind = "dma" => Contiguous(b)
  /\ \A k \in DOMAIN ptfreelist : Contiguous(ptfreelist[k])

(* dmafree, kfree and the splits write list nodes into free pages, and kalloc *)
(* clears what it returns: a free page is mapped, a guard page never free.    *)
FreePagesMapped == \A k \in DOMAIN vfreelist : PagesOf(vfreelist[k]) \subseteq DOMAIN pt

Disjoint(b, c) == b.vpn + b.size <= c.vpn \/ c.vpn + c.size <= b.vpn

(* No page is in the hands of two callers, in two free blocks, or both free   *)
(* and in use.                                                                *)
BlocksDisjoint ==
  /\ \A b, c \in live : b = c \/ Disjoint(b, c)
  /\ \A j, k \in DOMAIN ptfreelist : j = k \/ Disjoint(ptfreelist[j], ptfreelist[k])
  /\ \A j, k \in DOMAIN vfreelist : j = k \/ Disjoint(vfreelist[j], vfreelist[k])
  /\ \A b \in live : /\ \A k \in DOMAIN ptfreelist : Disjoint(b, ptfreelist[k])
                     /\ \A k \in DOMAIN vfreelist : Disjoint(b, vfreelist[k])

(* Splitting and reuse lose no page: each page below ptbrk and kbrk is free,  *)
(* in use or part of the allocation under way.                                *)
NoPageLost ==
  \A p \in (DMA0 .. ptbrk - 1) \cup (K0 .. kbrk - 1) :
    \/ \E b \in live : p \in PagesOf(b)
    \/ \E k \in DOMAIN ptfreelist : p \in PagesOf(ptfreelist[k])
    \/ \E k \in DOMAIN vfreelist : p \in PagesOf(vfreelist[k])
    \/ call.op # "idle" /\ p \in PagesOf(call)

(* What the proofs need besides: every frame in use is claimed, blocks lie    *)
(* below the part that is being mapped, and that part is nobody else's yet.   *)
FramesClaimed ==
  /\ \A v \in DOMAIN pt : pt[v] \in ekernel .. pfn_start - 1
  /\ \A t \in DOMAIN tables : tables[t] \in ekernel .. pfn_start - 1
  /\ \A b \in Guarded : b.pfn \in ekernel .. pfn_start - 1

DmaTop == IF call.op = "dmalloc" THEN call.vpn ELSE ptbrk
KTop == IF call.op = "kalloc" THEN call.vpn ELSE kbrk
Within(b, lo, hi) == lo <= b.vpn /\ b.vpn + b.size <= hi

SpaceBounds ==
  /\ \A b \in live : IF b.kind = "dma" THEN Within(b, DMA0, DmaTop) ELSE Within(b, K0, KTop)
  /\ \A k \in DOMAIN ptfreelist : Within(ptfreelist[k], DMA0, DmaTop)
  /\ \A k \in DOMAIN vfreelist : Within(vfreelist[k], K0, KTop) /\ vfreelist[k].pfn = 0

LivePagesMapped ==
  \A b \in live : b.kind = "k" =>
    \A p \in PagesOf(b) : (p = b.vpn /\ b.pfn # 0) \/ p \in DOMAIN pt

CallInv ==
  /\ call.op = "dmalloc" =>
       /\ call.i < call.size /\ DMA0 <= call.vpn /\ call.vpn + call.size = ptbrk
       /\ ekernel <= call.pfn /\ call.pfn + call.size <= pfn_start
       /\ \A j \in 0 .. call.i - 1 : /\ call.vpn + j \in DOMAIN pt
                                     /\ pt[call.vpn + j] = call.pfn + j
       /\ \A j \in call.i .. call.size - 1 :
            /\ \A v \in DOMAIN pt : pt[v] # call.pfn + j
            /\ \A t \in DOMAIN tables : tables[t] # call.pfn + j
            /\ \A b \in Guarded : b.pfn # call.pfn + j
  /\ call.op = "kalloc" =>
       /\ call.i < call.size /\ K0 <= call.vpn /\ call.vpn + call.i = kbrk /\ call.pfn = 0
       /\ \A j \in 0 .. call.i - 1 : call.vpn + j \in DOMAIN pt

(* The inductive invariant.                                                   *)
PageAllocInv ==
  /\ TypeOK /\ FramesClaimed /\ FramesOwnedOnce /\ SpaceBounds /\ BlocksDisjoint
  /\ DmaContiguous /\ FreePagesMapped /\ LivePagesMapped /\ CallInv
=============================================================================
