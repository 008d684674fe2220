---------------------------- MODULE PageLossProofs ----------------------------
(* The allocators of PageAlloc lose no page, for every size of the machine    *)
(* and every sequence of requests.                                            *)
EXTENDS PageAllocProofs

(* Page p is in use, free, or part of the allocation under way.               *)
Kept(p) ==
  \/ \E b \in live : p \in PagesOf(b)
  \/ \E k \in DOMAIN ptfreelist : p \in PagesOf(ptfreelist[k])
  \/ \E k \in DOMAIN vfreelist : p \in PagesOf(vfreelist[k])
  \/ call.op # "idle" /\ p \in PagesOf(call)

Managed == (DMA0 .. ptbrk - 1) \cup (K0 .. kbrk - 1)

(* Each page of a list from which a block is cut is in that block or stays in *)
(* the list.                                                                  *)
LEMMA TakeCovers ==
  ASSUME NEW kind \in {"dma", "k"}, NEW list \in Seq(BlockSet(kind)),
         NEW k \in DOMAIN list, NEW n \in Nat \ {0}, list[k].size >= n,
         NEW j \in DOMAIN list, NEW p \in PagesOf(list[j])
  PROVE  \/ p \in PagesOf(Fit(list, k, n))
         \/ \E i \in DOMAIN Take(list, k, n) : p \in PagesOf(Take(list, k, n)[i])
<1> DEFINE L == Take(list, k, n)
<1>1. /\ list[j] \in BlockSet(kind) /\ list[k] \in BlockSet(kind)
      /\ Len(list) \in Nat /\ DOMAIN list = 1 .. Len(list)
      /\ k \in 1 .. Len(list) /\ j \in 1 .. Len(list)
  OBVIOUS
<1>2. /\ list[k].vpn \in Nat /\ list[k].size \in Nat /\ p \in Int
      /\ PagesOf(Fit(list, k, n)) = list[k].vpn .. list[k].vpn + n - 1
  BY <1>1 DEF BlockSet, Fit, Block, PagesOf
<1>3. CASE list[k].size = n
  <2>1. L = [i \in 1 .. Len(list) - 1 |-> IF i < k THEN list[i] ELSE list[i + 1]]
    BY <1>3 DEF Take, Without
  <2>2. CASE j = k
    BY <1>2, <1>3, <2>2 DEF PagesOf
  <2>3. CASE j < k
    <3>1. j \in 1 .. Len(list) - 1 /\ L[j] = list[j]
      BY <1>1, <2>1, <2>3
    <3>2. QED BY <2>1, <3>1
  <2>4. CASE j > k
    <3>1. j - 1 \in 1 .. Len(list) - 1 /\ L[j - 1] = list[j]
      BY <1>1, <2>1, <2>4
    <3>2. QED BY <2>1, <3>1
  <2>5. QED BY <1>1, <2>2, <2>3, <2>4
<1>4. CASE list[k].size # n
  <2>1. L = [list EXCEPT ![k] = Rest(list[k], n)] /\ DOMAIN L = DOMAIN list
    BY <1>4 DEF Take
  <2>2. CASE j # k
    BY <2>1, <2>2
  <2>3. CASE j = k
    <3>1. PagesOf(L[k]) = list[k].vpn + n .. list[k].vpn + n + (list[k].size - n) - 1
      BY <2>1 DEF Rest, Block, PagesOf
    <3>2. p \in list[k].vpn .. list[k].vpn + list[k].size - 1
      BY <2>3 DEF PagesOf
    <3> DEFINE v == list[k].vpn
               s == list[k].size
    <3>3. p \in v .. v + n - 1 \/ p \in v + n .. v + n + (s - n) - 1
      <4>1. v \in Nat /\ s \in Nat /\ p \in v .. v + s - 1
        BY <1>2, <3>2
      <4> HIDE DEF v, s
      <4>2. QED BY <4>1
    <3>4. QED BY <1>2, <2>1, <3>1, <3>3
  <2>4. QED BY <2>2, <2>3
<1>5. QED BY <1>3, <1>4

(* No call takes a page out of sight.                                         *)
LEMMA StepKeeps == ASSUME PageAllocInv, Next, NEW p \in Int, Kept(p) PROVE Kept(p)'
<1>1. ASSUME NEW n \in Sizes, DmallocFit(n) PROVE Kept(p)'
  <2>1. PICK k \in DOMAIN ptfreelist :
          /\ ptfreelist[k].size >= n
          /\ ptfreelist' = Take(ptfreelist, k, n)
          /\ live' = live \cup {Fit(ptfreelist, k, n)}
    BY <1>1 DEF DmallocFit, IsFirstFit, Fits
  <2>2. n \in Nat \ {0} /\ ptfreelist \in Seq(BlockSet("dma")) /\ UNCHANGED <<vfreelist, call>>
    BY <1>1, Facts, PageAllocAssumption DEF Sizes, DmallocFit
  <2>3. CASE \E j \in DOMAIN ptfreelist : p \in PagesOf(ptfreelist[j])
    BY <2>1, <2>2, <2>3, TakeCovers DEF Kept
  <2>4. QED BY <2>1, <2>2, <2>3 DEF Kept
<1>2. ASSUME NEW n \in Sizes, KallocFit(n) PROVE Kept(p)'
  <2>1. PICK k \in DOMAIN vfreelist :
          /\ vfreelist[k].size >= n
          /\ vfreelist' = Take(vfreelist, k, n)
          /\ live' = live \cup {Fit(vfreelist, k, n)}
    BY <1>2 DEF KallocFit, IsFirstFit, Fits
  <2>2. n \in Nat \ {0} /\ vfreelist \in Seq(BlockSet("k")) /\ UNCHANGED <<ptfreelist, call>>
    BY <1>2, Facts, PageAllocAssumption DEF Sizes, KallocFit
  <2>3. CASE \E j \in DOMAIN vfreelist : p \in PagesOf(vfreelist[j])
    BY <2>1, <2>2, <2>3, TakeCovers DEF Kept
  <2>4. QED BY <2>1, <2>2, <2>3 DEF Kept
<1>3. ASSUME NEW n \in Sizes, DmallocGrow(n) \/ KallocGrow(n) PROVE Kept(p)'
  BY <1>3 DEF Kept, DmallocGrow, KallocGrow, Ready
<1>4. CASE DmallocMap \/ KallocMap
  <2>1. /\ Mapped("dma") \/ Mapped("k")
        /\ UNCHANGED <<ptfreelist, vfreelist>>
        /\ call.op # "idle"
    BY <1>4 DEF DmallocMap, KallocMap
  <2>2. live \subseteq live'
    BY <2>1 DEF Mapped
  <2>3. CASE p \in PagesOf(call)
    <3>1. CASE call.i + 1 = call.size
      <4>1. PICK kind : Block(kind, call.vpn, call.pfn, call.size) \in live'
        BY <2>1, <3>1 DEF Mapped
      <4>2. PagesOf(Block(kind, call.vpn, call.pfn, call.size)) = PagesOf(call)
        BY DEF Block, PagesOf
      <4>3. QED BY <2>3, <4>1, <4>2 DEF Kept
    <3>2. CASE call.i + 1 # call.size
      <4>1. call' = [call EXCEPT !.i = @ + 1]
        BY <2>1, <3>2 DEF Mapped
      <4>2. call'.op = call.op /\ call'.vpn = call.vpn /\ call'.size = call.size
        BY <4>1 DEF PageAllocInv, TypeOK
      <4>3. QED BY <2>1, <2>3, <4>2 DEF Kept, PagesOf
    <3>3. QED BY <3>1, <3>2
  <2>4. QED BY <2>1, <2>2, <2>3 DEF Kept
<1>5. ASSUME NEW b \in live, dmafree(b) PROVE Kept(p)'
  <2>1. /\ ptfreelist' = <<b>> \o ptfreelist /\ live' = live \ {b}
        /\ UNCHANGED <<vfreelist, call>> /\ b \in BlockSet("dma")
        /\ ptfreelist \in Seq(BlockSet("dma"))
    BY <1>5, Facts DEF dmafree
  <2>2. /\ 1 \in DOMAIN ptfreelist' /\ ptfreelist'[1] = b
        /\ \A i \in DOMAIN ptfreelist :
             i + 1 \in DOMAIN ptfreelist' /\ ptfreelist'[i + 1] = ptfreelist[i]
    BY <2>1
  <2>3. QED BY <2>1, <2>2 DEF Kept
<1>6. ASSUME NEW b \in live, kfree(b) \/ FreeStack(b) PROVE Kept(p)'
  <2>1. PICK c \in {b, Block("k", b.vpn, 0, b.size)} :
          /\ vfreelist' = <<c>> \o vfreelist /\ live' = live \ {b}
          /\ UNCHANGED <<ptfreelist, call>>
    BY <1>6 DEF kfree, FreeStack
  <2>2. c \in BlockSet("k") /\ PagesOf(c) = PagesOf(b) /\ vfreelist \in Seq(BlockSet("k"))
    <3>1. b \in BlockSet("k") /\ vfreelist \in Seq(BlockSet("k"))
      BY <1>6, Facts DEF kfree, FreeStack
    <3>2. Block("k", b.vpn, 0, b.size) \in BlockSet("k")
      BY <3>1 DEF BlockSet, Block
    <3>3. PagesOf(Block("k", b.vpn, 0, b.size)) = PagesOf(b)
      BY DEF Block, PagesOf
    <3>4. QED BY <2>1, <3>1, <3>2, <3>3
  <2>3. /\ 1 \in DOMAIN vfreelist' /\ vfreelist'[1] = c
        /\ \A i \in DOMAIN vfreelist :
             i + 1 \in DOMAIN vfreelist' /\ vfreelist'[i + 1] = vfreelist[i]
    BY <2>1, <2>2
  <2>4. QED BY <2>1, <2>2, <2>3 DEF Kept
<1>7. ASSUME NEW b \in live, Guard(b) PROVE Kept(p)'
  <2>1. /\ live' = (live \ {b}) \cup {Block("k", b.vpn, pt[b.vpn], b.size)}
        /\ UNCHANGED <<ptfreelist, vfreelist, call>>
    BY <1>7 DEF Guard
  <2>2. PagesOf(Block("k", b.vpn, pt[b.vpn], b.size)) = PagesOf(b)
    BY DEF Block, PagesOf
  <2>3. QED BY <2>1, <2>2 DEF Kept
<1>8. CASE OutOfFrames \/ Halted
  BY <1>8 DEF Kept, OutOfFrames, Halted, vars
<1>9. QED BY <1>1, <1>2, <1>3, <1>4, <1>5, <1>6, <1>7, <1>8 DEF Next

(* A page that a space grows by belongs to the allocation that grows it.      *)
LEMMA GrownKept ==
  ASSUME PageAllocInv, Next, NEW p \in Managed', p \notin Managed
  PROVE  Kept(p)'
<1>1. ASSUME NEW n \in Sizes, DmallocGrow(n) PROVE Kept(p)'
  <2>1. /\ n \in Nat \ {0} /\ ptbrk \in Nat /\ DMA0 \in Nat /\ K0 \in Nat /\ kbrk' = kbrk
        /\ ptbrk' = ptbrk + n /\ call'.vpn = ptbrk /\ call'.size = n /\ call'.op = "dmalloc"
    BY <1>1, Facts, PageAllocAssumption DEF Sizes, DmallocGrow
  <2>2. p \in ptbrk .. ptbrk + n - 1
    BY <2>1 DEF Managed
  <2>3. QED BY <2>1, <2>2 DEF Kept, PagesOf
<1>2. CASE KallocMap
  <2>1. /\ kbrk' = kbrk + 1 /\ ptbrk' = ptbrk /\ kbrk \in Nat /\ K0 \in Nat
        /\ call.vpn \in Nat /\ call.i \in Nat /\ call.size \in Nat
        /\ call.vpn + call.i = kbrk /\ call.i < call.size /\ call.op = "kalloc"
        /\ Mapped("k")
    BY <1>2, Facts DEF KallocMap, PageAllocInv, CallInv
  <2>2. p = kbrk
    BY <2>1 DEF Managed
  <2>3. p \in PagesOf(call)
    BY <2>1, <2>2 DEF PagesOf
  <2>4. p \in Int /\ Kept(p)
    BY <2>1, <2>2, <2>3 DEF Kept
  <2>5. QED BY <2>4, StepKeeps
<1>3. CASE UNCHANGED <<ptbrk, kbrk>>
  BY <1>3 DEF Managed
<1>4. QED
  BY <1>1, <1>2, <1>3 DEF Next, DmallocFit, KallocFit, KallocGrow, DmallocMap, dmafree, kfree,
     Guard, FreeStack, OutOfFrames, Halted, vars

(* Splits, reuse and guard pages lose no page of the two spaces: what is      *)
(* below ptbrk and kbrk (pagetable.c) stays with a caller or in a free list.  *)
THEOREM PagesNeverLost == Spec => []NoPageLost
<1>1. NoPageLost <=> \A p \in Managed : Kept(p)
  BY DEF NoPageLost, Managed, Kept
<1>2. Init => NoPageLost
  BY PageAllocAssumption DEF Init, NoPageLost
<1>3. PageAllocInv /\ NoPageLost /\ [Next]_vars => NoPageLost'
  <2>1. SUFFICES ASSUME PageAllocInv, NoPageLost, [Next]_vars PROVE NoPageLost'
    OBVIOUS
  <2>2. CASE UNCHANGED vars
    BY <2>1, <2>2 DEF NoPageLost, vars
  <2>3. CASE Next
    <3>1. ASSUME NEW p \in Managed' PROVE Kept(p)'
      <4>1. p \in Int
        BY <3>1 DEF Managed
      <4>2. QED BY <1>1, <2>1, <2>3, <4>1, StepKeeps, GrownKept
    <3>2. QED BY <3>1 DEF NoPageLost, Managed, Kept
  <2>4. QED BY <2>1, <2>2, <2>3
<1>4. QED BY <1>2, <1>3, PageAllocInvariant, PTL DEF Spec
===============================================================================
