--------------------------- MODULE PageAllocProofs ---------------------------
(* Proofs about PageAlloc: no frame and no page has two owners, and what      *)
(* dmalloc returns is contiguous, for every size of the machine and of page   *)
(* tables.                                                                    *)
EXTENDS PageAlloc, TLAPS

-----------------------------------------------------------------------------
(* Lists.                                                                     *)

(* The position in list of the node that Take leaves at position i.           *)
Origin(list, k, n, i) == IF list[k].size = n /\ i >= k THEN i + 1 ELSE i

(* c is a part of block b that lies on the matching part of its frames.       *)
Part(c, b) ==
  /\ c.kind = b.kind /\ b.vpn <= c.vpn /\ c.vpn + c.size <= b.vpn + b.size
  /\ b.kind = "dma" => c.pfn = b.pfn + (c.vpn - b.vpn)
  /\ b.kind # "dma" => c.pfn = b.pfn

(* What is left in a list from which dmalloc or kalloc cut n pages off the    *)
(* node at k: each node is part of a node of its own of the old list, and     *)
(* none overlaps the pages that are returned.                                 *)
LEMMA TakeEffect ==
  ASSUME NEW kind \in {"dma", "k"}, NEW list \in Seq(BlockSet(kind)),
         NEW k \in DOMAIN list, NEW n \in Nat \ {0}, list[k].size >= n
  PROVE  /\ Take(list, k, n) \in Seq(BlockSet(kind))
         /\ Fit(list, k, n) \in BlockSet(kind)
         /\ Fit(list, k, n).size = n
         /\ Part(Fit(list, k, n), list[k])
         /\ \A i \in DOMAIN Take(list, k, n) :
              /\ Origin(list, k, n, i) \in DOMAIN list
              /\ Part(Take(list, k, n)[i], list[Origin(list, k, n, i)])
              /\ Origin(list, k, n, i) = k => Disjoint(Take(list, k, n)[i], Fit(list, k, n))
         /\ \A i, j \in DOMAIN Take(list, k, n) :
              Origin(list, k, n, i) = Origin(list, k, n, j) => i = j
<1> DEFINE L == Take(list, k, n)
           F == Fit(list, k, n)
<1>1. /\ list[k] \in BlockSet(kind) /\ Len(list) \in Nat /\ DOMAIN list = 1 .. Len(list)
      /\ k \in 1 .. Len(list)
  OBVIOUS
<1>2. /\ F = Block(kind, list[k].vpn, list[k].pfn, n)
      /\ F \in BlockSet(kind) /\ F.size = n /\ Part(F, list[k])
  BY <1>1 DEF Fit, BlockSet, Part, Block
<1>3. CASE list[k].size = n
  <2>1. /\ L = [i \in 1 .. Len(list) - 1 |-> IF i < k THEN list[i] ELSE list[i + 1]]
        /\ \A i \in 1 .. Len(list) - 1 : L[i] \in BlockSet(kind)
    BY <1>1, <1>3 DEF Take, Without
  <2>2. L \in Seq(BlockSet(kind)) /\ DOMAIN L = 1 .. Len(list) - 1
    BY <1>1, <2>1
  <2>3. \A i \in DOMAIN L : /\ Origin(list, k, n, i) \in DOMAIN list
                            /\ L[i] = list[Origin(list, k, n, i)]
                            /\ Origin(list, k, n, i) # k
    BY <1>1, <1>3, <2>1, <2>2 DEF Origin
  <2>4. \A b \in BlockSet(kind) : Part(b, b)
    BY DEF Part, BlockSet
  <2> HIDE DEF L, F
  <2>5. \A i, j \in DOMAIN L : Origin(list, k, n, i) = Origin(list, k, n, j) => i = j
    BY <1>1, <2>2 DEF Origin
  <2>6. QED BY <1>1, <1>2, <2>2, <2>3, <2>4, <2>5 DEF L, F
<1>4. CASE list[k].size # n
  <2>1. /\ L = [list EXCEPT ![k] = Rest(list[k], n)]
        /\ \A i \in DOMAIN list : Origin(list, k, n, i) = i
    BY <1>4 DEF Take, Origin
  <2>2. /\ Rest(list[k], n) \in BlockSet(kind)
        /\ Part(Rest(list[k], n), list[k])
        /\ Disjoint(Rest(list[k], n), F)
    <3> DEFINE b == list[k]
               R == Rest(b, n)
    <3>1. /\ b.kind = kind /\ b.vpn \in Nat /\ b.pfn \in Nat /\ b.size \in Nat
          /\ b.size > n /\ F.vpn = b.vpn /\ F.size = n
      BY <1>1, <1>2, <1>4 DEF BlockSet, Block
    <3>2. /\ R.kind = kind /\ R.vpn = b.vpn + n /\ R.size = b.size - n
          /\ R.pfn = IF kind = "dma" THEN b.pfn + n ELSE b.pfn
          /\ R = [kind |-> R.kind, vpn |-> R.vpn, pfn |-> R.pfn, size |-> R.size]
      BY <3>1 DEF Rest, Block
    <3> HIDE DEF b, R, F
    <3>3. R.vpn \in Nat /\ R.pfn \in Nat /\ R.size \in Nat \ {0}
      BY <3>1, <3>2
    <3>4. R \in BlockSet(kind)
      BY <3>2, <3>3 DEF BlockSet
    <3>5. Part(R, b) /\ Disjoint(R, F)
      BY <3>1, <3>2, <3>3 DEF Part, Disjoint
    <3>6. QED BY <3>4, <3>5 DEF R, b
  <2>3. L \in Seq(BlockSet(kind)) /\ DOMAIN L = DOMAIN list
    BY <1>1, <2>1, <2>2
  <2>4. \A b \in BlockSet(kind) : Part(b, b)
    BY DEF Part, BlockSet
  <2>5. \A i \in DOMAIN L : IF i = k THEN L[i] = Rest(list[k], n) ELSE L[i] = list[i]
    BY <2>1, <2>3
  <2>6. QED BY <1>1, <1>2, <2>1, <2>2, <2>3, <2>4, <2>5
<1>5. QED BY <1>3, <1>4

(* dmafree and kfree put the block at the head of the list.                   *)
LEMMA PushEffect ==
  ASSUME NEW S, NEW list \in Seq(S), NEW b \in S
  PROVE  /\ <<b>> \o list \in Seq(S)
         /\ DOMAIN (<<b>> \o list) = 1 .. Len(list) + 1
         /\ (<<b>> \o list)[1] = b
         /\ \A i \in 2 .. Len(list) + 1 : /\ i - 1 \in DOMAIN list
                                          /\ (<<b>> \o list)[i] = list[i - 1]
  OBVIOUS

(* Parts inherit what is known of the whole block.                            *)
LEMMA PartInherits ==
  ASSUME NEW kind \in {"dma", "k"}, NEW b \in BlockSet(kind), NEW c \in BlockSet(kind), Part(c, b)
  PROVE  /\ PagesOf(c) \subseteq PagesOf(b)
         /\ \A lo, hi \in Nat : Within(b, lo, hi) => Within(c, lo, hi)
         /\ kind = "dma" /\ Contiguous(b) => Contiguous(c)
         /\ \A other \in {"dma", "k"} : \A d \in BlockSet(other) :
              (Disjoint(b, d) => Disjoint(c, d)) /\ (Disjoint(d, b) => Disjoint(d, c))
<1>1. /\ b.vpn \in Nat /\ b.pfn \in Nat /\ b.size \in Nat /\ b.kind = kind
      /\ c.vpn \in Nat /\ c.pfn \in Nat /\ c.size \in Nat
      /\ b.vpn <= c.vpn /\ c.vpn + c.size <= b.vpn + b.size
      /\ kind = "dma" => c.pfn = b.pfn + (c.vpn - b.vpn)
  BY DEF Part, BlockSet
<1>2. PagesOf(c) \subseteq PagesOf(b)
  BY <1>1 DEF PagesOf
<1>3. \A lo, hi \in Nat : Within(b, lo, hi) => Within(c, lo, hi)
  BY <1>1 DEF Within
<1>4. ASSUME kind = "dma", Contiguous(b) PROVE Contiguous(c)
  BY <1>1, <1>2, <1>4 DEF Contiguous, PagesOf
<1>5. ASSUME NEW other \in {"dma", "k"}, NEW d \in BlockSet(other)
      PROVE  (Disjoint(b, d) => Disjoint(c, d)) /\ (Disjoint(d, b) => Disjoint(d, c))
  <2>1. d.vpn \in Nat /\ d.size \in Nat
    BY DEF BlockSet
  <2>2. QED BY <1>1, <2>1 DEF Disjoint
<1>6. QED BY <1>2, <1>3, <1>4, <1>5

(* Cutting a block out of a list of disjoint blocks keeps everything          *)
(* disjoint: the block, what stays in the list, and the blocks in use.        *)
LEMMA FitDisjoint ==
  ASSUME NEW kind \in {"dma", "k"}, NEW list \in Seq(BlockSet(kind)),
         NEW k \in DOMAIN list, NEW n \in Nat \ {0}, list[k].size >= n,
         \A i, j \in DOMAIN list : i = j \/ Disjoint(list[i], list[j]),
         NEW U, \A b \in U : b \in BlockSet(b.kind) /\ b.kind \in {"dma", "k"},
         \A b \in U : \A i \in DOMAIN list : Disjoint(b, list[i])
  PROVE  /\ \A i \in DOMAIN Take(list, k, n) : Disjoint(Fit(list, k, n), Take(list, k, n)[i])
         /\ \A i, j \in DOMAIN Take(list, k, n) :
              i = j \/ Disjoint(Take(list, k, n)[i], Take(list, k, n)[j])
         /\ \A b \in U : /\ Disjoint(b, Fit(list, k, n)) /\ Disjoint(Fit(list, k, n), b)
                         /\ \A i \in DOMAIN Take(list, k, n) : Disjoint(b, Take(list, k, n)[i])
<1> DEFINE L == Take(list, k, n)
           F == Fit(list, k, n)
           O(i) == Origin(list, k, n, i)
<1>1. /\ L \in Seq(BlockSet(kind)) /\ F \in BlockSet(kind) /\ Part(F, list[k])
      /\ \A i \in DOMAIN L : /\ O(i) \in DOMAIN list /\ Part(L[i], list[O(i)])
                             /\ O(i) = k => Disjoint(L[i], F)
      /\ \A i, j \in DOMAIN L : O(i) = O(j) => i = j
  BY TakeEffect
<1>2. /\ \A i \in DOMAIN L : L[i] \in BlockSet(kind)
      /\ \A i \in DOMAIN list : list[i] \in BlockSet(kind)
  BY <1>1
<1> HIDE DEF L, F, O
<1>3. \A i \in DOMAIN L : Disjoint(F, L[i])
  <2>1. TAKE i \in DOMAIN L
  <2>2. CASE O(i) = k
    BY <1>1, <2>2 DEF Disjoint
  <2>3. CASE O(i) # k
    <3>1. Disjoint(L[i], list[k])
      BY <1>1, <1>2, <2>3, PartInherits
    <3>2. Disjoint(L[i], F)
      BY <1>1, <1>2, <3>1, PartInherits
    <3>3. QED BY <3>2 DEF Disjoint
  <2>4. QED BY <2>2, <2>3
<1>4. \A i, j \in DOMAIN L : i = j \/ Disjoint(L[i], L[j])
  <2>1. SUFFICES ASSUME NEW i \in DOMAIN L, NEW j \in DOMAIN L, i # j
                 PROVE  Disjoint(L[i], L[j])
    OBVIOUS
  <2>2. Disjoint(L[i], list[O(j)])
    BY <1>1, <1>2, <2>1, PartInherits
  <2>3. QED BY <1>1, <1>2, <2>2, PartInherits
<1>5. \A b \in U : Disjoint(b, F) /\ \A i \in DOMAIN L : Disjoint(b, L[i])
  BY <1>1, <1>2, PartInherits
<1>6. \A b \in U : Disjoint(F, b)
  BY <1>5 DEF Disjoint
<1>7. QED BY <1>3, <1>4, <1>5, <1>6 DEF L, F

-----------------------------------------------------------------------------
(* What ptmap does to the page table and to the frames.                       *)
LEMMA PtmapEffect ==
  ASSUME NEW v, NEW pfn \in Nat, NEW next \in Nat, pfn_start \in Nat, next >= pfn_start,
         pt \in [DOMAIN pt -> Nat], tables \in [DOMAIN tables -> Nat], ptmap(v, pfn, next)
  PROVE  /\ pfn_start' \in next .. max_pfn
         /\ pt' \in [DOMAIN pt' -> Nat] /\ DOMAIN pt' = DOMAIN pt \cup {v}
         /\ pt'[v] = pfn /\ \A w \in DOMAIN pt : w # v => pt'[w] = pt[w]
         /\ tables' \in [DOMAIN tables' -> Nat] /\ DOMAIN tables \subseteq DOMAIN tables'
         /\ \A t \in DOMAIN tables : tables'[t] = tables[t]
         /\ \A t \in DOMAIN tables' \ DOMAIN tables : tables'[t] \in next .. pfn_start' - 1
         /\ \A t, u \in DOMAIN tables' \ DOMAIN tables : tables'[t] = tables'[u] => t = u
<1>1. New(Table2(v)) \in {0, 1} /\ New(Table1(v)) \in {0, 1} /\ Table1(v) # Table2(v)
  BY DEF New, Table1, Table2
<1>2. pfn_start' = next + New(Table2(v)) + New(Table1(v)) /\ pfn_start' <= max_pfn
  BY <1>1 DEF ptmap, TableFrames
<1>3. /\ pt' = [w \in DOMAIN pt \cup {v} |-> IF w = v THEN pfn ELSE pt[w]]
      /\ tables' = [t \in DOMAIN tables \cup {Table2(v), Table1(v)} |->
                      IF t \in DOMAIN tables THEN tables[t]
                      ELSE IF t = Table2(v) THEN next ELSE next + New(Table2(v))]
  BY DEF ptmap
<1>4. \A t \in DOMAIN tables' \ DOMAIN tables :
        /\ t = Table2(v) => New(t) = 1 /\ tables'[t] = next
        /\ t # Table2(v) => t = Table1(v) /\ New(t) = 1 /\ tables'[t] = next + New(Table2(v))
  BY <1>3 DEF New
<1>5. \A t \in DOMAIN tables' \ DOMAIN tables : tables'[t] \in next .. pfn_start' - 1
  BY <1>1, <1>2, <1>4
<1>6. \A t, u \in DOMAIN tables' \ DOMAIN tables : tables'[t] = tables'[u] => t = u
  BY <1>1, <1>4
<1>7. \A t \in DOMAIN tables : t \in DOMAIN tables' /\ tables'[t] = tables[t]
  BY <1>3
<1>8. tables' \in [DOMAIN tables' -> Nat]
  BY <1>1, <1>3
<1>9. QED BY <1>1, <1>2, <1>3, <1>5, <1>6, <1>7, <1>8, PageAllocAssumption

-----------------------------------------------------------------------------
(* One lemma per action: it preserves the invariant.                          *)
LEMMA InitInv == ASSUME Init PROVE PageAllocInv
<1>1. TypeOK
  <2>1. /\ pfn_start \in ekernel .. max_pfn
        /\ ptbrk \in DMA0 .. DMA0 + (pfn_start - ekernel) /\ kbrk \in Nat /\ kbrk >= K0
    BY PageAllocAssumption DEF Init
  <2>2. ptfreelist \in Seq(BlockSet("dma")) /\ vfreelist \in Seq(BlockSet("k"))
    BY DEF Init
  <2>3. /\ pt \in [DOMAIN pt -> Nat] /\ DOMAIN pt = {} /\ tables \in [DOMAIN tables -> Nat]
        /\ live = {} /\ panicked = FALSE
    BY DEF Init
  <2>4. call \in [op : {"idle", "dmalloc", "kalloc"}, vpn : Nat, pfn : Nat, size : Nat, i : Nat]
    BY DEF Init, Idle
  <2>5. QED BY <2>1, <2>2, <2>3, <2>4 DEF TypeOK
<1>2. /\ DOMAIN pt = {} /\ DOMAIN tables = {} /\ live = {} /\ call.op = "idle"
      /\ DOMAIN ptfreelist = {} /\ DOMAIN vfreelist = {}
  BY DEF Init, Idle
<1>3. QED
  BY <1>1, <1>2 DEF PageAllocInv, FramesClaimed, FramesOwnedOnce, SpaceBounds, BlocksDisjoint,
     DmaContiguous, FreePagesMapped, LivePagesMapped, CallInv, Guarded

(* What the type invariant says, in the form the steps below use; the two     *)
(* spaces lie apart.                                                          *)
LEMMA Facts ==
  ASSUME PageAllocInv
  PROVE  /\ pfn_start \in Nat /\ ptbrk \in Nat /\ kbrk \in Nat /\ DMA0 \in Nat /\ K0 \in Nat
         /\ ekernel \in Nat \ {0} /\ max_pfn \in Nat /\ ekernel <= pfn_start /\ pfn_start <= max_pfn
         /\ call.op \in {"idle", "dmalloc", "kalloc"}
         /\ call.vpn \in Nat /\ call.pfn \in Nat /\ call.size \in Nat /\ call.i \in Nat
         /\ DmaTop \in Nat /\ KTop \in Nat /\ DmaTop <= ptbrk /\ ptbrk <= K0 /\ KTop <= kbrk
         /\ ptfreelist \in Seq(BlockSet("dma")) /\ vfreelist \in Seq(BlockSet("k"))
         /\ \A i \in DOMAIN ptfreelist : ptfreelist[i] \in BlockSet("dma")
         /\ \A i \in DOMAIN vfreelist : vfreelist[i] \in BlockSet("k")
         /\ \A b \in live : b \in BlockSet(b.kind) /\ b.kind \in {"dma", "k"}
<1>1. /\ pfn_start \in ekernel .. max_pfn /\ ptbrk \in DMA0 .. DMA0 + (pfn_start - ekernel)
      /\ kbrk \in Nat /\ ptfreelist \in Seq(BlockSet("dma")) /\ vfreelist \in Seq(BlockSet("k"))
      /\ live \subseteq BlockSet("dma") \cup BlockSet("k")
      /\ call \in [op : {"idle", "dmalloc", "kalloc"}, vpn : Nat, pfn : Nat, size : Nat, i : Nat]
  BY DEF PageAllocInv, TypeOK
<1>2. /\ pfn_start \in Nat /\ ptbrk \in Nat /\ DMA0 \in Nat /\ K0 \in Nat /\ ptbrk <= K0
      /\ ekernel \in Nat \ {0} /\ max_pfn \in Nat /\ ekernel <= pfn_start /\ pfn_start <= max_pfn
  BY <1>1, PageAllocAssumption
<1>3. /\ call.op \in {"idle", "dmalloc", "kalloc"}
      /\ call.vpn \in Nat /\ call.pfn \in Nat /\ call.size \in Nat /\ call.i \in Nat
  BY <1>1
<1>4. DmaTop \in Nat /\ KTop \in Nat /\ DmaTop <= ptbrk /\ KTop <= kbrk
  BY <1>1, <1>2, <1>3 DEF DmaTop, KTop, PageAllocInv, CallInv
<1>5. \A b \in live : b \in BlockSet(b.kind) /\ b.kind \in {"dma", "k"}
  BY <1>1 DEF BlockSet
<1>6. /\ \A i \in DOMAIN ptfreelist : ptfreelist[i] \in BlockSet("dma")
      /\ \A i \in DOMAIN vfreelist : vfreelist[i] \in BlockSet("k")
  BY <1>1
<1>7. QED BY <1>1, <1>2, <1>3, <1>4, <1>5, <1>6

(* A first fit, from either list.                                             *)
LEMMA DmallocFitInv == ASSUME PageAllocInv, NEW n \in Sizes, DmallocFit(n) PROVE PageAllocInv'
<1>1. PICK k \in DOMAIN ptfreelist :
        /\ ptfreelist[k].size >= n
        /\ ptfreelist' = Take(ptfreelist, k, n)
        /\ live' = live \cup {Fit(ptfreelist, k, n)}
  BY DEF DmallocFit, IsFirstFit, Fits
<1>2. UNCHANGED <<pfn_start, ptbrk, kbrk, vfreelist, pt, tables, call, panicked>>
  BY DEF DmallocFit
<1> DEFINE L == Take(ptfreelist, k, n)
           F == Fit(ptfreelist, k, n)
           O(i) == Origin(ptfreelist, k, n, i)
<1>3. n \in Nat \ {0} /\ ptfreelist \in Seq(BlockSet("dma")) /\ vfreelist \in Seq(BlockSet("k"))
  <2>1. n \in Nat \ {0}
    BY PageAllocAssumption DEF Sizes
  <2>2. QED BY <2>1, Facts
<1>4. /\ L \in Seq(BlockSet("dma")) /\ F \in BlockSet("dma") /\ Part(F, ptfreelist[k])
      /\ \A i \in DOMAIN L : /\ O(i) \in DOMAIN ptfreelist /\ Part(L[i], ptfreelist[O(i)])
                             /\ O(i) = k => Disjoint(L[i], F)
      /\ \A i, j \in DOMAIN L : O(i) = O(j) => i = j
  BY <1>1, <1>3, TakeEffect
<1>5. /\ \A i \in DOMAIN L : L[i] \in BlockSet("dma")
      /\ \A i \in DOMAIN ptfreelist : ptfreelist[i] \in BlockSet("dma")
      /\ \A i \in DOMAIN vfreelist : vfreelist[i] \in BlockSet("k")
      /\ \A b \in live : b \in BlockSet(b.kind) /\ b.kind \in {"dma", "k"}
  BY <1>3, <1>4, Facts
<1> HIDE DEF L, F, O
<1>6. live' = live \cup {F} /\ ptfreelist' = L
  BY <1>1 DEF L, F
<1>7. TypeOK'
  BY <1>2, <1>4, <1>6 DEF PageAllocInv, TypeOK
<1>8. Guarded' = Guarded
  BY <1>4, <1>6 DEF Guarded, BlockSet
<1>9. FramesClaimed' /\ FramesOwnedOnce' /\ CallInv'
  BY <1>2, <1>8 DEF PageAllocInv, FramesClaimed, FramesOwnedOnce, CallInv
<1>10. DmaTop \in Nat /\ DMA0 \in Nat /\ DmaTop' = DmaTop /\ KTop' = KTop
  BY <1>2, Facts DEF DmaTop, KTop
<1>11. Within(F, DMA0, DmaTop) /\ \A i \in DOMAIN L : Within(L[i], DMA0, DmaTop)
  BY <1>4, <1>5, <1>10, PartInherits DEF PageAllocInv, SpaceBounds
<1>12. SpaceBounds'
  BY <1>2, <1>4, <1>6, <1>10, <1>11 DEF PageAllocInv, SpaceBounds, BlockSet
<1>13. Contiguous(F) /\ \A i \in DOMAIN L : Contiguous(L[i])
  BY <1>4, <1>5, PartInherits DEF PageAllocInv, DmaContiguous
<1>14. DmaContiguous' /\ FreePagesMapped' /\ LivePagesMapped'
  BY <1>2, <1>4, <1>6, <1>13
     DEF PageAllocInv, DmaContiguous, FreePagesMapped, LivePagesMapped, Contiguous, BlockSet
<1>15. /\ \A i \in DOMAIN L : Disjoint(F, L[i])
       /\ \A i, j \in DOMAIN L : i = j \/ Disjoint(L[i], L[j])
       /\ \A b \in live : /\ Disjoint(b, F) /\ Disjoint(F, b)
                          /\ \A i \in DOMAIN L : Disjoint(b, L[i])
  BY <1>1, <1>3, <1>5, FitDisjoint DEF PageAllocInv, BlocksDisjoint, L, F
<1>16. \A i \in DOMAIN vfreelist : Disjoint(F, vfreelist[i])
  <2>1. F.vpn \in Nat /\ F.size \in Nat /\ F.vpn + F.size <= DmaTop
    BY <1>4, <1>11 DEF Within, BlockSet
  <2>2. \A i \in DOMAIN vfreelist : vfreelist[i].vpn \in Nat /\ K0 <= vfreelist[i].vpn
    BY <1>5 DEF BlockSet, PageAllocInv, SpaceBounds, Within
  <2>3. DmaTop \in Nat /\ K0 \in Nat /\ DmaTop <= K0
    BY Facts
  <2>4. QED BY <2>1, <2>2, <2>3 DEF Disjoint
<1>17. BlocksDisjoint'
  BY <1>2, <1>6, <1>15, <1>16 DEF PageAllocInv, BlocksDisjoint
<1>18. QED BY <1>7, <1>9, <1>12, <1>14, <1>17 DEF PageAllocInv

LEMMA KallocFitInv == ASSUME PageAllocInv, NEW n \in Sizes, KallocFit(n) PROVE PageAllocInv'
<1>1. PICK k \in DOMAIN vfreelist :
        /\ vfreelist[k].size >= n
        /\ vfreelist' = Take(vfreelist, k, n)
        /\ live' = live \cup {Fit(vfreelist, k, n)}
  BY DEF KallocFit, IsFirstFit, Fits
<1>2. UNCHANGED <<pfn_start, ptbrk, kbrk, ptfreelist, pt, tables, call, panicked>>
  BY DEF KallocFit
<1> DEFINE L == Take(vfreelist, k, n)
           F == Fit(vfreelist, k, n)
           O(i) == Origin(vfreelist, k, n, i)
<1>3. n \in Nat \ {0} /\ vfreelist \in Seq(BlockSet("k"))
  <2>1. n \in Nat \ {0}
    BY PageAllocAssumption DEF Sizes
  <2>2. QED BY <2>1, Facts
<1>4. /\ L \in Seq(BlockSet("k")) /\ F \in BlockSet("k") /\ Part(F, vfreelist[k])
      /\ \A i \in DOMAIN L : O(i) \in DOMAIN vfreelist /\ Part(L[i], vfreelist[O(i)])
  BY <1>1, <1>3, TakeEffect
<1>5. /\ \A i \in DOMAIN L : L[i] \in BlockSet("k")
      /\ \A i \in DOMAIN ptfreelist : ptfreelist[i] \in BlockSet("dma")
      /\ \A i \in DOMAIN vfreelist : vfreelist[i] \in BlockSet("k")
      /\ \A b \in live : b \in BlockSet(b.kind) /\ b.kind \in {"dma", "k"}
  BY <1>3, <1>4, Facts
<1>6. /\ \A i \in DOMAIN L : Disjoint(F, L[i])
      /\ \A i, j \in DOMAIN L : i = j \/ Disjoint(L[i], L[j])
      /\ \A b \in live : /\ Disjoint(b, F) /\ Disjoint(F, b)
                         /\ \A i \in DOMAIN L : Disjoint(b, L[i])
  BY <1>1, <1>3, <1>5, FitDisjoint DEF PageAllocInv, BlocksDisjoint
<1> HIDE DEF L, F, O
<1>7. live' = live \cup {F} /\ vfreelist' = L
  BY <1>1 DEF L, F
<1>8. TypeOK'
  BY <1>2, <1>4, <1>7 DEF PageAllocInv, TypeOK
<1>9. F.kind = "k" /\ F.pfn = 0 /\ \A i \in DOMAIN L : L[i].pfn = 0
  BY <1>4, <1>5 DEF Part, BlockSet, PageAllocInv, SpaceBounds
<1>10. Guarded' = Guarded
  BY <1>7, <1>9 DEF Guarded
<1>11. FramesClaimed' /\ FramesOwnedOnce' /\ CallInv'
  BY <1>2, <1>10 DEF PageAllocInv, FramesClaimed, FramesOwnedOnce, CallInv
<1>12. KTop \in Nat /\ K0 \in Nat /\ DmaTop' = DmaTop /\ KTop' = KTop
  BY <1>2, Facts DEF DmaTop, KTop
<1>13. Within(F, K0, KTop) /\ \A i \in DOMAIN L : Within(L[i], K0, KTop)
  BY <1>4, <1>5, <1>12, PartInherits DEF PageAllocInv, SpaceBounds
<1>14. SpaceBounds'
  BY <1>2, <1>7, <1>9, <1>12, <1>13 DEF PageAllocInv, SpaceBounds
<1>15. PagesOf(F) \subseteq DOMAIN pt /\ \A i \in DOMAIN L : PagesOf(L[i]) \subseteq DOMAIN pt
  <2>1. \A i \in DOMAIN vfreelist : PagesOf(vfreelist[i]) \subseteq DOMAIN pt
    BY DEF PageAllocInv, FreePagesMapped
  <2>2. PagesOf(F) \subseteq PagesOf(vfreelist[k])
    BY <1>4, <1>5, PartInherits
  <2>3. \A i \in DOMAIN L : PagesOf(L[i]) \subseteq PagesOf(vfreelist[O(i)])
    BY <1>4, <1>5, PartInherits
  <2>4. QED BY <1>4, <2>1, <2>2, <2>3
<1>16. FreePagesMapped' /\ LivePagesMapped'
  BY <1>2, <1>7, <1>15 DEF PageAllocInv, FreePagesMapped, LivePagesMapped
<1>17. DmaContiguous'
  BY <1>2, <1>7, <1>9 DEF PageAllocInv, DmaContiguous, Contiguous
<1>18. \A i \in DOMAIN ptfreelist : Disjoint(F, ptfreelist[i])
  <2>1. F.vpn \in Nat /\ K0 <= F.vpn
    BY <1>4, <1>13 DEF Within, BlockSet
  <2>2. \A i \in DOMAIN ptfreelist : /\ ptfreelist[i].vpn \in Nat /\ ptfreelist[i].size \in Nat
                                     /\ ptfreelist[i].vpn + ptfreelist[i].size <= DmaTop
    BY <1>5 DEF BlockSet, PageAllocInv, SpaceBounds, Within
  <2>3. DmaTop \in Nat /\ K0 \in Nat /\ DmaTop <= K0
    BY Facts
  <2>4. QED BY <2>1, <2>2, <2>3 DEF Disjoint
<1>19. BlocksDisjoint'
  BY <1>2, <1>6, <1>7, <1>18 DEF PageAllocInv, BlocksDisjoint
<1>20. QED BY <1>8, <1>11, <1>14, <1>16, <1>17, <1>19 DEF PageAllocInv

(* dmalloc claims its frames.                                                 *)
LEMMA DmallocGrowInv == ASSUME PageAllocInv, NEW n \in Sizes, DmallocGrow(n) PROVE PageAllocInv'
<1>1. n \in Nat \ {0}
  BY PageAllocAssumption DEF Sizes
<1>2. /\ call.op = "idle" /\ pfn_start + n <= max_pfn
      /\ ptbrk' = ptbrk + n /\ pfn_start' = pfn_start + n
      /\ call' = [op |-> "dmalloc", vpn |-> ptbrk, pfn |-> pfn_start, size |-> n, i |-> 0]
      /\ UNCHANGED <<kbrk, ptfreelist, vfreelist, pt, tables, live, panicked>>
  BY DEF DmallocGrow, Ready
<1>3. /\ pfn_start \in Nat /\ ptbrk \in Nat /\ DMA0 \in Nat /\ ekernel \in Nat /\ max_pfn \in Nat
      /\ ekernel <= pfn_start /\ DMA0 <= ptbrk /\ ptbrk <= DMA0 + (pfn_start - ekernel)
  BY Facts DEF PageAllocInv, TypeOK
<1>4. TypeOK'
  <2>1. /\ pfn_start' \in ekernel .. max_pfn
        /\ ptbrk' \in DMA0 .. DMA0 + (pfn_start' - ekernel)
    BY <1>1, <1>2, <1>3
  <2>2. DOMAIN pt \subseteq (DMA0 .. ptbrk' - 1) \cup (K0 .. kbrk - 1)
    <3>1. DOMAIN pt \subseteq (DMA0 .. ptbrk - 1) \cup (K0 .. kbrk - 1)
      BY DEF PageAllocInv, TypeOK
    <3>2. DMA0 .. ptbrk - 1 \subseteq DMA0 .. ptbrk' - 1
      BY <1>1, <1>2, <1>3
    <3>3. QED BY <3>1, <3>2
  <2>3. call' \in [op : {"idle", "dmalloc", "kalloc"}, vpn : Nat, pfn : Nat, size : Nat, i : Nat]
    BY <1>1, <1>2, <1>3
  <2>4. QED BY <1>2, <2>1, <2>2, <2>3 DEF PageAllocInv, TypeOK
<1>5. Guarded' = Guarded
  BY <1>2 DEF Guarded
<1>6. FramesClaimed'
  BY <1>1, <1>2, <1>3, <1>5 DEF PageAllocInv, FramesClaimed
<1>7. FramesOwnedOnce' /\ BlocksDisjoint' /\ FreePagesMapped' /\ LivePagesMapped' /\ DmaContiguous'
  BY <1>2, <1>5 DEF PageAllocInv, FramesOwnedOnce, BlocksDisjoint, FreePagesMapped,
     LivePagesMapped, DmaContiguous, Contiguous
<1>8. DmaTop' = DmaTop /\ KTop' = KTop
  BY <1>2 DEF DmaTop, KTop
<1>9. SpaceBounds'
  BY <1>2, <1>8 DEF PageAllocInv, SpaceBounds
<1>10. CallInv'
  <2>1. /\ \A v \in DOMAIN pt : pt[v] \in Nat /\ pt[v] < pfn_start
        /\ \A t \in DOMAIN tables : tables[t] \in Nat /\ tables[t] < pfn_start
        /\ \A b \in Guarded : b.pfn \in Nat /\ b.pfn < pfn_start
    BY <1>3 DEF PageAllocInv, FramesClaimed
  <2>2. QED BY <1>1, <1>2, <1>3, <1>5, <2>1 DEF CallInv
<1>11. QED BY <1>4, <1>6, <1>7, <1>9, <1>10 DEF PageAllocInv

LEMMA KallocGrowInv == ASSUME PageAllocInv, NEW n \in Sizes, KallocGrow(n) PROVE PageAllocInv'
<1>1. n \in Nat \ {0}
  BY PageAllocAssumption DEF Sizes
<1>2. /\ call.op = "idle"
      /\ call' = [op |-> "kalloc", vpn |-> kbrk, pfn |-> 0, size |-> n, i |-> 0]
      /\ UNCHANGED <<pfn_start, ptbrk, kbrk, ptfreelist, vfreelist, pt, tables, live, panicked>>
  BY DEF KallocGrow, Ready
<1>3. kbrk \in Nat /\ K0 \in Nat /\ K0 <= kbrk
  BY Facts DEF PageAllocInv, TypeOK
<1>4. TypeOK'
  <2>1. call' \in [op : {"idle", "dmalloc", "kalloc"}, vpn : Nat, pfn : Nat, size : Nat, i : Nat]
    BY <1>1, <1>2, <1>3
  <2>2. QED BY <1>2, <2>1 DEF PageAllocInv, TypeOK
<1>5. Guarded' = Guarded /\ DmaTop' = DmaTop /\ KTop' = KTop
  BY <1>2 DEF Guarded, DmaTop, KTop
<1>6. CallInv'
  BY <1>1, <1>2, <1>3 DEF CallInv
<1>7. QED
  BY <1>2, <1>4, <1>5, <1>6 DEF PageAllocInv, FramesClaimed, FramesOwnedOnce, SpaceBounds,
     BlocksDisjoint, FreePagesMapped, LivePagesMapped, DmaContiguous, Contiguous


(* A page is mapped on a claimed frame that nothing else uses.                *)
LEMMA MapFrames ==
  ASSUME PageAllocInv, NEW v, NEW pfn \in Nat, NEW next \in Nat, next >= pfn_start,
         ptmap(v, pfn, next), ekernel <= pfn, pfn < next,
         \A w \in DOMAIN pt : pt[w] # pfn, \A t \in DOMAIN tables : tables[t] # pfn,
         Guarded' \subseteq Guarded, \A b \in Guarded' : b.pfn # pfn
  PROVE  FramesClaimed' /\ FramesOwnedOnce'
<1>1. /\ pfn_start \in Nat /\ ekernel \in Nat /\ max_pfn \in Nat
      /\ pt \in [DOMAIN pt -> Nat] /\ tables \in [DOMAIN tables -> Nat] /\ ekernel <= pfn_start
  BY Facts DEF PageAllocInv, TypeOK
<1>2. /\ pfn_start' \in next .. max_pfn /\ DOMAIN pt' = DOMAIN pt \cup {v}
      /\ pt'[v] = pfn /\ \A w \in DOMAIN pt : w # v => pt'[w] = pt[w]
      /\ \A t \in DOMAIN tables : tables'[t] = tables[t]
      /\ \A t \in DOMAIN tables' \ DOMAIN tables : tables'[t] \in next .. pfn_start' - 1
      /\ \A t, u \in DOMAIN tables' \ DOMAIN tables : tables'[t] = tables'[u] => t = u
  BY <1>1, PtmapEffect
<1>3. /\ \A w \in DOMAIN pt : pt[w] \in ekernel .. pfn_start - 1
      /\ \A t \in DOMAIN tables : tables[t] \in ekernel .. pfn_start - 1
      /\ \A b \in Guarded : b.pfn \in ekernel .. pfn_start - 1
  BY DEF PageAllocInv, FramesClaimed
<1>4. pfn_start' \in Nat /\ next <= pfn_start' /\ pfn_start <= pfn_start'
  BY <1>1, <1>2
<1>5. \A w \in DOMAIN pt' : pt'[w] \in ekernel .. next - 1
  BY <1>1, <1>2, <1>3
<1>6. \A t \in DOMAIN tables' : /\ tables'[t] \in ekernel .. pfn_start' - 1
                                /\ t \notin DOMAIN tables => tables'[t] >= next
                                /\ t \in DOMAIN tables => tables'[t] < pfn_start
  BY <1>1, <1>2, <1>3, <1>4
<1>7. FramesClaimed'
  <2>1. \A w \in DOMAIN pt' : pt'[w] \in ekernel .. pfn_start' - 1
    BY <1>1, <1>4, <1>5
  <2>2. \A b \in Guarded' : b.pfn \in ekernel .. pfn_start' - 1
    BY <1>1, <1>3, <1>4
  <2>3. QED BY <1>6, <2>1, <2>2 DEF FramesClaimed
<1>8. \A w, x \in DOMAIN pt' : pt'[w] = pt'[x] => w = x
  BY <1>2 DEF PageAllocInv, FramesOwnedOnce
<1>9. \A t, u \in DOMAIN tables' : tables'[t] = tables'[u] => t = u
  <2>1. SUFFICES ASSUME NEW t \in DOMAIN tables', NEW u \in DOMAIN tables', tables'[t] = tables'[u]
                 PROVE  t = u
    OBVIOUS
  <2>2. CASE t \in DOMAIN tables /\ u \in DOMAIN tables
    BY <1>2, <2>1, <2>2 DEF PageAllocInv, FramesOwnedOnce
  <2>3. CASE t \notin DOMAIN tables /\ u \notin DOMAIN tables
    BY <1>2, <2>1, <2>3
  <2>4. (t \in DOMAIN tables) = (u \in DOMAIN tables)
    BY <1>1, <1>6, <2>1
  <2>5. QED BY <2>2, <2>3, <2>4
<1>10. \A w \in DOMAIN pt', t \in DOMAIN tables' : pt'[w] # tables'[t]
  <2>1. SUFFICES ASSUME NEW w \in DOMAIN pt', NEW t \in DOMAIN tables' PROVE pt'[w] # tables'[t]
    OBVIOUS
  <2>2. CASE t \notin DOMAIN tables
    BY <1>1, <1>5, <1>6, <2>2
  <2>3. CASE t \in DOMAIN tables
    BY <1>2, <2>3 DEF PageAllocInv, FramesOwnedOnce
  <2>4. QED BY <2>2, <2>3
<1>11. \A b, c \in Guarded' : b.pfn = c.pfn => b = c
  BY DEF PageAllocInv, FramesOwnedOnce
<1>12. \A b \in Guarded' : (\A w \in DOMAIN pt' : b.pfn # pt'[w])
                         /\ (\A t \in DOMAIN tables' : b.pfn # tables'[t])
  <2>1. TAKE b \in Guarded'
  <2>2. \A w \in DOMAIN pt' : b.pfn # pt'[w]
    BY <1>2 DEF PageAllocInv, FramesOwnedOnce
  <2>3. \A t \in DOMAIN tables' \ DOMAIN tables : b.pfn # tables'[t]
    BY <1>1, <1>3, <1>6
  <2>4. \A t \in DOMAIN tables : b.pfn # tables'[t]
    BY <1>2 DEF PageAllocInv, FramesOwnedOnce
  <2>5. QED BY <2>2, <2>3, <2>4
<1>13. QED BY <1>7, <1>8, <1>9, <1>10, <1>11, <1>12 DEF FramesOwnedOnce

(* Mapping a page outside of a contiguous block leaves it contiguous.         *)
LEMMA ContiguousKept ==
  ASSUME PageAllocInv, NEW v, NEW pfn \in Nat, NEW next \in Nat, next >= pfn_start,
         ptmap(v, pfn, next), NEW b, Contiguous(b), v \notin PagesOf(b)
  PROVE  Contiguous(b)'
<1>1. pfn_start \in Nat /\ pt \in [DOMAIN pt -> Nat] /\ tables \in [DOMAIN tables -> Nat]
  BY Facts DEF PageAllocInv, TypeOK
<1>2. DOMAIN pt' = DOMAIN pt \cup {v} /\ \A w \in DOMAIN pt : w # v => pt'[w] = pt[w]
  BY <1>1, PtmapEffect
<1>3. QED BY <1>2 DEF Contiguous, PagesOf


LEMMA DmallocMapInv == ASSUME PageAllocInv, DmallocMap PROVE PageAllocInv'
<1> DEFINE v == call.vpn + call.i
           B == Block("dma", call.vpn, call.pfn, call.size)
           last == call.i + 1 = call.size
<1>1. /\ call.op = "dmalloc" /\ ptmap(v, call.pfn + call.i, pfn_start)
      /\ UNCHANGED <<ptbrk, kbrk, ptfreelist, vfreelist, panicked>>
      /\ last => call' = Idle /\ live' = live \cup {B}
      /\ ~last => call' = [call EXCEPT !.i = @ + 1] /\ live' = live
  BY DEF DmallocMap, Mapped
<1>2. /\ pfn_start \in Nat /\ ptbrk \in Nat /\ kbrk \in Nat /\ DMA0 \in Nat /\ K0 \in Nat
      /\ ekernel \in Nat /\ max_pfn \in Nat /\ ekernel <= pfn_start /\ ptbrk <= K0
      /\ pt \in [DOMAIN pt -> Nat] /\ tables \in [DOMAIN tables -> Nat]
      /\ ptbrk \in DMA0 .. DMA0 + (pfn_start - ekernel) /\ kbrk >= K0
  BY Facts DEF PageAllocInv, TypeOK
<1>3. /\ call \in [op : {"idle", "dmalloc", "kalloc"}, vpn : Nat, pfn : Nat, size : Nat, i : Nat]
      /\ call.vpn \in Nat /\ call.pfn \in Nat /\ call.size \in Nat /\ call.i \in Nat
  BY DEF PageAllocInv, TypeOK
<1>4. /\ call.i < call.size /\ DMA0 <= call.vpn /\ call.vpn + call.size = ptbrk
      /\ ekernel <= call.pfn /\ call.pfn + call.size <= pfn_start
      /\ \A j \in 0 .. call.i - 1 : /\ call.vpn + j \in DOMAIN pt
                                    /\ pt[call.vpn + j] = call.pfn + j
      /\ \A j \in call.i .. call.size - 1 :
           /\ \A w \in DOMAIN pt : pt[w] # call.pfn + j
           /\ \A t \in DOMAIN tables : tables[t] # call.pfn + j
           /\ \A b \in Guarded : b.pfn # call.pfn + j
  BY <1>1 DEF PageAllocInv, CallInv
<1>5. /\ v \in Nat /\ call.pfn + call.i \in Nat /\ call.pfn + call.i < pfn_start
      /\ v < ptbrk /\ call.vpn <= v /\ ekernel <= call.pfn + call.i
      /\ call.i \in call.i .. call.size - 1 /\ pfn_start >= pfn_start
  BY <1>2, <1>3, <1>4
<1> HIDE DEF v
<1>6. /\ pfn_start' \in pfn_start .. max_pfn
      /\ pt' \in [DOMAIN pt' -> Nat] /\ DOMAIN pt' = DOMAIN pt \cup {v}
      /\ pt'[v] = call.pfn + call.i /\ \A w \in DOMAIN pt : w # v => pt'[w] = pt[w]
      /\ tables' \in [DOMAIN tables' -> Nat] /\ DOMAIN tables \subseteq DOMAIN tables'
      /\ \A t \in DOMAIN tables : tables'[t] = tables[t]
      /\ \A t \in DOMAIN tables' \ DOMAIN tables : tables'[t] \in pfn_start .. pfn_start' - 1
  BY <1>1, <1>2, <1>5, PtmapEffect
<1>7. B \in BlockSet("dma") /\ B.kind = "dma" /\ B.vpn = call.vpn /\ B.pfn = call.pfn
      /\ B.size = call.size
  BY <1>3, <1>4 DEF B, Block, BlockSet
<1> HIDE DEF B
<1>8. TypeOK'
  <2>1. /\ pfn_start' \in ekernel .. max_pfn
        /\ ptbrk \in DMA0 .. DMA0 + (pfn_start' - ekernel)
    BY <1>2, <1>6
  <2>2. v \in DMA0 .. ptbrk - 1
    BY <1>2, <1>3, <1>4, <1>5 DEF v
  <2>3. DOMAIN pt' \subseteq (DMA0 .. ptbrk - 1) \cup (K0 .. kbrk - 1)
    BY <1>6, <2>2 DEF PageAllocInv, TypeOK
  <2>4. call' \in [op : {"idle", "dmalloc", "kalloc"}, vpn : Nat, pfn : Nat, size : Nat, i : Nat]
    BY <1>1, <1>3 DEF Idle
  <2>5. live' \subseteq BlockSet("dma") \cup BlockSet("k")
    BY <1>1, <1>7 DEF PageAllocInv, TypeOK
  <2>6. ptbrk' \in DMA0 .. DMA0 + (pfn_start' - ekernel) /\ kbrk' \in Nat /\ kbrk' >= K0
    BY <1>1, <1>2, <2>1
  <2>7. ptfreelist' \in Seq(BlockSet("dma")) /\ vfreelist' \in Seq(BlockSet("k"))
        /\ panicked' \in BOOLEAN
    BY <1>1 DEF PageAllocInv, TypeOK
  <2>8. QED BY <1>1, <1>6, <2>1, <2>3, <2>4, <2>5, <2>6, <2>7 DEF TypeOK
<1>9. Guarded' = Guarded
  BY <1>1, <1>7 DEF Guarded
<1>10. FramesClaimed' /\ FramesOwnedOnce'
  BY <1>1, <1>2, <1>4, <1>5, <1>9, MapFrames
<1>11. /\ DmaTop = call.vpn /\ KTop = kbrk /\ KTop' = kbrk
       /\ last => DmaTop' = ptbrk
       /\ ~last => DmaTop' = call.vpn
       /\ DmaTop' \in Nat /\ DmaTop <= DmaTop'
  <2>1. /\ last => call'.op = "idle"
        /\ ~last => call'.op = "dmalloc" /\ call'.vpn = call.vpn
    BY <1>1, <1>3 DEF Idle
  <2>2. QED BY <1>1, <1>2, <1>3, <1>4, <2>1 DEF DmaTop, KTop
<1>12. SpaceBounds'
  <2>1. \A b \in live : b.vpn \in Nat /\ b.size \in Nat
    BY DEF PageAllocInv, TypeOK, BlockSet
  <2>2. \A b \in live' : IF b.kind = "dma" THEN Within(b, DMA0, DmaTop') ELSE Within(b, K0, KTop')
    BY <1>1, <1>2, <1>3, <1>4, <1>7, <1>11, <2>1 DEF PageAllocInv, SpaceBounds, Within
  <2>3. \A k \in DOMAIN ptfreelist : ptfreelist[k].vpn \in Nat /\ ptfreelist[k].size \in Nat
    BY Facts DEF BlockSet
  <2>4. \A k \in DOMAIN ptfreelist : Within(ptfreelist[k], DMA0, DmaTop')
    BY <1>2, <1>3, <1>11, <2>3 DEF PageAllocInv, SpaceBounds, Within
  <2>5. QED BY <1>1, <1>11, <2>2, <2>4 DEF PageAllocInv, SpaceBounds
<1>13. FreePagesMapped' /\ LivePagesMapped'
  BY <1>1, <1>6, <1>7 DEF PageAllocInv, FreePagesMapped, LivePagesMapped
<1>14. \A b \in live \cup {ptfreelist[k] : k \in DOMAIN ptfreelist} :
         b.kind = "dma" => /\ b.vpn \in Nat /\ b.size \in Nat /\ b.vpn + b.size <= call.vpn
                           /\ Contiguous(b)
  <2>1. \A b \in live : b.vpn \in Nat /\ b.size \in Nat
    BY DEF PageAllocInv, TypeOK, BlockSet
  <2>2. \A k \in DOMAIN ptfreelist : ptfreelist[k].vpn \in Nat /\ ptfreelist[k].size \in Nat
    BY Facts DEF BlockSet
  <2>3. \A k \in DOMAIN ptfreelist : ptfreelist[k].vpn + ptfreelist[k].size <= call.vpn
    BY <1>11 DEF PageAllocInv, SpaceBounds, Within
  <2>4. \A b \in live : b.kind = "dma" => b.vpn + b.size <= call.vpn
    BY <1>11 DEF PageAllocInv, SpaceBounds, Within
  <2>5. QED BY <2>1, <2>2, <2>3, <2>4 DEF PageAllocInv, DmaContiguous
<1>15. \A b \in live \cup {ptfreelist[k] : k \in DOMAIN ptfreelist} :
         b.kind = "dma" => Contiguous(b)'
  <2>1. \A b \in live \cup {ptfreelist[k] : k \in DOMAIN ptfreelist} :
          b.kind = "dma" => v \notin PagesOf(b)
    BY <1>3, <1>5, <1>14 DEF PagesOf
  <2>2. QED BY <1>1, <1>2, <1>5, <1>14, <2>1, ContiguousKept
<1>16. last => \A b \in {B} : Contiguous(b)'
  <2>1. SUFFICES ASSUME last, NEW b \in {B}, NEW p \in PagesOf(b)
                 PROVE  p \in DOMAIN pt' /\ pt'[p] = b.pfn + (p - b.vpn)
    BY DEF Contiguous, PagesOf
  <2>2. p \in call.vpn .. call.vpn + call.i /\ v = call.vpn + call.i
        /\ b.vpn = call.vpn /\ b.pfn = call.pfn
    BY <1>3, <1>7, <2>1 DEF PagesOf, v
  <2>3. CASE p = v
    BY <1>3, <1>6, <2>2, <2>3
  <2>4. CASE p # v
    <3>1. p - call.vpn \in 0 .. call.i - 1 /\ call.vpn + (p - call.vpn) = p
      BY <1>3, <2>2, <2>4
    <3>2. QED BY <1>4, <1>6, <2>2, <2>4, <3>1
  <2>5. QED BY <2>3, <2>4
<1>17. DmaContiguous'
  <2>1. \A k \in DOMAIN ptfreelist : ptfreelist[k].kind = "dma"
    BY Facts DEF BlockSet
  <2>2. \A k \in DOMAIN ptfreelist : \A b \in {ptfreelist[k]} : Contiguous(b)'
    BY <1>15, <2>1
  <2>3. \A b \in live' : b.kind = "dma" => Contiguous(b)'
    BY <1>1, <1>15, <1>16
  <2>4. QED BY <1>1, <2>2, <2>3 DEF DmaContiguous, Contiguous, PagesOf
<1>18. BlocksDisjoint'
  <2>1. /\ \A b \in live : b.vpn \in Nat /\ b.size \in Nat
        /\ \A k \in DOMAIN ptfreelist : ptfreelist[k].vpn \in Nat /\ ptfreelist[k].size \in Nat
        /\ \A k \in DOMAIN vfreelist : vfreelist[k].vpn \in Nat /\ vfreelist[k].size \in Nat
    BY Facts DEF BlockSet, PageAllocInv, TypeOK
  <2>2. \A b \in live : Disjoint(b, B) /\ Disjoint(B, b)
    BY <1>2, <1>3, <1>4, <1>7, <1>11, <2>1 DEF PageAllocInv, SpaceBounds, Within, Disjoint
  <2>3. \A k \in DOMAIN ptfreelist : Disjoint(B, ptfreelist[k])
    BY <1>7, <1>11 DEF PageAllocInv, SpaceBounds, Within, Disjoint
  <2>4. \A k \in DOMAIN vfreelist : Disjoint(B, vfreelist[k])
    BY <1>2, <1>3, <1>4, <1>7, <2>1 DEF PageAllocInv, SpaceBounds, Within, Disjoint
  <2>5. QED BY <1>1, <2>2, <2>3, <2>4 DEF PageAllocInv, BlocksDisjoint
<1>19. CallInv'
  <2>1. CASE last
    BY <1>1, <2>1 DEF CallInv, Idle
  <2>2. CASE ~last
    <3>1. /\ call'.op = "dmalloc" /\ call'.vpn = call.vpn /\ call'.pfn = call.pfn
          /\ call'.size = call.size /\ call'.i = call.i + 1
      BY <1>1, <1>3, <2>2
    <3>2. call.i + 1 < call.size /\ call.pfn + call.size <= pfn_start'
      BY <1>2, <1>3, <1>4, <1>6, <2>2
    <3>3. ASSUME NEW j \in 0 .. call.i
          PROVE  call.vpn + j \in DOMAIN pt' /\ pt'[call.vpn + j] = call.pfn + j
      <4>1. CASE j = call.i
        BY <1>6, <4>1 DEF v
      <4>2. CASE j # call.i
        <5>1. j \in 0 .. call.i - 1 /\ call.vpn + j # v
          BY <1>3, <4>2 DEF v
        <5>2. QED BY <1>4, <1>6, <5>1
      <4>3. QED BY <4>1, <4>2
    <3>4. ASSUME NEW j \in call.i + 1 .. call.size - 1
          PROVE  /\ \A w \in DOMAIN pt' : pt'[w] # call.pfn + j
                 /\ \A t \in DOMAIN tables' : tables'[t] # call.pfn + j
                 /\ \A b \in Guarded' : b.pfn # call.pfn + j
      <4>1. /\ j \in call.i .. call.size - 1 /\ call.pfn + j # call.pfn + call.i
            /\ call.pfn + j < pfn_start
        BY <1>2, <1>3, <1>4
      <4>2. \A t \in DOMAIN tables' \ DOMAIN tables : tables'[t] # call.pfn + j
        BY <1>2, <1>3, <1>6, <4>1
      <4>3. \A t \in DOMAIN tables' : tables'[t] # call.pfn + j
        BY <1>4, <1>6, <4>1, <4>2
      <4>4. QED BY <1>4, <1>6, <1>9, <4>1, <4>3
    <3>5. 0 .. (call.i + 1) - 1 = 0 .. call.i
      BY <1>3
    <3>6. QED BY <1>1, <1>4, <3>1, <3>2, <3>3, <3>4, <3>5 DEF CallInv
  <2>3. QED BY <2>1, <2>2
<1>20. QED BY <1>8, <1>10, <1>12, <1>13, <1>17, <1>18, <1>19 DEF PageAllocInv


LEMMA KallocMapInv == ASSUME PageAllocInv, KallocMap PROVE PageAllocInv'
<1> DEFINE B == Block("k", call.vpn, call.pfn, call.size)
           last == call.i + 1 = call.size
<1>1. /\ call.op = "kalloc" /\ ptmap(kbrk, pfn_start, pfn_start + 1) /\ kbrk' = kbrk + 1
      /\ UNCHANGED <<ptbrk, ptfreelist, vfreelist, panicked>>
      /\ last => call' = Idle /\ live' = live \cup {B}
      /\ ~last => call' = [call EXCEPT !.i = @ + 1] /\ live' = live
  BY DEF KallocMap, Mapped
<1>2. /\ pfn_start \in Nat /\ ptbrk \in Nat /\ kbrk \in Nat /\ DMA0 \in Nat /\ K0 \in Nat
      /\ ekernel \in Nat /\ max_pfn \in Nat /\ ekernel <= pfn_start /\ ptbrk <= K0
      /\ pt \in [DOMAIN pt -> Nat] /\ tables \in [DOMAIN tables -> Nat]
      /\ ptbrk \in DMA0 .. DMA0 + (pfn_start - ekernel) /\ kbrk >= K0
  BY Facts DEF PageAllocInv, TypeOK
<1>3. /\ call \in [op : {"idle", "dmalloc", "kalloc"}, vpn : Nat, pfn : Nat, size : Nat, i : Nat]
      /\ call.vpn \in Nat /\ call.pfn \in Nat /\ call.size \in Nat /\ call.i \in Nat
  BY DEF PageAllocInv, TypeOK
<1>4. /\ call.i < call.size /\ K0 <= call.vpn /\ call.vpn + call.i = kbrk /\ call.pfn = 0
      /\ \A j \in 0 .. call.i - 1 : call.vpn + j \in DOMAIN pt
  BY <1>1 DEF PageAllocInv, CallInv
<1>5. pfn_start + 1 \in Nat /\ pfn_start + 1 >= pfn_start /\ pfn_start < pfn_start + 1
  BY <1>2
<1>6. /\ pfn_start' \in pfn_start + 1 .. max_pfn
      /\ pt' \in [DOMAIN pt' -> Nat] /\ DOMAIN pt' = DOMAIN pt \cup {kbrk}
      /\ tables' \in [DOMAIN tables' -> Nat]
  BY <1>1, <1>2, <1>5, PtmapEffect
<1>7. B \in BlockSet("k") /\ B.kind = "k" /\ B.vpn = call.vpn /\ B.pfn = 0 /\ B.size = call.size
  BY <1>3, <1>4 DEF Block, BlockSet
<1> HIDE DEF B
<1>8. TypeOK'
  <2>1. /\ pfn_start' \in ekernel .. max_pfn /\ kbrk' \in Nat /\ kbrk' >= K0
        /\ ptbrk' \in DMA0 .. DMA0 + (pfn_start' - ekernel)
    BY <1>1, <1>2, <1>6
  <2>2. kbrk \in K0 .. kbrk' - 1 /\ K0 .. kbrk - 1 \subseteq K0 .. kbrk' - 1
    BY <1>1, <1>2
  <2>3. DOMAIN pt' \subseteq (DMA0 .. ptbrk - 1) \cup (K0 .. kbrk' - 1)
    BY <1>6, <2>2 DEF PageAllocInv, TypeOK
  <2>4. call' \in [op : {"idle", "dmalloc", "kalloc"}, vpn : Nat, pfn : Nat, size : Nat, i : Nat]
    BY <1>1, <1>3 DEF Idle
  <2>5. live' \subseteq BlockSet("dma") \cup BlockSet("k")
    BY <1>1, <1>7 DEF PageAllocInv, TypeOK
  <2>6. ptfreelist' \in Seq(BlockSet("dma")) /\ vfreelist' \in Seq(BlockSet("k"))
        /\ panicked' \in BOOLEAN
    BY <1>1 DEF PageAllocInv, TypeOK
  <2>7. QED BY <1>1, <1>6, <2>1, <2>3, <2>4, <2>5, <2>6 DEF TypeOK
<1>9. Guarded' = Guarded
  BY <1>1, <1>7 DEF Guarded
<1>10. /\ \A w \in DOMAIN pt : pt[w] # pfn_start
       /\ \A t \in DOMAIN tables : tables[t] # pfn_start
       /\ \A b \in Guarded : b.pfn # pfn_start
  <2>1. pfn_start \notin ekernel .. pfn_start - 1
    BY <1>2
  <2>2. QED BY <2>1 DEF PageAllocInv, FramesClaimed
<1>11. FramesClaimed' /\ FramesOwnedOnce'
  BY <1>1, <1>2, <1>5, <1>9, <1>10, MapFrames
<1>12. /\ KTop = call.vpn /\ DmaTop = ptbrk /\ DmaTop' = ptbrk
       /\ last => KTop' = kbrk + 1
       /\ ~last => KTop' = call.vpn
       /\ KTop' \in Nat /\ KTop <= KTop'
  <2>1. /\ last => call'.op = "idle"
        /\ ~last => call'.op = "kalloc" /\ call'.vpn = call.vpn
    BY <1>1, <1>3 DEF Idle
  <2>2. QED BY <1>1, <1>2, <1>3, <1>4, <2>1 DEF DmaTop, KTop
<1>13. /\ \A b \in live : b.vpn \in Nat /\ b.size \in Nat
       /\ \A k \in DOMAIN ptfreelist : ptfreelist[k].vpn \in Nat /\ ptfreelist[k].size \in Nat
       /\ \A k \in DOMAIN vfreelist : vfreelist[k].vpn \in Nat /\ vfreelist[k].size \in Nat
  BY Facts DEF BlockSet, PageAllocInv, TypeOK
<1>14. SpaceBounds'
  <2>1. last => Within(B, K0, KTop')
    BY <1>2, <1>3, <1>4, <1>7, <1>12 DEF Within
  <2>2. \A b \in live' : IF b.kind = "dma" THEN Within(b, DMA0, DmaTop') ELSE Within(b, K0, KTop')
    BY <1>1, <1>2, <1>3, <1>7, <1>12, <1>13, <2>1 DEF PageAllocInv, SpaceBounds, Within
  <2>3. \A k \in DOMAIN vfreelist : Within(vfreelist[k], K0, KTop')
    BY <1>2, <1>3, <1>12, <1>13 DEF PageAllocInv, SpaceBounds, Within
  <2>4. QED BY <1>1, <1>12, <2>2, <2>3 DEF PageAllocInv, SpaceBounds
<1>15. FreePagesMapped' /\ LivePagesMapped'
  <2>1. last => PagesOf(B) \subseteq DOMAIN pt'
    <3>1. SUFFICES ASSUME last, NEW p \in PagesOf(B), p # kbrk PROVE p \in DOMAIN pt
      BY <1>6
    <3>2. p - call.vpn \in 0 .. call.i - 1 /\ call.vpn + (p - call.vpn) = p
      BY <1>3, <1>4, <1>7, <3>1 DEF PagesOf
    <3>3. QED BY <1>4, <3>2
  <2>2. QED BY <1>1, <1>6, <1>7, <2>1 DEF PageAllocInv, FreePagesMapped, LivePagesMapped
<1>16. DmaContiguous'
  <2>1. \A b \in live : b.kind = "dma" => Contiguous(b) /\ kbrk \notin PagesOf(b)
    BY <1>2, <1>12, <1>13 DEF PageAllocInv, DmaContiguous, SpaceBounds, Within, PagesOf
  <2>2. \A k \in DOMAIN ptfreelist : Contiguous(ptfreelist[k]) /\ kbrk \notin PagesOf(ptfreelist[k])
    BY <1>2, <1>12, <1>13 DEF PageAllocInv, DmaContiguous, SpaceBounds, Within, PagesOf
  <2>3. \A b \in live : b.kind = "dma" => Contiguous(b)'
    BY <1>1, <1>2, <1>5, <2>1, ContiguousKept
  <2>4. \A k \in DOMAIN ptfreelist : \A b \in {ptfreelist[k]} : Contiguous(b)'
    BY <1>1, <1>2, <1>5, <2>2, ContiguousKept
  <2>5. \A b \in live' : b.kind = "dma" => Contiguous(b)'
    BY <1>1, <1>7, <2>3
  <2>6. QED BY <1>1, <2>4, <2>5 DEF DmaContiguous, Contiguous, PagesOf
<1>17. BlocksDisjoint'
  <2>1. \A b \in live : Disjoint(b, B) /\ Disjoint(B, b)
    BY <1>2, <1>3, <1>4, <1>7, <1>12, <1>13 DEF PageAllocInv, SpaceBounds, Within, Disjoint
  <2>2. \A k \in DOMAIN vfreelist : Disjoint(B, vfreelist[k])
    BY <1>7, <1>12 DEF PageAllocInv, SpaceBounds, Within, Disjoint
  <2>3. \A k \in DOMAIN ptfreelist : Disjoint(B, ptfreelist[k])
    BY <1>2, <1>3, <1>4, <1>7, <1>12, <1>13 DEF PageAllocInv, SpaceBounds, Within, Disjoint
  <2>4. QED BY <1>1, <2>1, <2>2, <2>3 DEF PageAllocInv, BlocksDisjoint
<1>18. CallInv'
  <2>1. CASE last
    BY <1>1, <2>1 DEF CallInv, Idle
  <2>2. CASE ~last
    <3>1. /\ call'.op = "kalloc" /\ call'.vpn = call.vpn /\ call'.pfn = call.pfn
          /\ call'.size = call.size /\ call'.i = call.i + 1
      BY <1>1, <1>3, <2>2
    <3>2. call.i + 1 < call.size /\ call.vpn + (call.i + 1) = kbrk'
      BY <1>1, <1>2, <1>3, <1>4, <2>2
    <3>3. ASSUME NEW j \in 0 .. (call.i + 1) - 1
          PROVE  call.vpn + j \in DOMAIN pt'
      <4>1. j \in 0 .. call.i - 1 \/ call.vpn + j = kbrk
        BY <1>3, <1>4
      <4>2. QED BY <1>4, <1>6, <4>1
    <3>4. QED BY <1>4, <3>1, <3>2, <3>3 DEF CallInv
  <2>3. QED BY <2>1, <2>2
<1>19. QED BY <1>8, <1>11, <1>14, <1>15, <1>16, <1>17, <1>18 DEF PageAllocInv

(* The calls that free.                                                       *)
LEMMA DmafreeInv == ASSUME PageAllocInv, NEW b \in live, dmafree(b) PROVE PageAllocInv'
<1> DEFINE L == <<b>> \o ptfreelist
<1>1. /\ b.kind = "dma" /\ call.op = "idle" /\ ptfreelist' = L /\ live' = live \ {b}
      /\ UNCHANGED <<pfn_start, ptbrk, kbrk, vfreelist, pt, tables, call, panicked>>
  BY DEF dmafree, Ready
<1>2. b \in BlockSet("dma") /\ ptfreelist \in Seq(BlockSet("dma"))
  BY <1>1, Facts
<1>3. /\ L \in Seq(BlockSet("dma")) /\ L[1] = b
      /\ \A i \in DOMAIN L : i = 1 \/ (i - 1 \in DOMAIN ptfreelist /\ L[i] = ptfreelist[i - 1])
      /\ \A i, j \in DOMAIN L : i - 1 = j - 1 => i = j
  <2>1. /\ L \in Seq(BlockSet("dma")) /\ L[1] = b /\ DOMAIN L = 1 .. Len(ptfreelist) + 1
        /\ \A i \in 2 .. Len(ptfreelist) + 1 : i - 1 \in DOMAIN ptfreelist /\ L[i] = ptfreelist[i - 1]
        /\ Len(ptfreelist) \in Nat
    BY <1>2, PushEffect
  <2> HIDE DEF L
  <2>2. QED BY <2>1
<1> HIDE DEF L
<1>4. TypeOK'
  BY <1>1, <1>3 DEF PageAllocInv, TypeOK
<1>5. Guarded' = Guarded /\ DmaTop' = DmaTop /\ KTop' = KTop
  BY <1>1 DEF Guarded, DmaTop, KTop
<1>6. FramesClaimed' /\ FramesOwnedOnce' /\ CallInv' /\ FreePagesMapped' /\ LivePagesMapped'
  BY <1>1, <1>5 DEF PageAllocInv, FramesClaimed, FramesOwnedOnce, CallInv, FreePagesMapped,
     LivePagesMapped
<1>7. SpaceBounds'
  BY <1>1, <1>3, <1>5 DEF PageAllocInv, SpaceBounds
<1>8. DmaContiguous'
  BY <1>1, <1>3 DEF PageAllocInv, DmaContiguous, Contiguous
<1>9. BlocksDisjoint'
  <2>1. \A c \in live : c = b \/ (Disjoint(b, c) /\ Disjoint(c, b))
    BY DEF PageAllocInv, BlocksDisjoint
  <2>2. \A i \in DOMAIN ptfreelist : Disjoint(b, ptfreelist[i]) /\ Disjoint(ptfreelist[i], b)
    BY DEF PageAllocInv, BlocksDisjoint, Disjoint
  <2>3. \A i, j \in DOMAIN L : i = j \/ Disjoint(L[i], L[j])
    BY <1>3, <2>2 DEF PageAllocInv, BlocksDisjoint
  <2>4. \A c \in live \ {b} : \A i \in DOMAIN L : Disjoint(c, L[i])
    BY <1>3, <2>1 DEF PageAllocInv, BlocksDisjoint
  <2>5. QED BY <1>1, <2>3, <2>4 DEF PageAllocInv, BlocksDisjoint
<1>10. QED BY <1>4, <1>6, <1>7, <1>8, <1>9 DEF PageAllocInv

LEMMA KfreeInv == ASSUME PageAllocInv, NEW b \in live, kfree(b) PROVE PageAllocInv'
<1> DEFINE L == <<b>> \o vfreelist
<1>1. /\ b.kind = "k" /\ b.pfn = 0 /\ call.op = "idle" /\ vfreelist' = L /\ live' = live \ {b}
      /\ UNCHANGED <<pfn_start, ptbrk, kbrk, ptfreelist, pt, tables, call, panicked>>
  BY DEF kfree, Ready
<1>2. b \in BlockSet("k") /\ vfreelist \in Seq(BlockSet("k"))
  BY <1>1, Facts
<1>3. /\ L \in Seq(BlockSet("k")) /\ L[1] = b
      /\ \A i \in DOMAIN L : i = 1 \/ (i - 1 \in DOMAIN vfreelist /\ L[i] = vfreelist[i - 1])
      /\ \A i, j \in DOMAIN L : i - 1 = j - 1 => i = j
  <2>1. /\ L \in Seq(BlockSet("k")) /\ L[1] = b /\ DOMAIN L = 1 .. Len(vfreelist) + 1
        /\ \A i \in 2 .. Len(vfreelist) + 1 : i - 1 \in DOMAIN vfreelist /\ L[i] = vfreelist[i - 1]
        /\ Len(vfreelist) \in Nat
    BY <1>2, PushEffect
  <2> HIDE DEF L
  <2>2. QED BY <2>1
<1> HIDE DEF L
<1>4. TypeOK'
  BY <1>1, <1>3 DEF PageAllocInv, TypeOK
<1>5. Guarded' = Guarded /\ DmaTop' = DmaTop /\ KTop' = KTop
  BY <1>1 DEF Guarded, DmaTop, KTop
<1>6. FramesClaimed' /\ FramesOwnedOnce' /\ CallInv' /\ LivePagesMapped'
  BY <1>1, <1>5 DEF PageAllocInv, FramesClaimed, FramesOwnedOnce, CallInv, LivePagesMapped
<1>7. PagesOf(b) \subseteq DOMAIN pt
  BY <1>1 DEF PageAllocInv, LivePagesMapped
<1>8. FreePagesMapped'
  BY <1>1, <1>3, <1>7 DEF PageAllocInv, FreePagesMapped
<1>9. SpaceBounds'
  BY <1>1, <1>3, <1>5 DEF PageAllocInv, SpaceBounds
<1>10. DmaContiguous'
  BY <1>1 DEF PageAllocInv, DmaContiguous, Contiguous
<1>11. BlocksDisjoint'
  <2>1. \A c \in live : c = b \/ (Disjoint(b, c) /\ Disjoint(c, b))
    BY DEF PageAllocInv, BlocksDisjoint
  <2>2. \A i \in DOMAIN vfreelist : Disjoint(b, vfreelist[i]) /\ Disjoint(vfreelist[i], b)
    BY DEF PageAllocInv, BlocksDisjoint, Disjoint
  <2>3. \A i, j \in DOMAIN L : i = j \/ Disjoint(L[i], L[j])
    BY <1>3, <2>2 DEF PageAllocInv, BlocksDisjoint
  <2>4. \A c \in live \ {b} : \A i \in DOMAIN L : Disjoint(c, L[i])
    BY <1>3, <2>1 DEF PageAllocInv, BlocksDisjoint
  <2>5. QED BY <1>1, <2>3, <2>4 DEF PageAllocInv, BlocksDisjoint
<1>12. QED BY <1>4, <1>6, <1>8, <1>9, <1>10, <1>11 DEF PageAllocInv


(* The guard page of a kernel stack.                                          *)
LEMMA GuardInv == ASSUME PageAllocInv, NEW b \in live, Guard(b) PROVE PageAllocInv'
<1> DEFINE G == Block("k", b.vpn, pt[b.vpn], b.size)
<1>1. /\ b.kind = "k" /\ b.pfn = 0 /\ b.size > 1 /\ call.op = "idle"
      /\ pt' = [w \in DOMAIN pt \ {b.vpn} |-> pt[w]] /\ live' = (live \ {b}) \cup {G}
      /\ UNCHANGED <<pfn_start, ptbrk, kbrk, ptfreelist, vfreelist, tables, call, panicked>>
  BY DEF Guard, Ready, ptunmap
<1>2. b \in BlockSet("k") /\ b.vpn \in Nat /\ b.size \in Nat /\ b.size # 0
  <2>1. b \in BlockSet("k")
    BY <1>1, Facts
  <2>2. QED BY <2>1 DEF BlockSet
<1>3. PagesOf(b) \subseteq DOMAIN pt /\ b.vpn \in PagesOf(b)
  <2>1. PagesOf(b) \subseteq DOMAIN pt
    BY <1>1 DEF PageAllocInv, LivePagesMapped
  <2>2. b.vpn \in PagesOf(b)
    BY <1>1, <1>2 DEF PagesOf
  <2>3. QED BY <2>1, <2>2
<1>4. pt \in [DOMAIN pt -> Nat] /\ pt[b.vpn] \in Nat /\ pt[b.vpn] # 0
  <2>1. pt[b.vpn] \in ekernel .. pfn_start - 1 /\ ekernel \in Nat \ {0} /\ pfn_start \in Nat
    BY <1>3, Facts DEF PageAllocInv, FramesClaimed
  <2>2. QED BY <2>1 DEF PageAllocInv, TypeOK
<1>5. /\ G \in BlockSet("k") /\ G.kind = "k" /\ G.vpn = b.vpn /\ G.size = b.size
      /\ G.pfn = pt[b.vpn] /\ PagesOf(G) = PagesOf(b)
  BY <1>2, <1>4 DEF Block, BlockSet, PagesOf
<1> HIDE DEF G
<1>6. /\ DOMAIN pt' = DOMAIN pt \ {b.vpn} /\ pt' \in [DOMAIN pt' -> Nat]
      /\ \A w \in DOMAIN pt' : w \in DOMAIN pt /\ pt'[w] = pt[w]
  BY <1>1, <1>4
<1>7. TypeOK'
  BY <1>1, <1>5, <1>6 DEF PageAllocInv, TypeOK
<1>8. Guarded' = Guarded \cup {G}
  BY <1>1, <1>4, <1>5 DEF Guarded
<1>9. FramesClaimed' /\ FramesOwnedOnce'
  <2>1. FramesClaimed'
    BY <1>1, <1>3, <1>5, <1>6, <1>8 DEF PageAllocInv, FramesClaimed
  <2>2. FramesOwnedOnce'
    BY <1>1, <1>3, <1>5, <1>6, <1>8 DEF PageAllocInv, FramesOwnedOnce
  <2>3. QED BY <2>1, <2>2
<1>10. DmaTop' = DmaTop /\ KTop' = KTop /\ CallInv'
  BY <1>1 DEF DmaTop, KTop, CallInv
<1>11. SpaceBounds'
  BY <1>1, <1>5, <1>10 DEF PageAllocInv, SpaceBounds, Within
<1>12. /\ \A c \in live : c = b \/ b.vpn \notin PagesOf(c)
       /\ \A k \in DOMAIN ptfreelist : b.vpn \notin PagesOf(ptfreelist[k])
       /\ \A k \in DOMAIN vfreelist : b.vpn \notin PagesOf(vfreelist[k])
  <2>1. /\ \A c \in live : c.vpn \in Nat /\ c.size \in Nat
        /\ \A k \in DOMAIN ptfreelist : ptfreelist[k].vpn \in Nat /\ ptfreelist[k].size \in Nat
        /\ \A k \in DOMAIN vfreelist : vfreelist[k].vpn \in Nat /\ vfreelist[k].size \in Nat
    BY Facts DEF BlockSet, PageAllocInv, TypeOK
  <2>2. /\ \A c \in live : c = b \/ Disjoint(b, c)
        /\ \A k \in DOMAIN ptfreelist : Disjoint(b, ptfreelist[k])
        /\ \A k \in DOMAIN vfreelist : Disjoint(b, vfreelist[k])
    BY DEF PageAllocInv, BlocksDisjoint
  <2>3. QED BY <1>1, <1>2, <2>1, <2>2 DEF Disjoint, PagesOf
<1>13. FreePagesMapped'
  BY <1>1, <1>6, <1>12 DEF PageAllocInv, FreePagesMapped
<1>14. LivePagesMapped'
  BY <1>1, <1>3, <1>4, <1>5, <1>6, <1>12 DEF PageAllocInv, LivePagesMapped
<1>15. DmaContiguous'
  <2>1. \A c \in live : c.kind = "dma" => Contiguous(c)'
    BY <1>1, <1>6, <1>12 DEF PageAllocInv, DmaContiguous, Contiguous, PagesOf
  <2>2. \A k \in DOMAIN ptfreelist : \A c \in {ptfreelist[k]} : Contiguous(c)'
    BY <1>6, <1>12 DEF PageAllocInv, DmaContiguous, Contiguous, PagesOf
  <2>3. QED BY <1>1, <1>5, <2>1, <2>2 DEF DmaContiguous, Contiguous, PagesOf
<1>16. BlocksDisjoint'
  <2>1. \A c : (Disjoint(b, c) <=> Disjoint(G, c)) /\ (Disjoint(c, b) <=> Disjoint(c, G))
    BY <1>5 DEF Disjoint
  <2>2. QED BY <1>1, <2>1 DEF PageAllocInv, BlocksDisjoint
<1>17. QED BY <1>7, <1>9, <1>10, <1>11, <1>13, <1>14, <1>15, <1>16 DEF PageAllocInv

LEMMA FreeStackInv == ASSUME PageAllocInv, NEW b \in live, FreeStack(b) PROVE PageAllocInv'
<1> DEFINE S == Block("k", b.vpn, 0, b.size)
           L == <<S>> \o vfreelist
<1>1. /\ b.kind = "k" /\ b.pfn # 0 /\ call.op = "idle" /\ ptmap(b.vpn, b.pfn, pfn_start)
      /\ vfreelist' = L /\ live' = live \ {b}
      /\ UNCHANGED <<ptbrk, kbrk, ptfreelist, call, panicked>>
  BY DEF FreeStack, Ready
<1>2. /\ b \in BlockSet("k") /\ b.vpn \in Nat /\ b.size \in Nat /\ b.size # 0 /\ b.pfn \in Nat
      /\ vfreelist \in Seq(BlockSet("k"))
  <2>1. b \in BlockSet("k") /\ vfreelist \in Seq(BlockSet("k"))
    BY <1>1, Facts
  <2>2. QED BY <2>1 DEF BlockSet
<1>3. /\ S \in BlockSet("k") /\ S.kind = "k" /\ S.pfn = 0 /\ S.vpn = b.vpn /\ S.size = b.size
      /\ PagesOf(S) = PagesOf(b)
  BY <1>2 DEF Block, BlockSet, PagesOf
<1> HIDE DEF S
<1>4. /\ L \in Seq(BlockSet("k")) /\ L[1] = S
      /\ \A i \in DOMAIN L : i = 1 \/ (i - 1 \in DOMAIN vfreelist /\ L[i] = vfreelist[i - 1])
      /\ \A i, j \in DOMAIN L : i - 1 = j - 1 => i = j
  <2>1. /\ L \in Seq(BlockSet("k")) /\ L[1] = S /\ DOMAIN L = 1 .. Len(vfreelist) + 1
        /\ \A i \in 2 .. Len(vfreelist) + 1 : i - 1 \in DOMAIN vfreelist /\ L[i] = vfreelist[i - 1]
        /\ Len(vfreelist) \in Nat
    BY <1>2, <1>3, PushEffect
  <2> HIDE DEF L
  <2>2. QED BY <2>1
<1> HIDE DEF L
<1>5. /\ pfn_start \in Nat /\ ptbrk \in Nat /\ kbrk \in Nat /\ DMA0 \in Nat /\ K0 \in Nat
      /\ ekernel \in Nat /\ max_pfn \in Nat /\ ekernel <= pfn_start /\ ptbrk <= K0
      /\ pt \in [DOMAIN pt -> Nat] /\ tables \in [DOMAIN tables -> Nat] /\ kbrk >= K0
      /\ ptbrk \in DMA0 .. DMA0 + (pfn_start - ekernel) /\ pfn_start >= pfn_start
  <2>1. /\ pfn_start \in Nat /\ ptbrk \in Nat /\ kbrk \in Nat /\ DMA0 \in Nat /\ K0 \in Nat
        /\ ekernel \in Nat /\ max_pfn \in Nat /\ ekernel <= pfn_start /\ ptbrk <= K0
    BY Facts
  <2>2. QED BY <2>1 DEF PageAllocInv, TypeOK
<1>6. /\ pfn_start' \in pfn_start .. max_pfn
      /\ pt' \in [DOMAIN pt' -> Nat] /\ DOMAIN pt' = DOMAIN pt \cup {b.vpn}
      /\ tables' \in [DOMAIN tables' -> Nat]
  BY <1>1, <1>2, <1>5, PtmapEffect
<1>7. DmaTop = ptbrk /\ KTop = kbrk /\ DmaTop' = ptbrk /\ KTop' = kbrk
  BY <1>1 DEF DmaTop, KTop
<1>8. K0 <= b.vpn /\ b.vpn + b.size <= kbrk /\ b.vpn \in K0 .. kbrk - 1
  <2>1. K0 <= b.vpn /\ b.vpn + b.size <= kbrk
    BY <1>1, <1>7 DEF PageAllocInv, SpaceBounds, Within
  <2>2. b.vpn \in Nat /\ b.size \in Nat /\ b.size # 0 /\ K0 \in Nat /\ kbrk \in Nat
    BY <1>2, <1>5
  <2>3. QED BY <2>1, <2>2
<1>9. TypeOK'
  <2>1. /\ pfn_start' \in ekernel .. max_pfn
        /\ ptbrk' \in DMA0 .. DMA0 + (pfn_start' - ekernel)
    BY <1>1, <1>5, <1>6
  <2>2. b.vpn \in K0 .. kbrk - 1
    BY <1>8
  <2>3. DOMAIN pt' \subseteq (DMA0 .. ptbrk - 1) \cup (K0 .. kbrk - 1)
    BY <1>6, <2>2 DEF PageAllocInv, TypeOK
  <2>4. QED BY <1>1, <1>4, <1>6, <2>1, <2>3 DEF PageAllocInv, TypeOK
<1>10. Guarded' = Guarded \ {b} /\ b \in Guarded
  BY <1>1 DEF Guarded
<1>11. FramesClaimed' /\ FramesOwnedOnce'
  <2>1. /\ \A w \in DOMAIN pt : pt[w] # b.pfn /\ \A t \in DOMAIN tables : tables[t] # b.pfn
        /\ \A c \in Guarded' : c.pfn # b.pfn
    BY <1>10 DEF PageAllocInv, FramesOwnedOnce
  <2>2. b.pfn \in ekernel .. pfn_start - 1
    BY <1>10 DEF PageAllocInv, FramesClaimed
  <2>3. ekernel <= b.pfn /\ b.pfn < pfn_start
    BY <1>2, <1>5, <2>2
  <2>4. Guarded' \subseteq Guarded
    BY <1>10
  <2>5. \A t \in DOMAIN tables : tables[t] # b.pfn
    BY <1>10 DEF PageAllocInv, FramesOwnedOnce
  <2>6. QED BY <1>1, <1>2, <1>5, <2>1, <2>3, <2>4, <2>5, MapFrames
<1>12. SpaceBounds'
  <2>1. Within(S, K0, kbrk)
    BY <1>3, <1>8 DEF Within
  <2>2. QED BY <1>1, <1>3, <1>4, <1>7, <2>1 DEF PageAllocInv, SpaceBounds
<1>13. CallInv'
  BY <1>1 DEF CallInv
<1>14. LivePagesMapped' /\ PagesOf(S) \subseteq DOMAIN pt'
  BY <1>1, <1>3, <1>6 DEF PageAllocInv, LivePagesMapped
<1>15. FreePagesMapped'
  BY <1>1, <1>4, <1>6, <1>14 DEF PageAllocInv, FreePagesMapped
<1>16. DmaContiguous'
  <2>1. /\ \A c \in live : c.vpn \in Nat /\ c.size \in Nat
        /\ \A k \in DOMAIN ptfreelist : ptfreelist[k].vpn \in Nat /\ ptfreelist[k].size \in Nat
    BY Facts DEF BlockSet, PageAllocInv, TypeOK
  <2> DEFINE below(c) == c.vpn + c.size <= ptbrk
  <2>2. \A c : c.vpn \in Nat /\ c.size \in Nat /\ below(c) => b.vpn \notin PagesOf(c)
    <3>1. b.vpn \in Nat /\ ptbrk \in Nat /\ ptbrk <= b.vpn
      <4>1. b.vpn \in Nat /\ ptbrk \in Nat /\ K0 \in Nat /\ ptbrk <= K0
        BY <1>2, <1>5
      <4>2. QED BY <1>8, <4>1
    <3>2. QED BY <3>1 DEF PagesOf
  <2>3. /\ \A c \in live : c.kind = "dma" => below(c)
        /\ \A k \in DOMAIN ptfreelist : below(ptfreelist[k])
    BY <1>7 DEF PageAllocInv, SpaceBounds, Within
  <2>4. \A c \in live : c.kind = "dma" => Contiguous(c) /\ b.vpn \notin PagesOf(c)
    BY <2>1, <2>2, <2>3 DEF PageAllocInv, DmaContiguous
  <2>5. \A k \in DOMAIN ptfreelist : Contiguous(ptfreelist[k]) /\ b.vpn \notin PagesOf(ptfreelist[k])
    BY <2>1, <2>2, <2>3 DEF PageAllocInv, DmaContiguous
  <2>6. \A c \in live : c.kind = "dma" => Contiguous(c)'
    BY <1>1, <1>2, <1>5, <2>4, ContiguousKept
  <2>7. \A k \in DOMAIN ptfreelist : \A c \in {ptfreelist[k]} : Contiguous(c)'
    BY <1>1, <1>2, <1>5, <2>5, ContiguousKept
  <2>8. QED BY <1>1, <2>6, <2>7 DEF DmaContiguous, Contiguous, PagesOf
<1>17. BlocksDisjoint'
  <2>1. \A c : (Disjoint(b, c) <=> Disjoint(S, c)) /\ (Disjoint(c, b) <=> Disjoint(c, S))
    BY <1>3 DEF Disjoint
  <2>2. \A c \in live : c = b \/ Disjoint(c, S)
    BY <2>1 DEF PageAllocInv, BlocksDisjoint
  <2>3. \A i \in DOMAIN vfreelist : Disjoint(S, vfreelist[i]) /\ Disjoint(vfreelist[i], S)
    BY <2>1 DEF PageAllocInv, BlocksDisjoint, Disjoint
  <2>4. \A i, j \in DOMAIN L : i = j \/ Disjoint(L[i], L[j])
    BY <1>4, <2>3 DEF PageAllocInv, BlocksDisjoint
  <2>5. \A c \in live \ {b} : \A i \in DOMAIN L : Disjoint(c, L[i])
    BY <1>4, <2>2 DEF PageAllocInv, BlocksDisjoint
  <2>6. QED BY <1>1, <2>4, <2>5 DEF PageAllocInv, BlocksDisjoint
<1>18. QED BY <1>9, <1>11, <1>12, <1>13, <1>14, <1>15, <1>16, <1>17 DEF PageAllocInv

-----------------------------------------------------------------------------
LEMMA StutterInv ==
  ASSUME PageAllocInv, panicked' \in BOOLEAN,
         UNCHANGED <<pfn_start, ptbrk, kbrk, ptfreelist, vfreelist, pt, tables, live, call>>
  PROVE  PageAllocInv'
<1>1. TypeOK'
  BY DEF PageAllocInv, TypeOK
<1>2. Guarded' = Guarded /\ DmaTop' = DmaTop /\ KTop' = KTop
  BY DEF Guarded, DmaTop, KTop
<1>3. QED
  BY <1>1, <1>2 DEF PageAllocInv, FramesClaimed, FramesOwnedOnce, SpaceBounds, BlocksDisjoint,
     FreePagesMapped, LivePagesMapped, DmaContiguous, Contiguous, CallInv

LEMMA NextInv == ASSUME PageAllocInv, [Next]_vars PROVE PageAllocInv'
<1>1. ASSUME NEW n \in Sizes, DmallocFit(n) PROVE PageAllocInv'
  BY <1>1, DmallocFitInv
<1>2. ASSUME NEW n \in Sizes, DmallocGrow(n) PROVE PageAllocInv'
  BY <1>2, DmallocGrowInv
<1>3. ASSUME NEW n \in Sizes, KallocFit(n) PROVE PageAllocInv'
  BY <1>3, KallocFitInv
<1>4. ASSUME NEW n \in Sizes, KallocGrow(n) PROVE PageAllocInv'
  BY <1>4, KallocGrowInv
<1>5. CASE DmallocMap
  BY <1>5, DmallocMapInv
<1>6. CASE KallocMap
  BY <1>6, KallocMapInv
<1>7. ASSUME NEW b \in live, dmafree(b) PROVE PageAllocInv'
  BY <1>7, DmafreeInv
<1>8. ASSUME NEW b \in live, kfree(b) PROVE PageAllocInv'
  BY <1>8, KfreeInv
<1>9. ASSUME NEW b \in live, Guard(b) PROVE PageAllocInv'
  BY <1>9, GuardInv
<1>10. ASSUME NEW b \in live, FreeStack(b) PROVE PageAllocInv'
  BY <1>10, FreeStackInv
<1>11. CASE OutOfFrames
  BY <1>11, StutterInv DEF OutOfFrames
<1>12. CASE Halted \/ UNCHANGED vars
  <2>1. panicked' = panicked /\ panicked \in BOOLEAN
    BY <1>12 DEF Halted, vars, PageAllocInv, TypeOK
  <2>2. QED BY <1>12, <2>1, StutterInv DEF Halted, vars
<1>13. QED
  BY <1>1, <1>2, <1>3, <1>4, <1>5, <1>6, <1>7, <1>8, <1>9, <1>10, <1>11, <1>12 DEF Next

(* The inductive invariant holds for every machine size, page table size and  *)
(* request size: whatever the order of dmalloc, kalloc, dmafree, kfree and    *)
(* guard pages, in and between the steps of their mapping loops.              *)
THEOREM PageAllocInvariant == Spec => []PageAllocInv
  BY InitInv, NextInv, PTL DEF Spec

(* No frame is used by two pages, page tables or guard pages.                 *)
THEOREM FramesOnce == Spec => []FramesOwnedOnce
<1>1. PageAllocInv => FramesOwnedOnce
  BY DEF PageAllocInv
<1>2. QED BY <1>1, PageAllocInvariant, PTL

(* No page is returned twice by dmalloc or kalloc without being freed.        *)
THEOREM PagesOnce == Spec => []BlocksDisjoint
<1>1. PageAllocInv => BlocksDisjoint
  BY DEF PageAllocInv
<1>2. QED BY <1>1, PageAllocInvariant, PTL

(* Blocks of dmalloc are physically contiguous, also when they are reused.    *)
THEOREM DmaBlocksContiguous == Spec => []DmaContiguous
<1>1. PageAllocInv => DmaContiguous
  BY DEF PageAllocInv
<1>2. QED BY <1>1, PageAllocInvariant, PTL

(* No guard page is on vfreelist, whose nodes are written to and read.        *)
THEOREM FreeBlocksMapped == Spec => []FreePagesMapped
<1>1. PageAllocInv => FreePagesMapped
  BY DEF PageAllocInv
<1>2. QED BY <1>1, PageAllocInvariant, PTL
=============================================================================
