-------------------------------- MODULE Vsfs --------------------------------
(***************************************************************************)
(* The file system on its disk: bitmaps, inodes, the root directory, and   *)
(* files that grow (kernel/filesystem.c, kernel/fs_file.c, sys_write), on  *)
(* an image made by script/mkfs.py.                                        *)
(*                                                                         *)
(* A system call runs to its end before the next one starts, but its loop  *)
(* over the pages is taken one iteration at a time: call is the call under *)
(* way, with the copy of the inode that fs_file_truncate works on.  Sizes  *)
(* and offsets count units of one DirEntry.  Double and triple indirect    *)
(* pointers are left out: a file of the default disk (1024 blocks) never   *)
(* has more than DIRECT_PTRS + PTRS pages.                                 *)
(***************************************************************************)
EXTENDS Naturals, FiniteSets

CONSTANTS
  SIZE_BLOCKS,  \* super.size_blocks: bits that both allocators scan
  META,         \* super block, bitmaps and inode table, in blocks
  DIRECT_PTRS,  \* direct pointers of an inode
  PTRS,         \* pointers in an indirect block
  PAGE,         \* units in a block
  ImageFiles,   \* how many empty files the image may hold
  Names,        \* names user code creates files under
  Values,       \* what user code writes, one value tagged with each unit's offset
  Junk,         \* what an uninitialised block pointer may hold
  Writes,       \* <<seek, size>> of the writes user code makes
  Unwritten     \* a unit nobody has written

Bits     == 0 .. SIZE_BLOCKS - 1
MaxPages == DIRECT_PTRS + PTRS
Units    == 0 .. PAGE * MaxPages - 1
ROOT     == 2
NOINODE  == SIZE_BLOCKS   \* stands for (u32)-1

Pages(size) == (size + PAGE - 1) \div PAGE

(* The kernel scans size_blocks bits of the inode bitmap too; mkfs.py      *)
(* makes at least as many inodes unless it is told otherwise.  A number of *)
(* blocks that fills whole bytes leaves no bits beyond the disk.           *)
ASSUME VsfsAssumption ==
  /\ {SIZE_BLOCKS, DIRECT_PTRS, PTRS, PAGE} \subseteq Nat \ {0}
  /\ META \in 4 .. SIZE_BLOCKS - 1
  /\ SIZE_BLOCKS % 8 = 0
  /\ \A k \in ImageFiles : /\ k \in Nat
                           /\ ROOT + k < SIZE_BLOCKS
                           /\ 2 + k <= PAGE * DIRECT_PTRS
                           /\ META + Pages(2 + k) <= SIZE_BLOCKS
  /\ Junk \subseteq Bits /\ Junk # {}
  /\ \A w \in Writes : /\ w[1] \in Nat /\ w[2] \in Nat \ {0}
                       /\ w[1] + w[2] <= PAGE * MaxPages

VARIABLES
  ibitmap,  \* inodes marked in the inode bitmap
  dbitmap,  \* blocks marked in the data bitmap
  inodes,   \* the inode table
  ptrs,     \* blocks read as indirect blocks
  data,     \* blocks read as data
  call,     \* the system call under way
  shadow    \* history: what was last written to each unit of each file

vars == <<ibitmap, dbitmap, inodes, ptrs, data, call, shadow>>

Idle == [pc |-> "idle"]

-----------------------------------------------------------------------------
(* mkfs.py: a root directory of k empty files, the directory's blocks      *)
(* right behind the metadata, inodes numbered from ROOT.  The names in the *)
(* image are numbers, 0 and 1 standing for "." and "..".                   *)
RootEntry(k) ==
  [u \in Units |->
     IF u < 2 THEN [name |-> u, inode |-> ROOT]
     ELSE IF u < 2 + k THEN [name |-> u, inode |-> ROOT + u - 1]
     ELSE Unwritten]

ImageBlocks(size) == META .. META + Pages(size) - 1

Blank == [type |-> "FILE", size |-> 0, single_ind |-> 0,
          direct |-> [p \in 0 .. DIRECT_PTRS - 1 |-> 0]]

ImageInode(type, size) ==
  [Blank EXCEPT !.type = type, !.size = size,
     !.direct = [p \in 0 .. DIRECT_PTRS - 1 |-> IF p < Pages(size) THEN META + p ELSE 0]]

Init ==
  \E k \in ImageFiles :
    /\ ibitmap = 0 .. ROOT + k
    /\ dbitmap = (0 .. META - 1) \cup ImageBlocks(2 + k)
    /\ inodes = [i \in Bits |-> IF i = ROOT THEN ImageInode("DIRECTORY", 2 + k) ELSE Blank]
    /\ ptrs = [b \in Bits |-> [e \in 0 .. PTRS - 1 |-> 0]]
    /\ data = [b \in Bits |-> [o \in 0 .. PAGE - 1 |->
                 IF b \in ImageBlocks(2 + k)
                 THEN RootEntry(k)[(b - META) * PAGE + o] ELSE Unwritten]]
    /\ call = Idle
    /\ shadow = [i \in Bits |-> IF i = ROOT THEN RootEntry(k)
                                ELSE [u \in Units |-> Unwritten]]

-----------------------------------------------------------------------------
Lowest(S) == CHOOSE b \in S : \A c \in S : b <= c

(* allocate_block and allocate_inode: the lowest bit that is not set. *)
Allocate(used) == Lowest(Bits \ used)

MutSingleFirst(inode, page) ==
  IF page < DIRECT_PTRS THEN inode.direct[page]
  ELSE ptrs[inode.single_ind][0]

(* translate_fs: the block that holds a page of a file. *)
phy_page(inode, page) ==
  IF page < DIRECT_PTRS THEN inode.direct[page]
  ELSE ptrs[inode.single_ind][page - DIRECT_PTRS]

(* translate_fs, writing: unit u of the range at .. at + n - 1 becomes     *)
(* new[u], page after page; shadow records it.                             *)
WriteUnits(inum, at, n, new) ==
  LET Here(b, o) == {u \in at .. at + n - 1 :
                       /\ u % PAGE = o
                       /\ phy_page(inodes[inum], u \div PAGE) = b}
      Last(S) == CHOOSE u \in S : \A w \in S : w <= u
  IN  /\ data' = [b \in Bits |-> [o \in 0 .. PAGE - 1 |->
                    IF Here(b, o) = {} THEN data[b][o] ELSE new[Last(Here(b, o))]]]
      /\ shadow' = [shadow EXCEPT ![inum] =
                      [u \in Units |-> IF u \in at .. at + n - 1 THEN new[u] ELSE @[u]]]

(* Entry of fs_file_truncate; its callers only ask for a larger size. *)
Truncate(inum, newsize, then) ==
  call' = [pc |-> "truncate", inum |-> inum, inode |-> inodes[inum],
           page |-> Pages(inodes[inum].size), newsize |-> newsize, then |-> then]

(* Return of fs_file_truncate: a write goes on either way, a creation only *)
(* on success.                                                             *)
TruncateReturns(ok) ==
  call' = IF call.then.pc = "write" \/ ok THEN call.then ELSE Idle

-----------------------------------------------------------------------------
(* One iteration of the loop: a page under a direct pointer. *)
GrowDirect ==
  /\ call.pc = "truncate"
  /\ call.page < Pages(call.newsize)
  /\ call.page < DIRECT_PTRS
  /\ dbitmap # Bits
  /\ dbitmap' = dbitmap \cup {Allocate(dbitmap)}
  /\ call' = [call EXCEPT !.inode.direct[call.page] = Allocate(dbitmap),
                          !.page = @ + 1]
  /\ UNCHANGED <<ibitmap, inodes, ptrs, data, shadow>>

(* The first page under the single indirect block, which comes with it. *)
GrowFirstSingle ==
  LET block_1st  == Allocate(dbitmap)
      temp_block == Allocate(dbitmap \cup {block_1st})
  IN  /\ call.pc = "truncate"
      /\ call.page < Pages(call.newsize)
      /\ call.page = DIRECT_PTRS
      /\ Cardinality(Bits \ dbitmap) >= 2
      /\ dbitmap' = dbitmap \cup {block_1st, temp_block}
      /\ ptrs' = [ptrs EXCEPT ![block_1st][0] = temp_block]
      /\ call' = [call EXCEPT !.inode.single_ind = block_1st, !.page = @ + 1]
      /\ UNCHANGED <<ibitmap, inodes, data, shadow>>

MutUnmarked ==
  LET temp_block == Allocate(dbitmap)
  IN  /\ call.pc = "truncate"
      /\ call.page < Pages(call.newsize)
      /\ call.page > DIRECT_PTRS
      /\ dbitmap # Bits
      /\ ptrs' = [ptrs EXCEPT ![call.inode.single_ind][call.page - DIRECT_PTRS] = temp_block]
      /\ call' = [call EXCEPT !.page = @ + 1]
      /\ UNCHANGED <<ibitmap, dbitmap, inodes, data, shadow>>

GrowSingle ==
  LET temp_block == Allocate(dbitmap)
  IN  /\ call.pc = "truncate"
      /\ call.page < Pages(call.newsize)
      /\ call.page > DIRECT_PTRS
      /\ dbitmap # Bits
      /\ dbitmap' = dbitmap \cup {temp_block}
      /\ ptrs' = [ptrs EXCEPT ![call.inode.single_ind][call.page - DIRECT_PTRS] = temp_block]
      /\ call' = [call EXCEPT !.page = @ + 1]
      /\ UNCHANGED <<ibitmap, inodes, data, shadow>>

MutWaitsForSpace ==
  /\ call.pc = "truncate"
  /\ call.page < Pages(call.newsize)
  /\ Cardinality(Bits \ dbitmap) < (IF call.page = DIRECT_PTRS THEN 2 ELSE 1)
  /\ dbitmap' = Bits
  /\ UNCHANGED <<ibitmap, inodes, ptrs, data, shadow, call>>

(* The disk is full: -1 without a sync of the inode.  Blocks taken so far, *)
(* the last free one for an indirect block included, stay marked.          *)
NoSpace ==
  /\ call.pc = "truncate"
  /\ call.page < Pages(call.newsize)
  /\ Cardinality(Bits \ dbitmap) < (IF call.page = DIRECT_PTRS THEN 2 ELSE 1)
  /\ dbitmap' = Bits
  /\ TruncateReturns(FALSE)
  /\ UNCHANGED <<ibitmap, inodes, ptrs, data, shadow>>

Truncated ==
  /\ call.pc = "truncate"
  /\ call.page >= Pages(call.newsize)
  /\ inodes' = [inodes EXCEPT ![call.inum] = [call.inode EXCEPT !.size = call.newsize]]
  /\ TruncateReturns(TRUE)
  /\ UNCHANGED <<ibitmap, dbitmap, ptrs, data, shadow>>

-----------------------------------------------------------------------------
Entry(u) == data[phy_page(inodes[ROOT], u \div PAGE)][u % PAGE]

RootUnits == 0 .. inodes[ROOT].size - 1

(* getfile: the entries of the root directory with this name. *)
Matches(name) == {u \in RootUnits : Entry(u).name = name}

(* getfile with create, when nothing of that name is found.  The directory *)
(* is bounded by what a single indirect block covers.                      *)
create_file(name) ==
  /\ call = Idle
  /\ Matches(name) = {}
  /\ inodes[ROOT].size + 1 \in Units
  /\ Truncate(ROOT, inodes[ROOT].size + 1,
              [pc |-> "create", name |-> name, at |-> inodes[ROOT].size])
  /\ UNCHANGED <<ibitmap, dbitmap, inodes, ptrs, data, shadow>>

WriteEntry(at, name, inum) ==
  WriteUnits(ROOT, at, 1, [u \in {at} |-> [name |-> name, inode |-> inum]])

MutCreateUnmarked ==
  /\ call.pc = "create"
  /\ ibitmap # Bits
  /\ WriteEntry(call.at, call.name, Allocate(ibitmap))
  /\ \E junk \in Junk :
       inodes' = [inodes EXCEPT ![Allocate(ibitmap)] = [Blank EXCEPT !.single_ind = junk]]
  /\ call' = Idle
  /\ UNCHANGED <<ibitmap, dbitmap, ptrs>>

(* The rest of create_file: the entry and an empty inode whose pointers    *)
(* are not initialised.                                                    *)
CreateEntry ==
  /\ call.pc = "create"
  /\ ibitmap # Bits
  /\ ibitmap' = ibitmap \cup {Allocate(ibitmap)}
  /\ WriteEntry(call.at, call.name, Allocate(ibitmap))
  /\ \E junk \in Junk :
       inodes' = [inodes EXCEPT ![Allocate(ibitmap)] =
                    [Blank EXCEPT !.single_ind = junk,
                                  !.direct = [p \in DOMAIN @ |-> junk]]]
  /\ call' = Idle
  /\ UNCHANGED <<dbitmap, ptrs>>

(* No inode is free: the -1 becomes an inode number, the entry is written, *)
(* and the store of the inode is rejected as beyond the device.            *)
CreateUnnoticed ==
  /\ call.pc = "create"
  /\ ibitmap = Bits
  /\ WriteEntry(call.at, call.name, NOINODE)
  /\ call' = Idle
  /\ UNCHANGED <<ibitmap, dbitmap, inodes, ptrs>>

(* Whoever opens such an entry works on an inode that was never read.      *)
OpenUnnoticed ==
  /\ call = Idle
  /\ \E u \in RootUnits : Entry(u).inode = NOINODE
  /\ call' = [pc |-> "undefined"]
  /\ UNCHANGED <<ibitmap, dbitmap, inodes, ptrs, data, shadow>>

(* sys_write to a file opened with O_TRUNC: grow it if need be, ignore     *)
(* whether that worked, and write.                                         *)
sys_write(name) ==
  /\ call = Idle
  /\ \E w \in Writes, v \in Values, u \in Matches(name) :
       LET inum == Entry(u).inode
           then == [pc |-> "write", inum |-> inum, at |-> w[1], n |-> w[2], v |-> v]
       IN  /\ inum # NOINODE
           /\ IF inodes[inum].size < w[1] + w[2]
              THEN Truncate(inum, w[1] + w[2], then)
              ELSE call' = then
  /\ UNCHANGED <<ibitmap, dbitmap, inodes, ptrs, data, shadow>>

wrapped_write ==
  /\ call.pc = "write"
  /\ IF call.at + call.n > inodes[call.inum].size
     THEN UNCHANGED <<data, shadow>>
     ELSE WriteUnits(call.inum, call.at, call.n,
                     [u \in Units |-> [value |-> call.v, unit |-> u]])
  /\ call' = Idle
  /\ UNCHANGED <<ibitmap, dbitmap, inodes, ptrs>>

Undefined == call.pc = "undefined" /\ UNCHANGED vars

Kernel ==
  \/ GrowDirect \/ GrowFirstSingle \/ GrowSingle \/ NoSpace \/ Truncated
  \/ CreateEntry \/ CreateUnnoticed \/ wrapped_write

Next ==
  \/ Kernel
  \/ \E name \in Names : create_file(name) \/ sys_write(name)
  \/ OpenUnnoticed
  \/ Undefined

Spec == Init /\ [][Next]_vars

(* The kernel runs with interrupts off: a call that has started goes on.   *)
FairSpec == Spec /\ WF_vars(Kernel)
-----------------------------------------------------------------------------
Files == {i \in ibitmap : i >= ROOT}

(* Where a file holds a block: its pages, and MaxPages for the indirect    *)
(* block.                                                                  *)
Places(i) ==
  LET n == Pages(inodes[i].size)
  IN  (0 .. n - 1) \cup (IF n > DIRECT_PTRS THEN {MaxPages} ELSE {})

BlockAt(i, p) ==
  IF p = MaxPages THEN inodes[i].single_ind ELSE phy_page(inodes[i], p)

(* Whatever grows in whatever order, and wherever a full disk cuts a       *)
(* truncation short, every block a file reaches is marked in the bitmap,   *)
(* is no metadata, and belongs to one place of one file (fs_file.c:93-108, *)
(* filesystem.c:178).                                                      *)
BlocksOwnedOnce ==
  \A i \in Files : \A p \in Places(i) :
    /\ BlockAt(i, p) \in dbitmap
    /\ BlockAt(i, p) >= META
    /\ \A j \in Files : \A q \in Places(j) :
         BlockAt(i, p) = BlockAt(j, q) => i = j /\ p = q

(* What translate_fs finds at an offset is what was last written there     *)
(* through this file (fs_file.c:28-70): the pointers that truncate stores  *)
(* and the ones that translate_fs follows are the same, also after failed  *)
(* writes and growth of other files.                                       *)
ReadsBackWrites ==
  \A i \in Files : \A u \in 0 .. inodes[i].size - 1 :
    shadow[i][u] # Unwritten =>
      data[phy_page(inodes[i], u \div PAGE)][u % PAGE] = shadow[i][u]

(* Between calls the directory and the inode bitmap agree: every entry has *)
(* a name of its own, every file's inode is marked and has one entry, and  *)
(* only a creation that found no inode leaves an entry without one         *)
(* (filesystem.c:214-247).                                                 *)
DirectoryNamesInodes ==
  call = Idle =>
    /\ \A u, w \in RootUnits : Entry(u).name = Entry(w).name => u = w
    /\ {Entry(u).inode : u \in RootUnits} \ {NOINODE} = Files
    /\ \A u, w \in RootUnits \ {0, 1} :
         Entry(u).inode = Entry(w).inode /\ Entry(u).inode # NOINODE => u = w
    /\ (\E u \in RootUnits : Entry(u).inode = NOINODE) => ibitmap = Bits

(* Every system call returns: the loop of fs_file_truncate ends, with the  *)
(* file grown or with the disk full (fs_file.c:93).                        *)
CallReturns == call.pc # "idle" ~> call.pc \in {"idle", "undefined"}
==============================================================================
