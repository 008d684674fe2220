------------------------------ MODULE BlockCache ------------------------------
(***************************************************************************)
(* The buffered block device (kernel/block_device.c) over the virtio disk, *)
(* and sync_filesystem (kernel/filesystem.c).  The buffers are linked by   *)
(* their next pointers, from buffer_head on.  A byte range is moved block  *)
(* by block; one iteration of translate_bytes is one step.                 *)
(***************************************************************************)
EXTENDS Integers

CONSTANTS
  PAGESIZE, NumBlocks, Values, Zero,
  Requests,      \* the <<offset, size>> pairs the file system asks for
  CACHE_BLOCKS,  \* buffers of the cache
  Junk,          \* what an unwritten page frame holds
  IoErrors       \* TRUE when the device may answer with an error status

ASSUME BlockCacheAssumption ==
  /\ PAGESIZE \in Nat \ {0}
  /\ NumBlocks \in Nat \ {0}
  /\ CACHE_BLOCKS \in Nat \ {0, 1}
  /\ Zero \in Values
  /\ Junk \notin Values
  /\ IoErrors \in BOOLEAN
  /\ \A r \in Requests :
       /\ r \in Nat \X Nat
       /\ r[1] + r[2] <= NumBlocks * PAGESIZE

VARIABLES
  disk,        \* contents of the blocks on the device
  buf,         \* buffer_list: valid, dirty and block_id of each buffer
  mem,         \* the page each buffer's vpn points to
  buffer_head, \* the most recently used buffer, or NULL
  next,        \* the next pointer of each buffer
  cache_size,  \* cache_size
  op,          \* the locals of translate_bytes, Idle between calls
  out,         \* the caller's buffer after a read, Nothing otherwise
  off,         \* TRUE after sync_filesystem and shutdown
  store        \* history: what all the writes so far put where

vars == <<disk, buf, mem, buffer_head, next, cache_size, op, out, off, store>>

Blocks  == 0 .. NumBlocks - 1
Cells   == 0 .. PAGESIZE - 1
Addr    == 0 .. NumBlocks * PAGESIZE - 1
Buffers == 0 .. CACHE_BLOCKS - 1
NULL    == -1
Nothing == <<>>
Idle    == [kind |-> "idle"]
Fresh(b) == [valid |-> FALSE, dirty |-> FALSE, block_id |-> b]

Init ==
  /\ disk = [b \in Blocks |-> [c \in Cells |-> Zero]]
  /\ buf = [s \in Buffers |-> Fresh(0)]
  /\ mem = [s \in Buffers |-> [c \in Cells |-> Junk]]
  /\ buffer_head = NULL
  /\ next = [s \in Buffers |-> NULL]
  /\ cache_size = 0
  /\ op = Idle
  /\ out = Nothing
  /\ off = FALSE
  /\ store = [a \in Addr |-> Zero]

-----------------------------------------------------------------------------
(* The device answers OK, or an error that leaves the data untouched. *)
Answers == IF IoErrors THEN BOOLEAN ELSE {TRUE}

(* w[1], ..., w[k] are the first k buffers from buffer_head along next. *)
Chain(k, w) ==
  /\ w[1] = buffer_head
  /\ \A i \in 1 .. k - 1 : next[w[i]] = w[i + 1]

MutMatchButLast(b, s) == buf[s].block_id = b /\ next[s] # NULL

Match(b, s) == buf[s].block_id = b

(* The buffers that ptr goes through in the loop of get_block_buffer: it   *)
(* stops at a match, or at the last buffer of the list.                    *)
Search(b, k, w) ==
  /\ Chain(k, w)
  /\ \A i \in 1 .. k - 1 : ~Match(b, w[i])
  /\ Match(b, w[k]) \/ next[w[k]] = NULL

WriteBack(s) ==
  IF buf[s].valid /\ buf[s].dirty
  THEN \E ok \in Answers :
         disk' = IF ok THEN [disk EXCEPT ![buf[s].block_id] = mem[s]] ELSE disk
  ELSE UNCHANGED disk

MutUnlinkSwapped(prev, ptr) == [next EXCEPT ![ptr] = buffer_head, ![prev] = buffer_head]

(* prev->next = ptr->next; ptr->next = buffer_head *)
Unlink(prev, ptr) == [next EXCEPT ![prev] = next[ptr], ![ptr] = buffer_head]

(* get_block_buffer(b) returns buffer s: a hit moves it to the front, a    *)
(* miss takes the next unused buffer, and when there is none the last one  *)
(* of the list is written back and returned with its header as it was.     *)
Hit(b, s) ==
  \E k \in 1 .. CACHE_BLOCKS : \E w \in [1 .. k -> Buffers] :
    /\ Search(b, k, w)
    /\ s = w[k]
    /\ Match(b, s)
    /\ next' = IF k = 1 THEN next ELSE Unlink(w[k - 1], s)
    /\ buffer_head' = s
    /\ UNCHANGED <<cache_size, disk>>

Miss(b, s) ==
  /\ \/ buffer_head = NULL
     \/ \E k \in 1 .. CACHE_BLOCKS : \E w \in [1 .. k -> Buffers] :
          Search(b, k, w) /\ ~Match(b, w[k])
  /\ cache_size < CACHE_BLOCKS
  /\ s = cache_size
  /\ next' = [next EXCEPT ![s] = buffer_head]
  /\ buffer_head' = s
  /\ cache_size' = cache_size + 1
  /\ UNCHANGED disk

(* The store to prev->next needs a prev: the list has two buffers or more. *)
Evict(b, s) ==
  \E k \in 2 .. CACHE_BLOCKS : \E w \in [1 .. k -> Buffers] :
    /\ Search(b, k, w)
    /\ s = w[k]
    /\ ~Match(b, s)
    /\ cache_size = CACHE_BLOCKS
    /\ WriteBack(s)
    /\ next' = [next EXCEPT ![s] = buffer_head, ![w[k - 1]] = NULL]
    /\ buffer_head' = s
    /\ UNCHANGED cache_size

get_block_buffer(b, s) == Hit(b, s) \/ Miss(b, s) \/ Evict(b, s)

Header(b, s) == IF s >= cache_size THEN Fresh(b) ELSE buf[s]

-----------------------------------------------------------------------------
PageUp(a) == (a \div PAGESIZE) + (IF a % PAGESIZE = 0 THEN 0 ELSE 1)

Begin(kind, o, size, data) ==
  /\ op' = [kind |-> kind, off |-> o, size |-> size, data |-> data,
            block_id |-> o \div PAGESIZE, page_offset |-> o % PAGESIZE,
            page_max |-> (o % PAGESIZE) + size, pos |-> 0]
  /\ out' = Nothing
  /\ UNCHANGED <<disk, buf, mem, buffer_head, next, cache_size, off, store>>

read_bytes ==
  /\ op = Idle /\ ~off
  /\ \E r \in Requests : Begin("read", r[1], r[2], [i \in 0 .. r[2] - 1 |-> Junk])

write_bytes ==
  /\ op = Idle /\ ~off
  /\ \E r \in Requests : \E data \in [0 .. r[2] - 1 -> Values] :
       Begin("write", r[1], r[2], data)

(* One iteration of the loop of translate_bytes. *)
More     == op # Idle /\ op.block_id < PageUp(op.off + op.size)
TempPage == IF op.page_max > PAGESIZE THEN PAGESIZE ELSE op.page_max
Advance(data) ==
  op' = [op EXCEPT !.data = data,
                   !.block_id = @ + 1,
                   !.page_max = IF @ > PAGESIZE THEN @ - PAGESIZE ELSE @,
                   !.pos = @ + TempPage - op.page_offset,
                   !.page_offset = 0]

(* The page of buffer s after read_block into it, if need be. *)
Loaded(need, ok, s) == IF need /\ ok THEN disk'[op.block_id] ELSE mem[s]

MutNeverReadsFirst(h) == FALSE

NeedForWrite(h) == ~h.valid /\ (op.page_offset # 0 \/ TempPage # PAGESIZE)

WriteBlock ==
  /\ More
  /\ op.kind = "write"
  /\ \E s \in Buffers, ok \in Answers :
       /\ get_block_buffer(op.block_id, s)
       /\ LET h    == Header(op.block_id, s)
              need == NeedForWrite(h)
              page == Loaded(need, ok, s)
          IN /\ buf' = [buf EXCEPT ![s] = [h EXCEPT !.valid = @ \/ (need /\ ok),
                                                    !.dirty = TRUE]]
             /\ mem' = [mem EXCEPT ![s] = [c \in Cells |->
                          IF c \in op.page_offset .. TempPage - 1
                          THEN op.data[op.pos + c - op.page_offset] ELSE page[c]]]
  /\ Advance(op.data)
  /\ UNCHANGED <<out, off, store>>

ReadBlock ==
  /\ More
  /\ op.kind = "read"
  /\ \E s \in Buffers, ok \in Answers :
       /\ get_block_buffer(op.block_id, s)
       /\ LET h    == Header(op.block_id, s)
              page == Loaded(~h.valid, ok, s)
          IN /\ buf' = [buf EXCEPT ![s] = [h EXCEPT !.valid = @ \/ ok]]
             /\ mem' = [mem EXCEPT ![s] = page]
             /\ Advance([i \in 0 .. op.size - 1 |->
                  IF i \in op.pos .. op.pos + TempPage - op.page_offset - 1
                  THEN page[op.page_offset + i - op.pos] ELSE op.data[i]])
  /\ UNCHANGED <<out, off, store>>

Return ==
  /\ op # Idle
  /\ ~More
  /\ op' = Idle
  /\ out' = IF op.kind = "read" THEN op.data ELSE Nothing
  /\ store' = IF op.kind = "read" THEN store
              ELSE [a \in Addr |-> IF a \in op.off .. op.off + op.size - 1
                                   THEN op.data[a - op.off] ELSE store[a]]
  /\ UNCHANGED <<disk, buf, mem, buffer_head, next, cache_size, off>>

(* Buffer s is on the list. *)
Listed(s) ==
  \E k \in 1 .. CACHE_BLOCKS : \E w \in [1 .. k -> Buffers] : Chain(k, w) /\ w[k] = s

MutSyncStopsEarly ==
  {s \in Buffers : Listed(s) /\ next[s] # NULL /\ buf[s].valid /\ buf[s].dirty}

(* schedule() finds nobody to run: sync_filesystem writes every valid and  *)
(* dirty buffer of the list back, then the machine is switched off.        *)
ToSync == {s \in Buffers : Listed(s) /\ buf[s].valid /\ buf[s].dirty}

sync_filesystem ==
  /\ op = Idle /\ ~off
  /\ \E failed \in IF IoErrors THEN SUBSET ToSync ELSE {{}} :
       disk' = [b \in Blocks |->
                  IF \E s \in ToSync \ failed : buf[s].block_id = b
                  THEN mem[CHOOSE s \in ToSync \ failed : buf[s].block_id = b]
                  ELSE disk[b]]
  /\ off' = TRUE
  /\ UNCHANGED <<buf, mem, buffer_head, next, cache_size, op, out, store>>

Off == off /\ UNCHANGED vars

Next ==
  \/ read_bytes \/ write_bytes \/ WriteBlock \/ ReadBlock \/ Return
  \/ sync_filesystem \/ Off

Spec == Init /\ [][Next]_vars

-----------------------------------------------------------------------------
(* w is the whole list from buffer_head: it ends with NULL, and visits     *)
(* every buffer in use once.                                               *)
IsList(w) ==
  /\ IF cache_size = 0 THEN buffer_head = NULL
     ELSE Chain(cache_size, w) /\ next[w[cache_size]] = NULL
  /\ \A j, k \in 1 .. cache_size : w[j] = w[k] => j = k
  /\ \A s \in 0 .. cache_size - 1 : \E k \in 1 .. cache_size : w[k] = s

(* The pointer stores of get_block_buffer neither lose a buffer, nor       *)
(* repeat one, nor close a cycle: from buffer_head the next pointers lead  *)
(* through all buffers in use to NULL (block_device.c:15-20, 38-42, 53-55).*)
ListIsPermutation ==
  \E w \in [1 .. cache_size -> 0 .. cache_size - 1] : IsList(w)

(* No block is cached twice, so no buffer can shadow newer data. *)
NoBlockCachedTwice ==
  \A s, t \in 0 .. cache_size - 1 : buf[s].block_id = buf[t].block_id => s = t

(* What a reader of byte c of block b gets, and what it should get: the    *)
(* bytes written so far, those of the write in progress included.          *)
Holds(s, b)  == s < cache_size /\ buf[s].block_id = b /\ buf[s].valid
Current(b, c) ==
  IF \E s \in Buffers : Holds(s, b)
  THEN mem[CHOOSE s \in Buffers : Holds(s, b)][c]
  ELSE disk[b][c]
Expected(a) ==
  IF op.kind = "write" /\ a \in op.off .. op.off + op.pos - 1
  THEN op.data[a - op.off] ELSE store[a]

(* The cache is transparent: whatever was written is what a read finds, in *)
(* the buffer if it is valid and on the disk otherwise.                    *)
Coherent ==
  \A b \in Blocks, c \in Cells : Current(b, c) = Expected(b * PAGESIZE + c)

(* The cache with its write-back implements the plain byte array of        *)
(* BlockStore: reads return what was last written, and the disk holds all  *)
(* of it when the machine is off (block_device.c, filesystem.c:28-36).     *)
Store == INSTANCE BlockStore WITH
  req   <- CASE op.kind = "idle"  -> Idle
             [] op.kind = "read"  -> [kind |-> "read", off |-> op.off, size |-> op.size]
             [] op.kind = "write" -> [kind |-> "write", off |-> op.off,
                                      size |-> op.size, data |-> op.data],
  image <- IF off THEN [a \in Addr |-> disk[a \div PAGESIZE][a % PAGESIZE]] ELSE Nothing

(* The refinement: every behaviour of the cache is one of the byte array. *)
ImplementsStore == Store!Spec

(* block_device.h:9 calls this a cache of blocks, and block_device.c:46-47 *)
(* reads the new block into the evicted buffer: a read returns the bytes   *)
(* of the block it asks for.                                               *)
ReadReturnsBlock ==
  op.kind = "read" /\ ~More =>
    \A i \in 0 .. op.size - 1 : op.data[i] = store[op.off + i]
==============================================================================
