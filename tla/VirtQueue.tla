------------------------------ MODULE VirtQueue ------------------------------
(***************************************************************************)
(* A virtqueue (kernel/drivers/virtio.c): the driver side, as the block    *)
(* and GPU drivers use it, running against the device.  The driver puts    *)
(* one request at a time on the queue and spins until the device has used  *)
(* it.  Descriptors, avail ring and used ring are shared memory: each      *)
(* store that the other side can see, between two fences, is a step of its *)
(* own.                                                                    *)
(***************************************************************************)
EXTENDS Integers

CONSTANTS
  NUM_DESC,     \* VIRTIO_NUM_DESC, a power of two
  IDX_MOD,      \* 2^16: avail->idx and used->idx are u16
  MaxRequests,  \* bound: requests made in a behaviour
  PAGESIZE,
  Shapes,       \* the <<num_inputs, num_outputs>> pairs each driver asks for
  Modes         \* which driver, and whether the feature it asks for is negotiated

Drivers == {"blk", "gpu"}

ASSUME VirtQueueAssumption ==
  /\ NUM_DESC \in Nat \ {0}
  /\ IDX_MOD \in Nat \ {0}
  /\ IDX_MOD % NUM_DESC = 0
  /\ MaxRequests \in Nat
  /\ PAGESIZE \in Nat \ {0, 1}
  /\ Shapes \in [Drivers -> SUBSET (Nat \X (Nat \ {0}))]
  /\ Modes \subseteq Drivers \X BOOLEAN

VARIABLES
  mode,            \* the driver and its negotiated feature, as init_queue is told
  pc,              \* where queue_add_notify_pop is
  shape,           \* the request in progress
  token,           \* head of the request in progress
  free_head, num_used, avail_idx, last_used_idx,  \* fields of VirtIOQueue
  desc_shadow,     \* the driver's private copy of the descriptors
  indirect_lists,  \* the indirect list each descriptor points to, or NoList
  desc,            \* shared: the descriptor table
  avail,           \* shared: avail->ring and avail->idx
  used,            \* shared: used->ring, idx, flags and avail_event
  queue_notify,    \* a write to the notify register the device has not seen
  dev              \* the device: its state, last_avail, the chain it works on

queue == <<free_head, num_used, desc_shadow, indirect_lists, desc>>
vars  == <<mode, pc, shape, token, queue, avail_idx, last_used_idx, avail, used,
           queue_notify, dev>>

Descs  == 0 .. NUM_DESC - 1
NoList == <<>>
driver    == mode[1]
indirect  == driver = "blk" /\ mode[2]
event_idx == mode[2]
Needed(s) == s[1] + s[2]

Init ==
  /\ mode \in Modes
  /\ pc = "idle"
  /\ shape = <<0, 1>>
  /\ token = 0
  /\ free_head = 0
  /\ num_used = 0
  /\ avail_idx = 0
  /\ last_used_idx = 0
  /\ desc_shadow = [d \in Descs |-> [addr |-> 0, flags |-> {},
                                     next |-> IF d < NUM_DESC - 1 THEN d + 1 ELSE 0]]
  /\ indirect_lists = [d \in Descs |-> NoList]
  /\ desc = desc_shadow
  /\ avail = [ring |-> [i \in Descs |-> 0], idx |-> 0]
  /\ used = [ring |-> [i \in Descs |-> 0], idx |-> 0, no_notify |-> FALSE, avail_event |-> 0]
  /\ queue_notify = FALSE
  /\ dev = [state |-> "asleep", last_avail |-> 0, head |-> 0, chain |-> NoList, done |-> 0]

-----------------------------------------------------------------------------
(* add_queue.  The block driver passes the frame numbers of its buffers    *)
(* (virtio_blk.c:41), the GPU driver their addresses (virtio_gpu.c:61).    *)
Flags(s, i) ==
  IF i < s[1] THEN {"NEXT"}
  ELSE IF i # Needed(s) - 1 THEN {"WRITE", "NEXT"} ELSE {"WRITE"}

PAGE_2_ADDR(pfn) == pfn * PAGESIZE

(* The frame of buffer i of the n-th request, and that of the page which   *)
(* dmalloc gives for its indirect list.  Each request has frames of its    *)
(* own, so that a stale descriptor shows.                                  *)
Frame(n, i)   == n * (NUM_DESC + 1) + i
ListFrame(n)  == Frame(n, NUM_DESC)

Argument(i) ==
  LET pfn == Frame(avail_idx + 1, i)
  IN  IF driver = "blk" THEN pfn ELSE PAGE_2_ADDR(pfn)

MutIndirectUnscaled(i) == Argument(i)

(* An indirect list is filled with scaled arguments, the descriptor table  *)
(* with the arguments as they are.                                         *)
IndirectAddr(i) == PAGE_2_ADDR(Argument(i))
DirectAddr(i)   == Argument(i)

(* The i-th descriptor of the free list. *)
Free(n) ==
  LET F[i \in 0 .. n] == IF i = 0 THEN free_head ELSE desc_shadow[F[i - 1]].next
  IN  F

Full(s) ==
  \/ num_used >= NUM_DESC
  \/ Needed(s) > NUM_DESC
  \/ ~indirect /\ num_used + Needed(s) > NUM_DESC

AddFails(s) ==
  /\ Full(s)
  /\ pc' = "idle"
  /\ UNCHANGED <<token, queue>>

AddIndirect(s) ==
  /\ ~Full(s)
  /\ indirect /\ Needed(s) > 1
  /\ IF indirect_lists[free_head] # NoList
     THEN pc' = "panicked" /\ UNCHANGED <<token, queue>>
     ELSE /\ indirect_lists' = [indirect_lists EXCEPT ![free_head] =
               [i \in 0 .. Needed(s) - 1 |->
                  [addr |-> IndirectAddr(i), flags |-> Flags(s, i), next |-> i + 1]]]
          /\ desc_shadow' = [desc_shadow EXCEPT ![free_head].addr = PAGE_2_ADDR(ListFrame(avail_idx + 1)),
                                                ![free_head].flags = {"INDIRECT"}]
          /\ desc' = [desc EXCEPT ![free_head] = desc_shadow'[free_head]]
          /\ token' = free_head
          /\ free_head' = desc_shadow[free_head].next
          /\ num_used' = num_used + 1
          /\ pc' = "ring"

AddDirect(s) ==
  /\ ~Full(s)
  /\ ~(indirect /\ Needed(s) > 1)
  /\ LET F == Free(Needed(s))
         Filled(table) ==
           [d \in Descs |->
              IF \E i \in 0 .. Needed(s) - 1 : F[i] = d
              THEN LET i == CHOOSE i \in 0 .. Needed(s) - 1 : F[i] = d
                   IN  [addr |-> DirectAddr(i), flags |-> Flags(s, i),
                        next |-> desc_shadow[d].next]
              ELSE table[d]]
     IN /\ desc_shadow' = Filled(desc_shadow)
        /\ desc' = Filled(desc)
        /\ free_head' = F[Needed(s)]
  /\ token' = free_head
  /\ num_used' = num_used + Needed(s)
  /\ pc' = "ring"
  /\ UNCHANGED indirect_lists

Add ==
  /\ pc = "idle"
  /\ avail_idx < MaxRequests
  /\ \E s \in Shapes[driver] :
       /\ shape' = s
       /\ AddFails(s) \/ AddIndirect(s) \/ AddDirect(s)
  /\ UNCHANGED <<mode, avail_idx, last_used_idx, avail, used, queue_notify, dev>>

PublishRing ==
  /\ pc = "ring"
  /\ avail' = [avail EXCEPT !.ring[avail_idx % NUM_DESC] = token]
  /\ pc' = "idx"
  /\ UNCHANGED <<mode, shape, token, queue, avail_idx, last_used_idx, used, queue_notify, dev>>

PublishIdx ==
  /\ pc = "idx"
  /\ avail_idx' = avail_idx + 1
  /\ avail' = [avail EXCEPT !.idx = avail_idx' % IDX_MOD]
  /\ pc' = "notify"
  /\ UNCHANGED <<mode, shape, token, queue, last_used_idx, used, queue_notify, dev>>

mut_notify_inverted ==
  IF event_idx THEN avail_idx < (used.avail_event + 1) % NUM_DESC
               ELSE used.no_notify

should_notify ==
  IF event_idx THEN avail_idx >= (used.avail_event + 1) % NUM_DESC
               ELSE ~used.no_notify

Notify ==
  /\ pc = "notify"
  /\ queue_notify' = (queue_notify \/ should_notify)
  /\ pc' = "poll"
  /\ UNCHANGED <<mode, shape, token, queue, avail_idx, last_used_idx, avail, used, dev>>

-----------------------------------------------------------------------------
(* recycle_descriptors: the chain that starts at the token goes back to    *)
(* the front of the free list.                                             *)
Chain(h) ==
  LET C[i \in Descs] == IF i = 0 THEN h ELSE desc_shadow[C[i - 1]].next
      last == CHOOSE i \in Descs :
                /\ "NEXT" \notin desc_shadow[C[i]].flags
                /\ \A j \in Descs : j < i => "NEXT" \in desc_shadow[C[j]].flags
  IN  [i \in 0 .. last |-> C[i]]

MutRecycleHeadOnly(h) ==
  /\ desc_shadow' = [desc_shadow EXCEPT ![h].addr = 0, ![h].next = free_head]
  /\ num_used' = num_used - 1
  /\ free_head' = h
  /\ UNCHANGED <<desc, indirect_lists>>

Recycle(h) ==
  IF "INDIRECT" \in desc_shadow[h].flags
  THEN /\ desc_shadow' = [desc_shadow EXCEPT ![h].addr = 0, ![h].next = free_head]
       /\ indirect_lists' = [indirect_lists EXCEPT ![h] = NoList]
       /\ num_used' = num_used - 1
       /\ free_head' = h
       /\ UNCHANGED desc
  ELSE LET c    == Chain(h)
           tail == CHOOSE i \in DOMAIN c : \A j \in DOMAIN c : j <= i
           In(d) == \E i \in DOMAIN c : c[i] = d
       IN /\ desc_shadow' = [d \in Descs |->
               [addr  |-> IF In(d) THEN 0 ELSE desc_shadow[d].addr,
                flags |-> desc_shadow[d].flags,
                next  |-> IF d = c[tail] THEN free_head ELSE desc_shadow[d].next]]
          /\ desc' = [d \in Descs |-> IF In(d) /\ d # c[tail] THEN desc_shadow'[d] ELSE desc[d]]
          /\ num_used' = num_used - (tail + 1)
          /\ free_head' = h
          /\ UNCHANGED indirect_lists

MutNoWait == TRUE

(* The spin loop compares last_used_idx, a u32, with used->idx, a u16. *)
UsedSomething == last_used_idx # used.idx

Pop ==
  /\ pc = "poll"
  /\ UsedSomething
  /\ IF used.ring[last_used_idx % NUM_DESC] # token
     THEN UNCHANGED <<queue, last_used_idx>>
     ELSE /\ Recycle(token)
          /\ last_used_idx' = last_used_idx + 1
  /\ pc' = "idle"
  /\ UNCHANGED <<mode, shape, token, avail_idx, avail, used, queue_notify, dev>>

Driver == PublishRing \/ PublishIdx \/ Notify \/ Pop

-----------------------------------------------------------------------------
(* The device, as the driver may assume it: it looks at the avail ring     *)
(* when notified, may suppress notifications while it does, and looks once *)
(* more after it has asked for them again.                                 *)
driverVars == <<mode, pc, shape, token, queue, avail_idx, last_used_idx, avail>>

DevWake ==
  /\ dev.state = "asleep"
  /\ queue_notify
  /\ queue_notify' = FALSE
  /\ dev' = [dev EXCEPT !.state = "awake"]
  /\ \E n \in BOOLEAN : used' = [used EXCEPT !.no_notify = n]
  /\ UNCHANGED driverVars

DevWork == dev.state = "awake" /\ dev.last_avail # avail.idx

(* The device reads the head, then the descriptors: the table's, or those  *)
(* of the indirect list.                                                   *)
Seen(h) ==
  IF "INDIRECT" \in desc[h].flags THEN indirect_lists[h]
  ELSE LET C[i \in Descs] == IF i = 0 THEN h ELSE desc[C[i - 1]].next
           len == CHOOSE n \in 1 .. NUM_DESC :
                    /\ n < NUM_DESC => "NEXT" \notin desc[C[n - 1]].flags
                    /\ \A j \in 0 .. n - 2 : "NEXT" \in desc[C[j]].flags
       IN  [i \in 0 .. len - 1 |-> desc[C[i]]]

DevFetch ==
  /\ DevWork
  /\ LET h == avail.ring[dev.last_avail % NUM_DESC]
     IN  dev' = [dev EXCEPT !.state = "busy", !.head = h, !.chain = Seen(h),
                            !.last_avail = (@ + 1) % IDX_MOD]
  /\ UNCHANGED <<driverVars, used, queue_notify>>

DevWriteUsed ==
  /\ dev.state = "busy"
  /\ used' = [used EXCEPT !.ring[used.idx % NUM_DESC] = dev.head]
  /\ dev' = [dev EXCEPT !.state = "used", !.chain = NoList, !.done = @ + 1]
  /\ UNCHANGED <<driverVars, queue_notify>>

DevPublishUsed ==
  /\ dev.state = "used"
  /\ \E e \in {used.avail_event, dev.last_avail} :
       used' = [used EXCEPT !.idx = (@ + 1) % IDX_MOD, !.avail_event = e]
  /\ dev' = [dev EXCEPT !.state = "awake"]
  /\ UNCHANGED <<driverVars, queue_notify>>

DevDrained ==
  /\ dev.state = "awake"
  /\ dev.last_avail = avail.idx
  /\ used' = [used EXCEPT !.no_notify = FALSE]
  /\ dev' = [dev EXCEPT !.state = "recheck"]
  /\ UNCHANGED <<driverVars, queue_notify>>

DevRecheck ==
  /\ dev.state = "recheck"
  /\ dev' = [dev EXCEPT !.state = IF dev.last_avail = avail.idx THEN "asleep" ELSE "awake"]
  /\ UNCHANGED <<driverVars, used, queue_notify>>

Device == DevWake \/ DevFetch \/ DevWriteUsed \/ DevPublishUsed \/ DevDrained \/ DevRecheck

Next == Add \/ Driver \/ Device

(* The kernel spins with interrupts off, so the driver goes on; the device *)
(* is assumed to serve its queue.                                          *)
Spec     == Init /\ [][Next]_vars
FairSpec == Spec /\ WF_vars(Driver) /\ WF_vars(Device)

-----------------------------------------------------------------------------
(* While the device works on a chain, the driver still waits for it, and   *)
(* the chain is exactly the buffers of the request in progress, inputs     *)
(* first, then outputs, at their physical addresses.  The driver hands the *)
(* pages back to the allocator as soon as it stops waiting (virtio_blk.c:  *)
(* 48-49, virtio.c:266).  The addresses are right in three modes of four:  *)
(* a block driver without indirect descriptors (virtio_blk.c:19) has its   *)
(* frame numbers stored as addresses (virtio.c:191, 201).                  *)
FramesAsAddresses == mode = <<"blk", FALSE>>
DeviceServesCurrentRequest ==
  dev.state = "busy" =>
    /\ pc \in {"notify", "poll"}
    /\ DOMAIN dev.chain = 0 .. Needed(shape) - 1
    /\ \A i \in DOMAIN dev.chain :
         /\ "WRITE" \in dev.chain[i].flags <=> i >= shape[1]
         /\ ~FramesAsAddresses => dev.chain[i].addr = PAGE_2_ADDR(Frame(avail_idx, i))

(* queue_add_notify_pop returns only for requests the device has used: a   *)
(* block read never hands out the page before the data is in it.           *)
NoEarlyReturn == last_used_idx <= dev.done

(* add_queue and recycle_descriptors conserve the descriptors: the free    *)
(* list never repeats one, and it holds all of them, and no indirect list  *)
(* is left allocated, when no request is in progress.                      *)
DescriptorsConserved ==
  /\ LET F == Free(NUM_DESC - 1)
     IN  \A i, j \in 0 .. NUM_DESC - num_used - 1 : F[i] = F[j] => i = j
  /\ pc = "idle" => num_used = 0 /\ \A d \in Descs : indirect_lists[d] = NoList

(* Every request is answered: whether or not the driver rings the bell,    *)
(* the device finds the request and the spin loop ends.                    *)
RequestCompletes == pc = "ring" ~> pc = "idle"
==============================================================================
