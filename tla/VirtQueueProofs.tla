--------------------------- MODULE VirtQueueProofs ---------------------------
(***************************************************************************)
(* queue_add_notify_pop returns for no request that the device has not     *)
(* used, for every queue size and every shape of requests, as long as no   *)
(* more requests are made than a u16 can tell apart.                       *)
(***************************************************************************)
EXTENDS VirtQueue, TLAPS

(* How many chains the device has fetched, and how many it has published. *)
Fetched   == dev.done + (IF dev.state = "busy" THEN 1 ELSE 0)
Published == dev.done - (IF dev.state = "used" THEN 1 ELSE 0)

DevStates == {"asleep", "awake", "busy", "used", "recheck"}

(* The records have their fields, whatever is in the rings. *)
RecordsOK ==
  /\ dev = [state |-> dev.state, last_avail |-> dev.last_avail, head |-> dev.head,
            chain |-> dev.chain, done |-> dev.done]
  /\ dev.state \in DevStates
  /\ dev.done \in Nat
  /\ avail = [ring |-> avail.ring, idx |-> avail.idx]
  /\ used = [ring |-> used.ring, idx |-> used.idx, no_notify |-> used.no_notify,
             avail_event |-> used.avail_event]

(* The inductive invariant: the 16-bit indices are the counts they stand   *)
(* for, modulo 2^16; no side overtakes the other; and the driver pops at   *)
(* most once for each request.                                             *)
IndexInv ==
  /\ RecordsOK
  /\ avail_idx \in 0 .. MaxRequests
  /\ last_used_idx \in Nat
  /\ avail.idx = avail_idx % IDX_MOD
  /\ dev.last_avail = Fetched % IDX_MOD
  /\ used.idx = Published % IDX_MOD
  /\ last_used_idx <= Published
  /\ Fetched <= avail_idx
  /\ pc \in {"ring", "idx"} => avail_idx < MaxRequests
  /\ pc \in {"notify", "poll"} => last_used_idx < avail_idx

LEMMA NoWrap ==
  ASSUME NEW m \in Nat \ {0}, NEW x \in 0 .. m - 1 PROVE x % m = x
OBVIOUS

LEMMA IndexInit == Init => IndexInv
<1> SUFFICES ASSUME Init PROVE IndexInv
  OBVIOUS
<1>1. RecordsOK
  BY DEF Init, RecordsOK, DevStates
<1>2. 0 % IDX_MOD = 0
  BY NoWrap, VirtQueueAssumption
<1>. QED
  BY <1>1, <1>2, VirtQueueAssumption DEF Init, IndexInv, Fetched, Published

(* Steps that leave the indices alone. *)
LEMMA QuietStep ==
  ASSUME IndexInv, RecordsOK', UNCHANGED <<avail_idx, last_used_idx>>,
         avail'.idx = avail.idx, used'.idx = used.idx,
         dev'.last_avail = dev.last_avail, dev'.done = dev.done,
         Fetched' = Fetched, Published' = Published,
         pc' \in {"ring", "idx"} => avail_idx < MaxRequests,
         pc' \in {"notify", "poll"} => pc \in {"notify", "poll"}
  PROVE  IndexInv'
BY DEF IndexInv

LEMMA DriverInv ==
  ASSUME MaxRequests <= IDX_MOD, IndexInv, Add \/ Driver PROVE IndexInv'
<1>1. CASE Add
  <2>1. /\ UNCHANGED <<avail_idx, last_used_idx, avail, used, dev>>
        /\ avail_idx < MaxRequests
        /\ pc' \in {"idle", "panicked", "ring"}
    BY <1>1 DEF Add, AddFails, AddIndirect, AddDirect
  <2>. QED
    BY <2>1, QuietStep DEF IndexInv, RecordsOK, Fetched, Published
<1>2. CASE PublishRing
  <2>1. /\ UNCHANGED <<avail_idx, last_used_idx, used, dev>>
        /\ avail' = [ring |-> avail'.ring, idx |-> avail.idx]
        /\ avail_idx < MaxRequests
        /\ pc' = "idx"
    BY <1>2 DEF PublishRing, IndexInv, RecordsOK
  <2>. QED
    BY <2>1, QuietStep DEF IndexInv, RecordsOK, Fetched, Published
<1>3. CASE PublishIdx
  <2>1. /\ UNCHANGED <<last_used_idx, used, dev>>
        /\ avail_idx' = avail_idx + 1
        /\ avail' = [ring |-> avail'.ring, idx |-> avail_idx' % IDX_MOD]
        /\ avail'.idx = avail_idx' % IDX_MOD
        /\ avail_idx < MaxRequests
        /\ pc' = "notify"
    BY <1>3 DEF PublishIdx, IndexInv, RecordsOK
  <2>2. RecordsOK'
    BY <2>1 DEF IndexInv, RecordsOK
  <2>3. Fetched' = Fetched /\ Published' = Published /\ Fetched \in Nat /\ Published \in Int
    BY <2>1 DEF Fetched, Published, IndexInv, RecordsOK
  <2>4. last_used_idx \in Nat /\ last_used_idx <= avail_idx
    BY <2>3 DEF IndexInv, RecordsOK, Fetched, Published
  <2>. QED
    BY <2>1, <2>2, <2>3, <2>4, VirtQueueAssumption DEF IndexInv
<1>4. CASE Notify
  BY <1>4, QuietStep DEF Notify, IndexInv, RecordsOK, Fetched, Published
<1>5. CASE Pop
  <2>1. /\ UNCHANGED <<avail_idx, avail, used, dev>>
        /\ pc = "poll" /\ pc' = "idle"
        /\ last_used_idx # used.idx
        /\ last_used_idx' \in {last_used_idx, last_used_idx + 1}
    BY <1>5 DEF Pop, UsedSomething
  <2>2. RecordsOK' /\ Fetched' = Fetched /\ Published' = Published /\ Published \in Int
    BY <2>1 DEF IndexInv, RecordsOK, Fetched, Published
  <2>3. last_used_idx \in Nat /\ last_used_idx < avail_idx /\ last_used_idx <= Published
    BY <2>1 DEF IndexInv
  <2>4. last_used_idx # Published
    <3>1. last_used_idx \in 0 .. IDX_MOD - 1
      BY <2>3, VirtQueueAssumption DEF IndexInv
    <3>2. last_used_idx % IDX_MOD = last_used_idx
      BY <3>1, NoWrap, VirtQueueAssumption
    <3>. QED
      BY <2>1, <3>2 DEF IndexInv
  <2>5. last_used_idx' \in Nat /\ last_used_idx' <= Published
    BY <2>1, <2>2, <2>3, <2>4
  <2>. QED
    BY <2>1, <2>2, <2>5 DEF IndexInv
<1>. QED
  BY <1>1, <1>2, <1>3, <1>4, <1>5 DEF Driver

LEMMA DeviceInv ==
  ASSUME MaxRequests <= IDX_MOD, IndexInv, Device PROVE IndexInv'
<1>1. /\ UNCHANGED <<pc, avail_idx, last_used_idx, avail>>
      /\ IDX_MOD \in Nat \ {0} /\ MaxRequests \in Nat
  BY VirtQueueAssumption DEF Device, DevWake, DevFetch, DevWriteUsed, DevPublishUsed,
     DevDrained, DevRecheck, driverVars
<1>2. CASE DevWake \/ DevDrained \/ DevRecheck
  <2>1. /\ dev.state \in {"asleep", "awake", "recheck"}
        /\ dev'.state \in {"asleep", "awake", "recheck"}
        /\ dev' = [dev EXCEPT !.state = dev'.state]
        /\ used' = [used EXCEPT !.no_notify = used'.no_notify]
    BY <1>2 DEF DevWake, DevDrained, DevRecheck, IndexInv, RecordsOK
  <2>2. /\ dev'.done = dev.done /\ dev'.last_avail = dev.last_avail
        /\ used'.idx = used.idx
        /\ RecordsOK'
    BY <1>1, <2>1 DEF IndexInv, RecordsOK, DevStates
  <2>3. Fetched' = Fetched /\ Published' = Published
    BY <2>1, <2>2 DEF Fetched, Published
  <2>. QED
    BY <1>1, <2>2, <2>3, QuietStep DEF IndexInv
<1>3. CASE DevFetch
  <2>1. /\ dev.state = "awake" /\ dev.last_avail # avail.idx
        /\ dev'.state = "busy" /\ dev'.done = dev.done
        /\ dev'.last_avail = (dev.last_avail + 1) % IDX_MOD
        /\ used' = used
        /\ RecordsOK'
    BY <1>1, <1>3 DEF DevFetch, DevWork, IndexInv, RecordsOK, DevStates
  <2>2. /\ Fetched \in Nat /\ Fetched' = Fetched + 1 /\ Published' = Published
        /\ Fetched < avail_idx
    BY <2>1 DEF Fetched, Published, IndexInv, RecordsOK
  <2>3. Fetched % IDX_MOD = Fetched
    BY <1>1, <2>2, NoWrap DEF IndexInv
  <2>. QED
    BY <1>1, <2>1, <2>2, <2>3 DEF IndexInv
<1>4. CASE DevWriteUsed
  <2>1. /\ dev.state = "busy" /\ dev'.state = "used" /\ dev'.done = dev.done + 1
        /\ dev'.last_avail = dev.last_avail
        /\ used'.idx = used.idx
        /\ RecordsOK'
    <3>1. /\ dev.state = "busy" /\ dev'.state = "used" /\ dev'.done = dev.done + 1
          /\ dev'.last_avail = dev.last_avail
          /\ dev' = [state |-> dev'.state, last_avail |-> dev'.last_avail,
                     head |-> dev'.head, chain |-> dev'.chain, done |-> dev'.done]
      BY <1>4 DEF DevWriteUsed, IndexInv, RecordsOK
    <3>2. /\ used'.idx = used.idx
          /\ used' = [ring |-> used'.ring, idx |-> used'.idx,
                      no_notify |-> used'.no_notify, avail_event |-> used'.avail_event]
      BY <1>4 DEF DevWriteUsed, IndexInv, RecordsOK
    <3>. QED
      BY <1>1, <3>1, <3>2 DEF IndexInv, RecordsOK, DevStates
  <2>2. Fetched' = Fetched /\ Published' = Published
    BY <2>1 DEF Fetched, Published, IndexInv, RecordsOK
  <2>. QED
    BY <1>1, <2>1, <2>2 DEF IndexInv
<1>5. CASE DevPublishUsed
  <2>1. /\ dev.state = "used" /\ dev'.state = "awake" /\ dev'.done = dev.done
        /\ dev'.last_avail = dev.last_avail
        /\ used'.idx = (used.idx + 1) % IDX_MOD
        /\ RecordsOK'
    BY <1>1, <1>5 DEF DevPublishUsed, IndexInv, RecordsOK, DevStates
  <2>2. /\ Fetched' = Fetched /\ Published' = Published + 1 /\ Published \in Int
        /\ Published < Fetched /\ Fetched \in Nat
    BY <2>1 DEF Fetched, Published, IndexInv, RecordsOK
  <2>3. Published % IDX_MOD = Published
    BY <1>1, <2>2, NoWrap DEF IndexInv
  <2>. QED
    BY <1>1, <2>1, <2>2, <2>3 DEF IndexInv
<1>. QED
  BY <1>2, <1>3, <1>4, <1>5 DEF Device

(* The spin loop of queue_add_notify_pop ends only when the device has     *)
(* used the request (virtio.c), during the first 2^16 requests.  The bound *)
(* is sharp: the run with one request more violates the property.          *)
THEOREM NoEarlyReturnBeforeWrap ==
  ASSUME MaxRequests <= IDX_MOD PROVE Spec => []NoEarlyReturn
<1>1. IndexInv /\ [Next]_vars => IndexInv'
  <2> SUFFICES ASSUME IndexInv, [Next]_vars PROVE IndexInv'
    OBVIOUS
  <2>1. CASE UNCHANGED vars
    BY <2>1, QuietStep DEF vars, IndexInv, RecordsOK, Fetched, Published
  <2>. QED
    BY <2>1, DriverInv, DeviceInv DEF Next
<1>2. IndexInv => NoEarlyReturn
  BY DEF IndexInv, RecordsOK, Published, NoEarlyReturn
<1>. QED
  BY <1>1, <1>2, IndexInit, PTL DEF Spec
==============================================================================
