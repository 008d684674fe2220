------------------------------ MODULE BlockStore ------------------------------
(***************************************************************************)
(* What the buffered block device promises to the file system: an array of *)
(* bytes that one client reads and writes, and whose image is on the disk  *)
(* when the machine is switched off.                                       *)
(***************************************************************************)
EXTENDS Integers

CONSTANTS
  PAGESIZE,   \* bytes of a block
  NumBlocks,  \* blocks of the device
  Values,     \* values of a byte
  Zero,       \* the value every byte of the disk has at boot
  Requests    \* the <<offset, size>> pairs the file system asks for

VARIABLES
  store,  \* the byte array
  req,    \* the request in progress, Idle if none
  out,    \* the bytes the last read delivered, Nothing otherwise
  image   \* the disk once the machine is off, Nothing before

storeVars == <<store, req, out, image>>

Addr     == 0 .. NumBlocks * PAGESIZE - 1
Nothing  == <<>>
Idle     == [kind |-> "idle"]
ReadReq(off, size)        == [kind |-> "read", off |-> off, size |-> size]
WriteReq(off, size, data) == [kind |-> "write", off |-> off, size |-> size, data |-> data]

Init ==
  /\ store = [a \in Addr |-> Zero]
  /\ req = Idle
  /\ out = Nothing
  /\ image = Nothing

Begin ==
  /\ req = Idle
  /\ image = Nothing
  /\ \E r \in Requests :
       \/ req' = ReadReq(r[1], r[2])
       \/ \E data \in [0 .. r[2] - 1 -> Values] : req' = WriteReq(r[1], r[2], data)
  /\ out' = Nothing
  /\ UNCHANGED <<store, image>>

(* The array with data written at off. *)
Overlay(array, off, size, data) ==
  [a \in DOMAIN array |-> IF a \in off .. off + size - 1 THEN data[a - off] ELSE array[a]]

FinishRead ==
  /\ req.kind = "read"
  /\ out' = [i \in 0 .. req.size - 1 |-> store[req.off + i]]
  /\ req' = Idle
  /\ UNCHANGED <<store, image>>

FinishWrite ==
  /\ req.kind = "write"
  /\ store' = Overlay(store, req.off, req.size, req.data)
  /\ req' = Idle
  /\ UNCHANGED <<out, image>>

SwitchOff ==
  /\ req = Idle
  /\ image = Nothing
  /\ image' = store
  /\ UNCHANGED <<store, req, out>>

Next == Begin \/ FinishRead \/ FinishWrite \/ SwitchOff

Spec == Init /\ [][Next]_storeVars
==============================================================================
