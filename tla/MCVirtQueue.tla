----------------------------- MODULE MCVirtQueue -----------------------------
(* A short queue whose 16-bit indices wrap early. *)
EXTENDS VirtQueue

(* Block read and write, a GPU command, a single buffer, and more buffers  *)
(* than the queue has descriptors.                                         *)
MCShapes == [blk |-> {<<1, 2>>, <<2, 1>>, <<3, 2>>},
             gpu |-> {<<1, 1>>, <<0, 1>>, <<3, 2>>}]

(* The block driver with indirect lists and avail_event or with neither,   *)
(* the GPU driver with avail_event or the no-notify flag.                  *)
MCModes == Drivers \X BOOLEAN
==============================================================================
