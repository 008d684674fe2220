------------------------------- MODULE MCVsfs -------------------------------
(* Sixteen blocks and inodes, six of the blocks metadata. *)
EXTENDS Vsfs

(* A root directory that fills its only block, and one that leaves a       *)
(* single inode free.                                                      *)
MCImages == {6, 12}

(* One unit; two and a bit pages; from there to the fourth page. *)
MCWrites == {<<0, 1>>, <<7, 10>>, <<16, 10>>}
==============================================================================
