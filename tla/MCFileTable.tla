----------------------------- MODULE MCFileTable -----------------------------
(* Two processes with two descriptors each. *)
EXTENDS FileTable, TLC

(* Every way an open can end, with and without O_DIRECTORY. *)
AllOpens == (Found \cup NotFound) \X BOOLEAN

(* A spoiled table stays spoiled, and the invariants say nothing of it. *)
NotSpoiled == ~spoiled

PagesAreAlike == Permutations(Pages)
==============================================================================
