---------------------------- MODULE MCBlockCache ----------------------------
(* Small disks and request sets for the buffered block device. *)
EXTENDS BlockCache

(* Ranges that never cover a whole page: inside a page, or across a border. *)
PartialRequests == {<<0, 1>>, <<1, 2>>, <<3, 0>>, <<3, 2>>, <<5, 1>>}

(* One byte of each of three blocks. *)
OnePerBlock == {<<0, 1>>, <<2, 1>>, <<4, 1>>}

(* Whole pages and ranges that span up to three of four blocks. *)
AllRequests == {<<0, 1>>, <<1, 4>>, <<2, 2>>, <<5, 3>>, <<6, 1>>}
==============================================================================
