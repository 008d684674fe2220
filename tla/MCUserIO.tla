------------------------------ MODULE MCUserIO -------------------------------
(* Pages of 8 bytes; 16-bit words of two bytes with 8 values.  Two pages of   *)
(* program and three of stack, in an order of their own in kernel memory.     *)
EXTENDS UserIO

MCMaps ==
  {(0 :> 3) @@ (1 :> 0) @@ (3 :> 4) @@ (4 :> 1) @@ (5 :> 2),
   (0 :> 1) @@ (1 :> 3) @@ (3 :> 2) @@ (4 :> 4) @@ (5 :> 0)}
MCImage == <<7, 6, 5, 4, 3, 2, 1, 7, 6, 5, 4>>

MCDescriptors ==
  LET D(kind, mode, trunc) == [kind |-> kind, mode |-> mode, trunc |-> trunc]
  IN  (0 :> D("stdin", "RDONLY", FALSE)) @@ (1 :> D("stdout", "WRONLY", FALSE))
        @@ (2 :> D("disk", "RDWR", TRUE)) @@ (3 :> D("disk", "RDONLY", FALSE))
        @@ (4 :> D("framebuffer", "RDWR", FALSE))
MCContents == <<1, 2, 3, 4, 5>>

(* Nothing; inside a page; across one border; the last bytes of the image and *)
(* a NUL; across two borders, to the page's end.                              *)
MCRequests == {<<0, 0>>, <<25, 1>>, <<6, 3>>, <<9, 3>>, <<31, 9>>}
MCSeeks == {<<2, 26, "SEEK_SET">>, <<U - 1, 7, "SEEK_CUR">>, <<0, 26, "SEEK_END">>, <<0, 7, "other">>}
MCPermissions == {{"R"}, {"R", "W"}}

MCArgLists == {<<<<<<1, 2>>>>, <<>>>>, <<<<<<1>>, <<2, 3, 4>>>>, <<<<5>>>>>>}
(* Vectors and strings across page borders, and pointers with a zero byte.    *)
MCArgPlaces == {[vec |-> 6, str |-> 29], [vec |-> 28, str |-> 1], [vec |-> 26, str |-> 8]}
==============================================================================
