------------------------------- MODULE UserIO --------------------------------
(* read, write, lseek and the arguments of execve of one process: how bytes   *)
(* cross from the process's pages, which are scattered over kernel memory, to *)
(* files and devices and back (kernel/sysfile.c, file.c, stdio.c, exec.c),    *)
(* and the commands of the framebuffer (drivers/virtio_gpu.c).                *)
(*                                                                            *)
(* A u64 is WORD bytes of BYTE values, so it wraps at U.  What a file holds   *)
(* is a sequence of bytes; how the file system stores it is Vsfs.             *)
EXTENDS Integers, Sequences, FiniteSets, SequencesExt

CONSTANTS
  PAGESIZE, WORD, BYTE,
  ALIGN,        \* of the stack pointer
  Maps,         \* page tables: user pages to kernel pages, one to one
  Image,        \* the bytes of the program in the user pages from 0
  StackTop,     \* the end of the user stack, which fills its pages
  Descriptors,  \* fd -> [kind, mode, trunc]: what the process has open
  Contents,     \* of the file that "disk" descriptors are open on, at first
  Permissions,  \* the permission bits it may have
  DiskRoom,     \* the size beyond which the disk is full
  StaleBytes,   \* what new blocks of the disk may hold
  Keys,         \* bytes that the console may send
  FbSize,       \* bytes of the framebuffer
  FailAt,       \* GPU commands that the device may answer with an error
  Requests,     \* bound: <<buf, size>> of read and write
  Seeks,        \* bound: <<off_low, result, whence>> of lseek, off_low as u64;
                \*   "other" also stands for an off_high that is not 0
  ArgLists,     \* bound: <<argv, envp>> as sequences of strings, without NUL
  ArgPlaces,    \* bound: where user code puts the vectors and their strings
  MaxCalls      \* bound: system calls of a behaviour

VARIABLES
  mem,      \* kernel memory, byte by byte
  upt,      \* the page table of the process: user pages to kernel pages
  disk,     \* the bytes of the file
  perm,     \* its permission bits
  seek,     \* opened_files[fd].seek
  console,  \* what the console has been sent
  fb,       \* the framebuffer
  host,     \* the GPU's resource
  todo,     \* what the kernel still has to do with the GPU
  failed,   \* history: functions that a legal command failed in, flush the last time
  refused,  \* history: the device was sent a command out of order
  regs,     \* sp, a0, a1 and a2 of the process
  call,     \* history: the last system call
  calls     \* number of system calls

iovars == <<disk, perm, seek, console>>
gpuvars == <<fb, host, todo, failed, refused>>
vars == <<mem, upt, iovars, gpuvars, regs, call, calls>>

U == BYTE ^ WORD
ADDR(page, offset) == page * PAGESIZE + offset
OFFSET(a) == a % PAGESIZE
ADDR_2_PAGE(a) == a \div PAGESIZE
ADDR_2_PAGEUP(a) == ADDR_2_PAGE(a) + (IF OFFSET(a) # 0 THEN 1 ELSE 0)

(* Copies the bytes of data to the addresses in where, in this order.         *)
Store(m, where, data) ==
  [a \in DOMAIN m |-> LET hit == {i \in DOMAIN where : where[i] = a}
                      IN  IF hit = {} THEN m[a] ELSE data[Max(hit)]]
Word(n) == [i \in 1 .. WORD |-> (n \div BYTE ^ (i - 1)) % BYTE]
Value(bytes) == FoldRight(LAMBDA b, n : b + BYTE * n, bytes, 0)
Zeroes(n) == [i \in 1 .. n |-> 0]

-----------------------------------------------------------------------------
(* translate_buffer: the kernel addresses that the bytes of kernel_buf are    *)
(* copied from or to, page by page.                                           *)
RECURSIVE Pieces(_, _, _, _, _)
Pieces(pages, user_vpn, last, page_offset, page_max) ==
  IF user_vpn = last THEN <<>>
  ELSE LET temp_page == IF page_max > PAGESIZE THEN PAGESIZE ELSE page_max
       IN  [i \in 1 .. temp_page - page_offset |-> ADDR(pages[user_vpn], page_offset + i - 1)]
             \o Pieces(pages, user_vpn + 1, last, 0,
                       IF page_max > PAGESIZE THEN page_max - PAGESIZE ELSE page_max)

MutDropsLastPage(pages, buf, size) ==
  Pieces(pages, ADDR_2_PAGE(buf), ADDR_2_PAGE(buf + size), OFFSET(buf), OFFSET(buf) + size)

translate_buffer(pages, buf, size) ==
  Pieces(pages, ADDR_2_PAGE(buf), ADDR_2_PAGEUP(buf + size), OFFSET(buf), OFFSET(buf) + size)

(* translate_2_pages: the bytes from user address a up to the first unit of   *)
(* zeroes, which is copied as well.                                           *)
RECURSIVE Scan(_, _, _, _)
Scan(a, unit_size, consecutive_zeros, count) ==
  LET b == mem[ADDR(upt[ADDR_2_PAGE(a)], OFFSET(a))]
      zeros == IF b = 0 /\ (count % unit_size = 0 \/ consecutive_zeros # 0)
               THEN consecutive_zeros + 1 ELSE 0
  IN  <<b>> \o IF zeros = unit_size THEN <<>> ELSE Scan(a + 1, unit_size, zeros, count + 1)

translate_2_pages(a, unit_size) == Scan(a, unit_size, 0, 0)

-----------------------------------------------------------------------------
(* The framebuffer's GPU.  todo lists commands by the function that sends     *)
(* them; an answer other than OK_NODATA makes this function return, and its   *)
(* result is ignored.  resource_flush sends TRANSFER_TO_HOST_2D as well, with *)
(* the shorter body of a RESOURCE_FLUSH.                                      *)
MutBacksFirst ==
  <<<<"setup", "RESOURCE_ATTACH_BACKING">>, <<"setup", "RESOURCE_CREATE_2D">>,
    <<"setup", "SET_SCANOUT">>>>
setup_framebuffer ==
  <<<<"setup", "RESOURCE_CREATE_2D">>, <<"setup", "RESOURCE_ATTACH_BACKING">>,
    <<"setup", "SET_SCANOUT">>>>
MutFlushOnly == <<<<"flush", "short TRANSFER_TO_HOST_2D">>>>
flush == <<<<"flush", "TRANSFER_TO_HOST_2D">>, <<"flush", "short TRANSFER_TO_HOST_2D">>>>
init_gpu ==
  <<<<"init", "GET_DISPLAY_INFO">>>> \o setup_framebuffer \o <<<<"kernel", "rainbow">>>> \o flush

(* The device: a resource is created before anything else is done with it and *)
(* backed before it is filled.  A short request changes nothing.              *)
Legal(command) ==
  /\ command \notin {"GET_DISPLAY_INFO", "RESOURCE_CREATE_2D"} => host.created
  /\ command = "TRANSFER_TO_HOST_2D" => host.backed
Executed(command) ==
  CASE command = "RESOURCE_CREATE_2D" -> [host EXCEPT !.created = TRUE]
    [] command = "RESOURCE_ATTACH_BACKING" -> [host EXCEPT !.backed = TRUE]
    [] command = "SET_SCANOUT" -> [host EXCEPT !.shown = TRUE]
    [] command = "TRANSFER_TO_HOST_2D" -> [host EXCEPT !.pixels = fb]
    [] OTHER -> host

Answered == todo' = Tail(todo)
Abandon(group) == todo' = SelectSeq(todo, LAMBDA c : c[1] # group)

queue_add_notify_pop ==
  /\ todo # <<>> /\ Head(todo)[1] # "kernel"
  /\ LET group == Head(todo)[1]
         command == Head(todo)[2]
     IN  \/ /\ Legal(command) /\ host' = Executed(command) /\ Answered
            /\ UNCHANGED <<failed, refused>>
         \/ /\ Legal(command) /\ command \in FailAt /\ Abandon(group)
            /\ failed' = failed \cup {group} /\ UNCHANGED <<host, refused>>
         \/ /\ ~Legal(command) /\ Abandon(group)
            /\ refused' = TRUE /\ UNCHANGED <<host, failed>>
  /\ UNCHANGED <<mem, upt, iovars, fb, regs, call, calls>>

rainbow ==
  /\ todo # <<>> /\ Head(todo) = <<"kernel", "rainbow">>
  /\ fb' = [i \in 1 .. FbSize |-> i % BYTE] /\ todo' = Tail(todo)
  /\ UNCHANGED <<mem, upt, iovars, host, failed, refused, regs, call, calls>>

-----------------------------------------------------------------------------
(* Files.                                                                     *)
Kind(fd) == Descriptors[fd].kind
get_permission(fd) ==
  CASE Kind(fd) = "disk" -> perm
    [] Kind(fd) = "stdin" -> {"R"}
    [] Kind(fd) = "stdout" -> {"W"}
    [] Kind(fd) = "framebuffer" -> {"R", "W"}
MutSmallConsole(fd) ==
  CASE Kind(fd) = "disk" -> Len(disk)
    [] Kind(fd) = "framebuffer" -> FbSize
    [] OTHER -> U \div 2
get_size(fd) ==
  CASE Kind(fd) = "disk" -> Len(disk)
    [] Kind(fd) = "framebuffer" -> FbSize
    [] OTHER -> U - 1

(* wrapped_read and wrapped_write: may the file's own operation be called?    *)
Accepts(fd, access, size) ==
  access \in get_permission(fd) /\ (seek[fd] + size) % U <= get_size(fd)

(* translate_fs runs over the pages from offset to offset + size, which are   *)
(* none when the end has wrapped.                                             *)
Inside(offset, size) == (offset + size) % U >= offset
Overwrite(s, offset, bytes) ==
  [i \in DOMAIN s |-> IF i - offset \in DOMAIN bytes THEN bytes[i - offset] ELSE s[i]]

Bytes(buf, size) ==
  LET where == translate_buffer(upt, buf, size) IN [i \in DOMAIN where |-> mem[where[i]]]

(* execve follows at once when user code has put its arguments in place.      *)
UserMode == todo = <<>> /\ calls < MaxCalls /\ call.op # "compose"

Called(op, fd, buf, size, ret) ==
  /\ UserMode /\ calls' = calls + 1
  /\ call' = [op |-> op, fd |-> fd, buf |-> buf, size |-> size, ret |-> ret]
  /\ regs' = [regs EXCEPT !.a0 = ret]

ReadDone(fd, buf, size, bytes) ==
  /\ mem' = Store(mem, translate_buffer(upt, buf, size), bytes)
  /\ seek' = [seek EXCEPT ![fd] = (@ + size) % U]

sys_read(fd, buf, size) ==
  LET mayread == Descriptors[fd].mode \in {"RDONLY", "RDWR"} /\ Accepts(fd, "R", size)
  IN  /\ \/ /\ mayread /\ Kind(fd) = "disk"
            /\ Called("read", fd, buf, size, 0)
            /\ ReadDone(fd, buf, size, IF Inside(seek[fd], size)
                                       THEN SubSeq(disk, seek[fd] + 1, seek[fd] + size)
                                       ELSE Zeroes(size))
            /\ UNCHANGED <<todo, failed>>
         \/ /\ mayread /\ Kind(fd) = "stdin" /\ size = 1
            /\ Called("read", fd, buf, size, 0)
            /\ \E key \in Keys : ReadDone(fd, buf, size, <<key>>)
            /\ UNCHANGED <<todo, failed>>
         \/ /\ mayread /\ Kind(fd) = "framebuffer"
            /\ Called("fb_read", fd, buf, size, 0)
            /\ todo' = flush \o <<<<"kernel", "return">>>> /\ failed' = failed \ {"flush"}
            /\ UNCHANGED <<mem, seek>>
         \/ /\ ~mayread \/ (Kind(fd) = "stdin" /\ size # 1)
            /\ Called("read", fd, buf, size, -1)
            /\ UNCHANGED <<mem, seek, todo, failed>>
      /\ UNCHANGED <<upt, disk, perm, console, fb, host, refused>>

(* fb_read has flushed and left the buffer, which kalloc cleared, as it was.  *)
FbReadReturns ==
  /\ todo = <<<<"kernel", "return">>>> /\ todo' = <<>>
  /\ ReadDone(call.fd, call.buf, call.size, Zeroes(call.size))
  /\ UNCHANGED <<upt, disk, perm, console, fb, host, failed, refused, regs, call, calls>>

(* fs_file_truncate when it makes the file longer: the new pages hold what    *)
(* their blocks held.                                                         *)
MutTruncClears(fd, size) ==
  IF Kind(fd) = "disk" /\ size <= DiskRoom
  THEN {[i \in 1 .. size |-> b] : b \in StaleBytes} ELSE {disk}
trunc_file(fd, size) ==
  IF Kind(fd) = "disk" /\ size <= DiskRoom
  THEN {disk \o [i \in 1 .. size - Len(disk) |-> b] : b \in StaleBytes}
  ELSE {disk}

(* stdout_write stops at a NUL.                                               *)
Printed(bytes) == SubSeq(bytes, 1, SelectInSeq(bytes, LAMBDA b : b = 0) - 1)
stdout_write(bytes) == IF 0 \in Range(bytes) THEN Printed(bytes) ELSE bytes

(* The result of wrapped_write is ignored.                                    *)
WriteDone(fd, buf, size, grown) ==
  LET bytes == Bytes(buf, size)
      ok == /\ "W" \in get_permission(fd)
            /\ (seek[fd] + size) % U <= IF Kind(fd) = "disk" THEN Len(grown) ELSE get_size(fd)
  IN  /\ disk' = IF ok /\ Kind(fd) = "disk" /\ Inside(seek[fd], size)
                 THEN Overwrite(grown, seek[fd], bytes) ELSE grown
      /\ console' = IF ok /\ Kind(fd) = "stdout" THEN console \o stdout_write(bytes) ELSE console
      /\ fb' = IF ok /\ Kind(fd) = "framebuffer" THEN Overwrite(fb, seek[fd], bytes) ELSE fb
      /\ seek' = [seek EXCEPT ![fd] = (@ + size) % U]

sys_write(fd, buf, size) ==
  LET end == (seek[fd] + size) % U
      grows == get_size(fd) < end
      maywrite == Descriptors[fd].mode \in {"WRONLY", "RDWR"} /\ (grows => Descriptors[fd].trunc)
  IN  /\ IF maywrite
         THEN /\ Called("write", fd, buf, size, 0)
              /\ \E grown \in (IF grows THEN trunc_file(fd, end) ELSE {disk}) :
                   WriteDone(fd, buf, size, grown)
         ELSE Called("write", fd, buf, size, -1) /\ UNCHANGED <<disk, console, fb, seek>>
      /\ UNCHANGED <<mem, upt, perm, host, todo, failed, refused>>

(* The result may lie across two pages.                                       *)
Sought(fd, off_low, whence) ==
  (off_low + CASE whence = "SEEK_SET" -> 0
               [] whence = "SEEK_CUR" -> seek[fd]
               [] whence = "SEEK_END" -> get_size(fd)) % U

MutResultInOnePage(result) ==
  [i \in 1 .. WORD |-> ADDR(upt[ADDR_2_PAGE(result)], OFFSET(result) + i - 1)]
ResultAt(result) ==
  LET page_1_sz == PAGESIZE - OFFSET(result)
      first == [i \in 1 .. WORD |-> ADDR(upt[ADDR_2_PAGE(result)], OFFSET(result) + i - 1)]
      second == [i \in 1 .. WORD - page_1_sz |-> ADDR(upt[ADDR_2_PAGE(result) + 1], i - 1)]
  IN  IF page_1_sz >= WORD THEN first ELSE SubSeq(first, 1, page_1_sz) \o second

sys_lseek(fd, off_low, result, whence) ==
  /\ \/ /\ whence # "other"
        /\ Called("lseek", fd, result, WORD, 0)
        /\ seek' = [seek EXCEPT ![fd] = Sought(fd, off_low, whence)]
        /\ mem' = Store(mem, ResultAt(result), Word(seek'[fd]))
     \/ /\ whence = "other"
        /\ Called("lseek", fd, result, WORD, -1)
        /\ UNCHANGED <<seek, mem>>
  /\ UNCHANGED <<upt, disk, perm, console, gpuvars>>

-----------------------------------------------------------------------------
(* Arguments.  User code puts two vectors of pointers and their strings at a  *)
(* place of its choice, Vectors at at.vec and the strings from at.str on.     *)
Terminated(strings) == [i \in DOMAIN strings |-> strings[i] \o <<0>>]
UserAt(a, n) == [i \in 1 .. n |-> ADDR(upt[ADDR_2_PAGE(a + i - 1)], OFFSET(a + i - 1))]

Compose(lists, at) ==
  LET strings == Terminated(lists[1] \o lists[2])
      Pointer(i) == Word(at.str + Len(FlattenSeq(SubSeq(strings, 1, i - 1))))
      n == Len(lists[1])
      vec == FlattenSeq([i \in 1 .. Len(strings) |-> Pointer(i)])
      bytes == SubSeq(vec, 1, n * WORD) \o Word(0) \o SubSeq(vec, n * WORD + 1, Len(vec)) \o Word(0)
      text == FlattenSeq(strings)
  IN  /\ UserMode
      /\ mem' = Store(Store(mem, UserAt(at.vec, Len(bytes)), bytes), UserAt(at.str, Len(text)), text)
      /\ regs' = [regs EXCEPT !.a1 = at.vec, !.a2 = at.vec + (n + 1) * WORD]
      /\ call' = [op |-> "compose", lists |-> lists]
      /\ UNCHANGED <<upt, iovars, gpuvars, calls>>

(* The strings that a vector at user address a points to, with their NULs.    *)
CopyIn(a) ==
  LET vector == translate_2_pages(a, WORD)
  IN  [i \in 1 .. Len(vector) \div WORD - 1 |->
        translate_2_pages(Value(SubSeq(vector, (i - 1) * WORD + 1, i * WORD)), 1)]

(* One round of the loops over argv and envp; NULL is the empty sequence.     *)
MutForgetsNul(pages, s, string) ==
  LET base == ADDR(pages[ADDR_2_PAGE(s.tsp)], OFFSET(s.tsp))
      pointer == Word(IF string = <<>> THEN 0 ELSE s.tstrtab)
  IN  [mem |-> Store(Store(s.mem, [i \in 1 .. WORD |-> base + i - 1], pointer),
                     translate_buffer(pages, s.tstrtab, Len(string)), string),
       tsp |-> s.tsp + WORD, tstrtab |-> s.tstrtab + Len(string) - (IF string = <<>> THEN 0 ELSE 1)]
PushArg(pages, s, string) ==
  LET base == ADDR(pages[ADDR_2_PAGE(s.tsp)], OFFSET(s.tsp))
      pointer == Word(IF string = <<>> THEN 0 ELSE s.tstrtab)
  IN  [mem |-> Store(Store(s.mem, [i \in 1 .. WORD |-> base + i - 1], pointer),
                     translate_buffer(pages, s.tstrtab, Len(string)), string),
       tsp |-> s.tsp + WORD, tstrtab |-> s.tstrtab + Len(string)]

TotalSize(argv, envp) ==
  LET size == (Len(argv) + Len(envp) + 2) * WORD + Len(FlattenSeq(argv \o envp))
  IN  IF size % ALIGN # 0 THEN size - (size % ALIGN) + ALIGN ELSE size

(* load_process: a new page table, the image in its pages, a stack that is    *)
(* not cleared.                                                               *)
Loaded(m, pages) ==
  Store(m, [i \in DOMAIN Image |-> ADDR(pages[ADDR_2_PAGE(i - 1)], OFFSET(i - 1))], Image)

sys_execve ==
  LET argv == CopyIn(regs.a1)
      envp == CopyIn(regs.a2)
      sp == StackTop - TotalSize(argv, envp)
      tstrtab == sp + (Len(argv) + Len(envp) + 2) * WORD
  IN  /\ call.op = "compose" /\ calls' = calls + 1
      /\ \E pages \in Maps :
           /\ upt' = pages
           /\ mem' = FoldLeft(LAMBDA s, string : PushArg(pages, s, string),
                              [mem |-> Loaded(mem, pages), tsp |-> sp, tstrtab |-> tstrtab],
                              argv \o <<<<>>>> \o envp \o <<<<>>>>).mem
      /\ regs' = [sp |-> sp, a0 |-> Len(argv), a1 |-> sp, a2 |-> sp + (Len(argv) + 1) * WORD]
      /\ call' = [op |-> "execve", lists |-> call.lists]
      /\ UNCHANGED <<iovars, gpuvars>>

(* There is no such file, or it is not executable: the old program goes on.   *)
ExecFails ==
  /\ call.op = "compose" /\ calls' = calls + 1
  /\ regs' = [regs EXCEPT !.a0 = -1]
  /\ call' = [op |-> "noexec"]
  /\ UNCHANGED <<mem, upt, iovars, gpuvars>>

-----------------------------------------------------------------------------
Init ==
  /\ upt \in Maps
  /\ mem = Loaded([a \in 0 .. (Cardinality(DOMAIN upt) * PAGESIZE) - 1 |-> 0], upt)
  /\ disk = Contents /\ perm \in Permissions
  /\ seek = [fd \in DOMAIN Descriptors |-> 0] /\ console = <<>>
  /\ fb = Zeroes(FbSize) /\ todo = init_gpu
  /\ host = [created |-> FALSE, backed |-> FALSE, shown |-> FALSE, pixels |-> Zeroes(FbSize)]
  /\ failed = {} /\ refused = FALSE
  /\ regs = [sp |-> StackTop, a0 |-> 0, a1 |-> 0, a2 |-> 0]
  /\ call = [op |-> "none"] /\ calls = 0

(* User code computes, or has made all its calls.                             *)
Elsewhere == todo = <<>> /\ UNCHANGED vars

Next ==
  \/ queue_add_notify_pop \/ rainbow \/ FbReadReturns \/ Elsewhere
  \/ \E fd \in DOMAIN Descriptors :
       \/ \E r \in Requests : sys_read(fd, r[1], r[2]) \/ sys_write(fd, r[1], r[2])
       \/ \E s \in Seeks :
            /\ Kind(fd) = "framebuffer" => s[1] <= FbSize   \* bound: its position never wraps
            /\ sys_lseek(fd, s[1], s[2], s[3])
  \/ \E lists \in ArgLists, at \in ArgPlaces : Compose(lists, at)
  \/ sys_execve \/ ExecFails

Spec == Init /\ [][Next]_vars

-----------------------------------------------------------------------------
(* What user code sees at an address.                                         *)
User(a) == mem[ADDR(upt[ADDR_2_PAGE(a)], OFFSET(a))]
UserAddrs == {a \in 0 .. U - 1 : ADDR_2_PAGE(a) \in DOMAIN upt}

(* Memory after the step: bytes at buf, and every other byte as it was.       *)
OnlyAt(buf, bytes) ==
  \A a \in UserAddrs :
    User(a)' = IF a - buf + 1 \in DOMAIN bytes THEN bytes[a - buf + 1] ELSE User(a)

(* The step was a call on a descriptor of this kind that succeeded, and its   *)
(* offset did not wrap.                                                       *)
Did(op, kind) ==
  /\ calls' # calls /\ call'.op = op /\ call'.ret = 0
  /\ Kind(call'.fd) = kind /\ seek[call'.fd] + call'.size < U

(* A read of a file that returns 0 has put the bytes from the seek position   *)
(* on into the user's buffer, across any page border, and has touched no      *)
(* other byte of the process.                                                 *)
ReadCopies ==
  [][Did("read", "disk") =>
       LET from == seek[call'.fd]
       IN  OnlyAt(call'.buf, SubSeq(disk, from + 1, from + call'.size))]_vars

(* A write to a file is all or nothing: with permission and room the user's   *)
(* bytes are in the file and the bytes around them as before; without, what   *)
(* the file held is kept.  sys_write returns 0 and moves on in both cases.    *)
WriteAllOrNothing ==
  [][Did("write", "disk") =>
       LET from == seek[call'.fd]
           end == from + call'.size
           bytes == [i \in 1 .. call'.size |-> User(call'.buf + i - 1)]
       IN  /\ Len(disk') >= Len(disk) /\ seek'[call'.fd] = end
           /\ \A i \in DOMAIN disk : i \notin from + 1 .. end => disk'[i] = disk[i]
           /\ IF "W" \in perm /\ end <= DiskRoom THEN SubSeq(disk', from + 1, end) = bytes
              ELSE SubSeq(disk', 1, Len(disk)) = disk]_vars

(* The console takes every write to it, wherever its seek position is, even   *)
(* when that wraps: the user's bytes up to the first NUL are printed.         *)
ConsoleTakesAll ==
  [][calls' # calls /\ call'.op = "write" /\ Kind(call'.fd) = "stdout" =>
       LET n == Len(console') - Len(console)
       IN  /\ call'.ret = 0 /\ n \in 0 .. call'.size
           /\ console' = console \o [i \in 1 .. n |-> User(call'.buf + i - 1)]
           /\ \A i \in 1 .. n : User(call'.buf + i - 1) # 0
           /\ n < call'.size => User(call'.buf + n) = 0]_vars

(* lseek leaves the new position in the user's result, which may lie across   *)
(* two pages, and changes nothing else.                                       *)
LseekReports ==
  [][calls' # calls /\ call'.op = "lseek" /\ call'.ret = 0 =>
       OnlyAt(call'.buf, Word(seek'[call'.fd]))]_vars

(* The vectors that the new program finds at a1 and a2 point to the strings   *)
(* that the old one passed, and the image is intact: "now it is guaranteed    *)
(* there are no crossing pages." (kernel/exec.c:104).                         *)
Points(v, strings) ==
  LET At(a, n) == [i \in 1 .. n |-> User(a + i - 1)]
      Pointer(i) == Value(At(v + (i - 1) * WORD, WORD))
  IN  /\ \A i \in DOMAIN strings : At(Pointer(i), Len(strings[i]) + 1) = strings[i] \o <<0>>
      /\ Pointer(Len(strings) + 1) = 0

ArgsArrive ==
  call.op = "execve" =>
    /\ Points(regs.a1, call.lists[1]) /\ Points(regs.a2, call.lists[2])
    /\ regs.a0 = Len(call.lists[1]) /\ regs.sp % ALIGN = 0
    /\ \A i \in DOMAIN Image : User(i - 1) = Image[i]

(* The GPU is never sent a command for a resource that is not there yet,      *)
(* unless its own answer broke off setup_framebuffer.                         *)
CommandsInOrder == refused => "setup" \in failed

(* A read of the framebuffer returns only when the GPU's resource holds what  *)
(* was drawn before it, unless the GPU answered with an error: the commands   *)
(* of flush are sent and answered in this order (drivers/virtio_gpu.c:202).   *)
(* That is all a read does.  "Reading it is equivalent to flushing it." (line *)
(* 210) is not what the code achieves: resource_flush sends no RESOURCE_FLUSH *)
(* (line 162), so the GPU is never told to show the resource.                 *)
DrawnIsTransferred ==
  todo = <<<<"kernel", "return">>>> /\ "flush" \notin failed /\ ~refused => host.pixels = fb
=============================================================================
