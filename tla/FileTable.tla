------------------------------ MODULE FileTable ------------------------------
(***************************************************************************)
(* The descriptor tables of the processes and the reference counts of the  *)
(* FSFile objects they share (kernel/sysfile.c, and the parts of sys_fork, *)
(* sys_exit, sys_execve and getfile that touch them).  FSFile objects live *)
(* in kernel heap pages: kalloc hands out any page that is not allocated.  *)
(***************************************************************************)
EXTENDS Integers, FiniteSets

CONSTANTS
  Procs,      \* process slots
  FirstProc,  \* the slot of /bin/init
  NUM_FILES,  \* descriptors of a process
  StdFiles,   \* the descriptors init_scheduler opens on devices
  Pages,      \* heap pages FSFile objects are allocated from (bounds kalloc)
  Opens       \* <<outcome of getfile, O_DIRECTORY given>> pairs of sys_openat

(* How getfile ends: with a file, a directory or a device, with a file it  *)
(* creates, or with -1 (no name, a component that is no directory, nothing *)
(* of that name, no room for a new entry).                                 *)
Found    == {"FILE", "DIRECTORY", "DEVICE", "created"}
NotFound == {"null", "not a directory", "missing", "no room"}

ASSUME FileTableAssumption ==
  /\ FirstProc \in Procs
  /\ NUM_FILES \in Nat \ {0}
  /\ StdFiles \subseteq 0 .. NUM_FILES - 1
  /\ Opens \subseteq (Found \cup NotFound) \X BOOLEAN

VARIABLES
  live,          \* the processes that run user code
  opened_files,  \* PCB.opened_files; a closed or dead entry keeps its file
  allocated,     \* pages that hold an FSFile
  rc,            \* FSFile.rc, 0 in a page that holds none
  lost,          \* history: pages whose only pointer was a dropped local
  spoiled,       \* history: a call has left an entry without its reference
  machine        \* "on", or "corrupt" after a store through a stale pointer

vars == <<live, opened_files, allocated, rc, lost, spoiled, machine>>

Fds  == 0 .. NUM_FILES - 1
NULL == "NULL"

(* A zeroed File is a DIRECTORY without an object. *)
Zeroed == [occupied |-> FALSE, type |-> "DIRECTORY", super |-> NULL]
Device == [occupied |-> TRUE, type |-> "DEVICE", super |-> NULL]

Init ==
  /\ live = {FirstProc}
  /\ opened_files = [p \in Procs |-> [fd \in Fds |->
       IF p = FirstProc /\ fd \in StdFiles THEN Device ELSE Zeroed]]
  /\ allocated = {}
  /\ rc = [c \in Pages |-> 0]
  /\ lost = {}
  /\ spoiled = FALSE
  /\ machine = "on"

-----------------------------------------------------------------------------
Corrupt ==
  /\ machine' = "corrupt"
  /\ UNCHANGED <<live, opened_files, allocated, rc, lost, spoiled>>

(* The descriptors among S that hold a reference to an object. *)
Holders(p, S) ==
  {fd \in S : opened_files[p][fd].occupied /\ opened_files[p][fd].type # "DEVICE"}

Refs(p, S, c) == Cardinality({fd \in Holders(p, S) : opened_files[p][fd].super = c})

(* sys_close on each descriptor of S: rc--, and kfree of the object when   *)
(* that was the last one.  A page that holds no object must not be touched. *)
MayDrop(p, S) ==
  \A fd \in Holders(p, S) :
    LET c == opened_files[p][fd].super
    IN  c \in allocated /\ rc[c] >= Refs(p, S, c)

Dropped(p, S)   == [c \in Pages |-> rc[c] - Refs(p, S, c)]
MutFreesAtOne(p, S)        == {c \in allocated : Refs(p, S, c) = 0 \/ Dropped(p, S)[c] > 1}
MutNeverFrees(p, S)        == allocated
StillUsed(p, S) == {c \in allocated : Refs(p, S, c) = 0 \/ Dropped(p, S)[c] > 0}
Closed(p, S) ==
  [fd \in Fds |-> IF fd \in S THEN [opened_files[p][fd] EXCEPT !.occupied = FALSE]
                  ELSE opened_files[p][fd]]

sys_close(p) ==
  \E fd \in Fds :
    /\ opened_files[p][fd].occupied
    /\ IF MayDrop(p, {fd})
       THEN /\ opened_files' = [opened_files EXCEPT ![p] = Closed(p, {fd})]
            /\ rc' = Dropped(p, {fd})
            /\ allocated' = StillUsed(p, {fd})
            /\ UNCHANGED <<live, lost, spoiled, machine>>
       ELSE Corrupt

sys_exit(p) ==
  IF MayDrop(p, Fds)
  THEN /\ opened_files' = [opened_files EXCEPT ![p] = Closed(p, Fds)]
       /\ rc' = Dropped(p, Fds)
       /\ allocated' = StillUsed(p, Fds)
       /\ live' = live \ {p}
       /\ UNCHANGED <<lost, spoiled, machine>>
  ELSE Corrupt

-----------------------------------------------------------------------------
FirstFree(p, fd) ==
  /\ ~opened_files[p][fd].occupied
  /\ \A g \in Fds : g < fd => opened_files[p][g].occupied

(* The ways getfile with the given outcome can leave the File f and the    *)
(* heap: the pages it allocates, and those it drops the only pointer to.   *)
(* The object prepared for the lookup is dropped when the file is created  *)
(* instead, and when a path component is not a directory.                  *)
unused == Pages \ allocated

getfile(outcome, f) ==
  CASE outcome \in {"FILE", "DIRECTORY"} ->
         {[file |-> [f EXCEPT !.type = outcome, !.super = c],
           new |-> {c}, dropped |-> {}] : c \in unused}
    [] outcome = "created" ->
         {[file |-> [f EXCEPT !.type = "FILE", !.super = c],
           new |-> {c, d}, dropped |-> {d}] : <<c, d>> \in {x \in unused \X unused : x[1] # x[2]}}
    [] outcome = "DEVICE" ->
         {[file |-> [f EXCEPT !.type = "DEVICE", !.super = NULL], new |-> {}, dropped |-> {}]}
    [] outcome \in {"not a directory", "no room"} ->
         {[file |-> f, new |-> {d}, dropped |-> {d}] : d \in unused}
    [] OTHER -> {[file |-> f, new |-> {}, dropped |-> {}]}

(* sys_openat: the entry is occupied first; the type that is checked next  *)
(* is the old one if getfile failed; the entry stays occupied on errors,   *)
(* with the pointer it had before or one that has just been freed unless   *)
(* it is a device's.                                                       *)
sys_openat(p) ==
  \E fd \in Fds, o \in Opens :
    /\ FirstFree(p, fd)
    /\ \E g \in getfile(o[1], [opened_files[p][fd] EXCEPT !.occupied = TRUE]) :
         LET f        == g.file
             mismatch == (f.type = "DIRECTORY") # o[2]
             fails    == mismatch \/ o[1] \in NotFound
             freed    == IF mismatch /\ f.type # "DEVICE" THEN {f.super} ELSE {}
             opened   == IF fails THEN {} ELSE {f.super}
         IN IF freed \subseteq allocated \cup g.new
            THEN /\ opened_files' = [opened_files EXCEPT ![p][fd] = f]
                 /\ allocated' = (allocated \cup g.new) \ freed
                 /\ rc' = [c \in Pages |-> IF c \in opened THEN 1
                                           ELSE IF c \in freed THEN 0 ELSE rc[c]]
                 /\ lost' = lost \cup g.dropped
                 /\ spoiled' = (spoiled \/ (fails /\ f.type # "DEVICE"))
                 /\ UNCHANGED <<live, machine>>
            ELSE /\ machine' = "corrupt"
                 /\ spoiled' = (spoiled \/ fails)
                 /\ UNCHANGED <<live, opened_files, allocated, rc, lost>>

(* Copying an entry that holds an object adds a reference to it. *)
AddRefs(p, S) == [c \in Pages |-> rc[c] + Refs(p, S, c)]
Intact(p, S)  == \A fd \in Holders(p, S) : opened_files[p][fd].super \in allocated

MutDupUncounted(p) ==
  \E fd, new_fd \in Fds :
    /\ opened_files[p][fd].occupied
    /\ FirstFree(p, new_fd)
    /\ opened_files' = [opened_files EXCEPT ![p][new_fd] = opened_files[p][fd]]
    /\ UNCHANGED <<live, allocated, rc, lost, spoiled, machine>>

sys_dup(p) ==
  \E fd, new_fd \in Fds :
    /\ opened_files[p][fd].occupied
    /\ FirstFree(p, new_fd)
    /\ IF Intact(p, {fd})
       THEN /\ opened_files' = [opened_files EXCEPT ![p][new_fd] = opened_files[p][fd]]
            /\ rc' = AddRefs(p, {fd})
            /\ UNCHANGED <<live, allocated, lost, spoiled, machine>>
       ELSE Corrupt

(* sys_dup3 closes new_fd, then copies old_fd.  With equal descriptors it  *)
(* copies the entry it has just closed.                                    *)
sys_dup3(p) ==
  \E old_fd, new_fd \in Fds :
    /\ opened_files[p][old_fd].occupied
    /\ LET rest == StillUsed(p, {new_fd})
           held == Holders(p, {old_fd})
       IN IF /\ MayDrop(p, {new_fd})
             /\ \A fd \in held : opened_files[p][fd].super \in rest
          THEN /\ opened_files' = [opened_files EXCEPT
                    ![p][new_fd] = IF old_fd = new_fd THEN Closed(p, {new_fd})[new_fd]
                                   ELSE opened_files[p][old_fd]]
               /\ rc' = [c \in Pages |-> Dropped(p, {new_fd})[c] + Refs(p, {old_fd}, c)]
               /\ allocated' = rest
               /\ spoiled' = (spoiled \/ (old_fd = new_fd /\ held # {}))
               /\ UNCHANGED <<live, lost, machine>>
          ELSE /\ machine' = "corrupt"
               /\ spoiled' = (spoiled \/ old_fd = new_fd)
               /\ UNCHANGED <<live, opened_files, allocated, rc, lost>>


sys_fork(p) ==
  \E q \in Procs \ live :
    IF Intact(p, Fds)
    THEN /\ opened_files' = [opened_files EXCEPT ![q] = [fd \in Fds |->
              IF opened_files[p][fd].occupied THEN opened_files[p][fd]
              ELSE [opened_files[q][fd] EXCEPT !.occupied = FALSE]]]
         /\ rc' = AddRefs(p, Fds)
         /\ live' = live \cup {q}
         /\ UNCHANGED <<allocated, lost, spoiled, machine>>
    ELSE Corrupt

(* sys_execve keeps the descriptors, and drops the FSFile of the program.  *)
sys_execve(p) ==
  /\ \E c \in Pages \ allocated :
       /\ allocated' = allocated \cup {c}
       /\ lost' = lost \cup {c}
  /\ UNCHANGED <<live, opened_files, rc, spoiled, machine>>

(* Nobody is left to run, or the behaviour is no longer defined. *)
Off == (live = {} \/ machine = "corrupt") /\ UNCHANGED vars

Step(p) ==
  \/ sys_openat(p) \/ sys_close(p) \/ sys_dup(p) \/ sys_dup3(p)
  \/ sys_fork(p) \/ sys_exit(p) \/ sys_execve(p)

Next == (machine = "on" /\ \E p \in live : Step(p)) \/ Off

Spec == Init /\ [][Next]_vars

-----------------------------------------------------------------------------
(* The open descriptors, in all processes, that hold the object in page c. *)
References(c) ==
  {r \in Procs \X Fds : /\ r[2] \in Holders(r[1], Fds)
                        /\ opened_files[r[1]][r[2]].super = c}

(* Two calls break the bookkeeping, and the invariants hold until one is   *)
(* made: a sys_openat that fails in an entry which is not a device's       *)
(* (sysfile.c:118-128), and a dup3(fd, fd) of an object, which copies the  *)
(* entry it has just closed (sysfile.c:281-287).  A failed open in an      *)
(* entry that was a device's before is not one of them.                    *)

(* FSFile.rc is "reference count, for freeing after duplicating"           *)
(* (filesystem.h:33): open, dup, dup3, fork, close and exit keep it equal  *)
(* to the number of descriptors that share the object.                     *)
RefCountExact ==
  ~spoiled => \A c \in allocated \ lost : rc[c] = Cardinality(References(c))

(* An open descriptor on a file or directory has an FSFile behind it       *)
(* (file.h:16-18): no process is left with a pointer to a freed page by    *)
(* the closes, the exits or the failed opens of others.                    *)
OccupiedIsOpen ==
  ~spoiled => \A p \in Procs : \A fd \in Holders(p, Fds) :
                 opened_files[p][fd].super \in allocated \ lost

(* The last close, dup3 or exit frees the object: a page that is still     *)
(* allocated is referenced, or was dropped inside getfile or sys_execve.   *)
ObjectsAreFreed == ~spoiled => \A c \in allocated \ lost : References(c) # {}

==============================================================================
