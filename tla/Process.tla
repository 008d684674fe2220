------------------------------- MODULE Process -------------------------------
(***************************************************************************)
(* The process table of the kernel: fork, exit, waitpid, yield, the trap   *)
(* entry and the round-robin scheduler (kernel/process.c, kernel/sysproc.c, *)
(* kernel/ctrap.c).                                                        *)
(*                                                                         *)
(* There is one hart and the kernel runs with interrupts off, so a trap is *)
(* one step: user code runs in between.  Which system call user code makes *)
(* next, and when the timer interrupts it, is nondeterministic.            *)
(***************************************************************************)
EXTENDS Integers

CONSTANTS
  NUM_PROCS,    \* slots of process_control_table
  MaxPid,       \* bound: the largest pid that fork hands out
  Xstates,      \* arguments user code passes to exit()
  FaultCauses   \* the exceptions user code may raise

(* What trap_handler passes to sys_exit for each exception. *)
FaultCode == [LoadPageFault        |-> -1, StorePageFault     |-> -2,
              InstructionPageFault |-> -3, IllegalInstruction |-> -4,
              Unsupported          |-> -5]

ASSUME ProcessAssumption ==
  /\ NUM_PROCS \in Nat \ {0}
  /\ MaxPid \in Nat \ {0}
  /\ Xstates \subseteq Int
  /\ FaultCauses \subseteq DOMAIN FaultCode

VARIABLES
  status,     \* PCB.status; TERMINATED only exists inside terminate+unload
  pid,        \* PCB.pid, left behind in a slot that becomes UNUSED
  parent,     \* PCB.parent: the slot of the parent, or NULL; left behind too
  waited,     \* PCB.flags & FLAGS_WAITED
  exit_code,  \* PCB.exit_code
  a0,         \* PCB.trapframe->x[10] as last written by the kernel
  running,    \* cpus[0].running
  next_pid,   \* next_pid
  machine,    \* "on", "finished" (shutdown() in schedule) or "panicked"
  waitFor     \* history: the pid a slot's process last blocked on, 0 if none

vars == <<status, pid, parent, waited, exit_code, a0, running, next_pid,
          machine, waitFor>>

Slots    == 0 .. NUM_PROCS - 1
NULL     == -1
Statuses == {"UNUSED", "READY", "RUNNING", "BLOCKED", "ZOMBIE"}
Codes    == Xstates \cup {FaultCode[c] : c \in FaultCauses}

(* init_scheduler: slot 0 runs /bin/init as pid 1, every other PCB is zero. *)
Init ==
  /\ status    = [i \in Slots |-> IF i = 0 THEN "RUNNING" ELSE "UNUSED"]
  /\ pid       = [i \in Slots |-> IF i = 0 THEN 1 ELSE 0]
  /\ parent    = [i \in Slots |-> NULL]
  /\ waited    = [i \in Slots |-> FALSE]
  /\ exit_code = [i \in Slots |-> 0]
  /\ a0        = [i \in Slots |-> 0]
  /\ running   = 0
  /\ next_pid  = 2
  /\ machine   = "on"
  /\ waitFor   = [i \in Slots |-> 0]

-----------------------------------------------------------------------------
(* schedule() on the statuses st: the slot d places after the running one, *)
(* and every slot in between, is looked at in turn; the running slot is    *)
(* looked at last.                                                         *)
MutNthFromSlot0(d) == (d - 1) % NUM_PROCS

Nth(d) == (running + d) % NUM_PROCS

FirstReady(st, d) ==
  /\ st[Nth(d)] = "READY"
  /\ \A e \in 1 .. d - 1 : st[Nth(e)] # "READY"

Schedule(st) ==
  \/ \E d \in 1 .. NUM_PROCS :
       /\ FirstReady(st, d)
       /\ running' = Nth(d)
       /\ status' = [st EXCEPT ![Nth(d)] = "RUNNING"]
       /\ UNCHANGED machine
  \/ /\ \A i \in Slots : st[i] # "READY"
     /\ machine' = "finished"
     /\ status' = st
     /\ UNCHANGED running

(* trap_handler marks the interrupted process READY before anything else;  *)
(* a system call that does not reschedule returns to it in that status.    *)
Trapped == [status EXCEPT ![running] = "READY"]

ReturnToUser(st, ret) ==
  /\ status' = st
  /\ a0' = [a0 EXCEPT ![running] = ret]
  /\ UNCHANGED <<running, machine>>

-----------------------------------------------------------------------------
Timer ==
  /\ machine = "on"
  /\ Schedule(Trapped)
  /\ UNCHANGED <<pid, parent, waited, exit_code, a0, next_pid, waitFor>>

sys_yield ==
  /\ machine = "on"
  /\ Schedule(Trapped)
  /\ UNCHANGED <<pid, parent, waited, exit_code, a0, next_pid, waitFor>>

(* The file, memory, time and exec system calls leave the process table    *)
(* alone and return a value to their caller.                               *)
OtherSyscall ==
  /\ machine = "on"
  /\ \E ret \in {-1, 0} : ReturnToUser(Trapped, ret)
  /\ UNCHANGED <<pid, parent, waited, exit_code, next_pid, waitFor>>

(* An interrupt other than the timer, or a system call number without an   *)
(* entry in the table, panics.                                             *)
Unsupported ==
  /\ machine = "on"
  /\ status' = Trapped
  /\ machine' = "panicked"
  /\ UNCHANGED <<pid, parent, waited, exit_code, a0, running, next_pid, waitFor>>

MutForkKeepsFlags ==
  /\ machine = "on"
  /\ next_pid <= MaxPid
  /\ \E i \in Slots :
       /\ status[i] = "UNUSED"
       /\ \A j \in Slots : j < i => status[j] # "UNUSED"
       /\ pid' = [pid EXCEPT ![i] = next_pid]
       /\ parent' = [parent EXCEPT ![i] = running]
       /\ status' = [Trapped EXCEPT ![i] = "READY"]
       /\ a0' = [a0 EXCEPT ![i] = 0, ![running] = next_pid]
  /\ next_pid' = next_pid + 1
  /\ UNCHANGED <<waited, exit_code, running, machine, waitFor>>

sys_fork ==
  /\ machine = "on"
  /\ next_pid <= MaxPid
  /\ \E i \in Slots :
       /\ status[i] = "UNUSED"
       /\ \A j \in Slots : j < i => status[j] # "UNUSED"
       /\ pid' = [pid EXCEPT ![i] = next_pid]
       /\ parent' = [parent EXCEPT ![i] = running]
       /\ waited' = [waited EXCEPT ![i] = FALSE]
       /\ status' = [Trapped EXCEPT ![i] = "READY"]
       /\ a0' = [a0 EXCEPT ![i] = 0, ![running] = next_pid]
  /\ next_pid' = next_pid + 1
  /\ UNCHANGED <<exit_code, running, machine, waitFor>>

ForkTableFull ==
  /\ machine = "on"
  /\ \A i \in Slots : status[i] # "UNUSED"
  /\ ReturnToUser(Trapped, -1)
  /\ UNCHANGED <<pid, parent, waited, exit_code, next_pid, waitFor>>

MutExitWakesAnyParent(xstate) ==
  /\ parent[running] # NULL
  /\ a0' = [a0 EXCEPT ![parent[running]] = xstate]
  /\ waitFor' = [waitFor EXCEPT ![parent[running]] = 0]
  /\ Schedule([Trapped EXCEPT ![parent[running]] = "READY", ![running] = "UNUSED"])
  /\ UNCHANGED exit_code

MutExitLosesCode(xstate) ==
  /\ waited[running]
  /\ waitFor' = [waitFor EXCEPT ![parent[running]] = 0]
  /\ Schedule([Trapped EXCEPT ![parent[running]] = "READY", ![running] = "UNUSED"])
  /\ UNCHANGED <<a0, exit_code>>

(* sys_exit of a process whose parent is blocked on it: the parent gets    *)
(* the code, the slot is terminated and unloaded at once.                  *)
ExitWaited(xstate) ==
  /\ waited[running]
  /\ a0' = [a0 EXCEPT ![parent[running]] = xstate]
  /\ waitFor' = [waitFor EXCEPT ![parent[running]] = 0]
  /\ Schedule([Trapped EXCEPT ![parent[running]] = "READY", ![running] = "UNUSED"])
  /\ UNCHANGED exit_code

ExitUnwaited(xstate) ==
  /\ ~waited[running]
  /\ exit_code' = [exit_code EXCEPT ![running] = xstate]
  /\ Schedule([Trapped EXCEPT ![running] = "ZOMBIE"])
  /\ UNCHANGED <<a0, waitFor>>

Terminate(xstate) ==
  /\ machine = "on"
  /\ ExitWaited(xstate) \/ ExitUnwaited(xstate)
  /\ UNCHANGED <<pid, parent, waited, next_pid>>

sys_exit == \E xstate \in Xstates : Terminate(xstate)

Fault == \E cause \in FaultCauses : Terminate(FaultCode[cause])

-----------------------------------------------------------------------------
MutMatchAnyParent(i, p) == pid[i] = p

(* sys_waitpid searches the whole table, UNUSED slots included, and keeps  *)
(* the last match.                                                         *)
Match(i, p) == pid[i] = p /\ parent[i] = running

IsChild(i, p) ==
  /\ Match(i, p)
  /\ \A j \in Slots : j > i => ~Match(j, p)

WaitNoChild(p) ==
  /\ \A i \in Slots : ~Match(i, p)
  /\ ReturnToUser(Trapped, -1)
  /\ UNCHANGED <<waited, waitFor>>

MutReapsTheLiving(p) ==
  \E i \in Slots :
    /\ IsChild(i, p)
    /\ ReturnToUser([Trapped EXCEPT ![i] = "UNUSED"], 0)
    /\ UNCHANGED <<waited, waitFor>>

WaitZombie(p) ==
  \E i \in Slots :
    /\ IsChild(i, p)
    /\ status[i] = "ZOMBIE"
    /\ ReturnToUser([Trapped EXCEPT ![i] = "UNUSED"], 0)
    /\ UNCHANGED <<waited, waitFor>>

MutBlocksUnflagged(p) ==
  \E i \in Slots :
    /\ IsChild(i, p)
    /\ status[i] # "ZOMBIE"
    /\ waitFor' = [waitFor EXCEPT ![running] = p]
    /\ Schedule([Trapped EXCEPT ![running] = "BLOCKED"])
    /\ UNCHANGED <<a0, waited>>

WaitBlock(p) ==
  \E i \in Slots :
    /\ IsChild(i, p)
    /\ status[i] # "ZOMBIE"
    /\ waited' = [waited EXCEPT ![i] = TRUE]
    /\ waitFor' = [waitFor EXCEPT ![running] = p]
    /\ Schedule([Trapped EXCEPT ![running] = "BLOCKED"])
    /\ UNCHANGED a0

sys_waitpid ==
  /\ machine = "on"
  /\ \E p \in 1 .. MaxPid : WaitNoChild(p) \/ WaitZombie(p) \/ WaitBlock(p)
  /\ UNCHANGED <<pid, parent, exit_code, next_pid>>

(* shutdown() and panic() do not return. *)
Off == machine # "on" /\ UNCHANGED vars

Next ==
  \/ Timer \/ sys_yield \/ OtherSyscall \/ Unsupported
  \/ sys_fork \/ ForkTableFull \/ sys_exit \/ Fault \/ sys_waitpid
  \/ Off

Spec == Init /\ [][Next]_vars

(* The timer is re-armed by every timer trap and cannot be masked by user  *)
(* code, so it interrupts user code again and again.                       *)
FairSpec == Spec /\ WF_vars(Timer)
-----------------------------------------------------------------------------
Live(i) == status[i] # "UNUSED"

(* Type invariant. *)
TypeOK ==
  /\ status \in [Slots -> Statuses]
  /\ pid \in [Slots -> 0 .. next_pid - 1]
  /\ parent \in [Slots -> Slots \cup {NULL}]
  /\ waited \in [Slots -> BOOLEAN]
  /\ exit_code \in [Slots -> Int]
  /\ a0 \in [Slots -> Int]
  /\ running \in Slots
  /\ next_pid \in Nat \ {0, 1}
  /\ machine \in {"on", "finished", "panicked"}
  /\ waitFor \in [Slots -> 0 .. next_pid - 1]

(* The hart returns to a slot that may run, and no other slot is RUNNING:  *)
(* every trap takes RUNNING away from the interrupted process (ctrap.c:31) *)
(* and exit, waitpid and fork leave no second slot that claims the hart.   *)
RunsARunnable ==
  /\ machine = "on" => status[running] \in {"READY", "RUNNING"}
  /\ \A i \in Slots : status[i] = "RUNNING" => i = running

(* No two live slots, and no live slot and a stale one, share a pid, so    *)
(* the search of sys_waitpid has at most one match.                        *)
PidsUnique ==
  /\ \A i \in Slots : Live(i) => pid[i] > 0
  /\ \A i, j \in Slots : pid[i] = pid[j] /\ pid[i] > 0 => i = j

(* FLAGS_WAITED on a live slot and BLOCKED in its parent's slot belong     *)
(* together: sys_exit stores through proc->parent, and that slot then      *)
(* still holds the process which waits for exactly this pid.               *)
WaitedMeansParentBlocked ==
  \A i \in Slots : Live(i) /\ waited[i] =>
    /\ parent[i] \in Slots
    /\ status[parent[i]] = "BLOCKED"
    /\ waitFor[parent[i]] = pid[i]

(* The converse, no lost wake-up: a process blocked on a pid that is still *)
(* in the table is flagged there, so the exit of that pid wakes it.        *)
BlockedOnLiveIsFlagged ==
  \A p, i \in Slots :
    status[p] = "BLOCKED" /\ Live(i) /\ pid[i] = waitFor[p] =>
      /\ waited[i]
      /\ parent[i] = p
      /\ status[i] # "ZOMBIE"

(* waitFor remembers a pid exactly while its slot is BLOCKED. *)
WaitForIffBlocked == \A i \in Slots : status[i] = "BLOCKED" <=> waitFor[i] # 0

(* fork never reuses the caller's own slot, so nobody waits for itself. *)
NotOwnParent == \A i \in Slots : parent[i] # i

(* The inductive invariant: besides the four invariants above it needs     *)
(* that blocking is what sets waitFor and that the parent is another slot. *)
ProcessInv ==
  /\ TypeOK
  /\ RunsARunnable
  /\ PidsUnique
  /\ WaitedMeansParentBlocked
  /\ BlockedOnLiveIsFlagged
  /\ WaitForIffBlocked
  /\ NotOwnParent

WokenStep ==
  \A p \in Slots : status[p] = "BLOCKED" /\ status'[p] # "BLOCKED" =>
    /\ status'[p] \in {"READY", "RUNNING"}
    /\ pid[running] = waitFor[p]
    /\ \E xstate \in Codes : Terminate(xstate) /\ a0'[p] = xstate

(* A process leaves BLOCKED only when the process it waits for exits, and  *)
(* finds that exit's code in x[10] (sysproc.c:60-62).                      *)
WokenByItsWaitee == [][WokenStep]_vars

RevivedStep ==
  \A i \in Slots :
    /\ status[i] = "UNUSED" /\ status'[i] # "UNUSED" =>
         pid'[i] = next_pid /\ next_pid' > next_pid /\ ~waited'[i]
    /\ status[i] = "ZOMBIE" => status'[i] \in {"ZOMBIE", "UNUSED"}

(* A dead slot comes back to life only through fork, with a pid never used *)
(* before; a zombie only disappears (sysproc.c:60 writes READY unguarded). *)
NoResurrection == [][RevivedStep]_vars

(* The table implements the life cycle of pids in ProcessLife.             *)
StageOf(s) ==
  CASE s \in {"READY", "RUNNING"} -> "alive"
    [] s = "BLOCKED"              -> "waiting"
    [] s = "ZOMBIE"               -> "zombie"

lifeOfPids ==
  [p \in 1 .. MaxPid |->
     IF p >= next_pid THEN "unborn"
     ELSE IF \E i \in Slots : Live(i) /\ pid[i] = p
          THEN StageOf(status[CHOOSE i \in Slots : Live(i) /\ pid[i] = p])
          ELSE "reaped"]

waitsOfPids ==
  [p \in 1 .. MaxPid |->
     IF \E i \in Slots : Live(i) /\ pid[i] = p
     THEN waitFor[CHOOSE i \in Slots : Live(i) /\ pid[i] = p]
     ELSE 0]

Life == INSTANCE ProcessLife WITH life <- lifeOfPids, waits <- waitsOfPids

(* Slots are recycled, pids are not: seen by pid, every step of the kernel *)
(* is a birth, a wait, an exit that wakes its waiter, a reap, or nothing.  *)
ImplementsLife == Life!Spec

(* Round robin starves nobody: a READY process gets the hart, unless the   *)
(* machine is switched off.                                                *)
ReadyRuns ==
  \A i \in Slots : status[i] = "READY" ~> (running = i \/ machine # "on")

(* sysproc.c:61 says the return code of waitpid() is xstate: whoever reaps *)
(* a zombie gets its exit code.                                            *)
WaitpidReturnsXstate ==
  [][\A i \in Slots : status[i] = "ZOMBIE" /\ status'[i] = "UNUSED" =>
       a0'[running] = exit_code[i]]_vars
==============================================================================
