---------------------------- MODULE ProcessProofs ----------------------------
(***************************************************************************)
(* Proofs about the process table, for every number of slots and pids.     *)
(***************************************************************************)
EXTENDS Process, TLAPS

(* schedule() changes nothing but the status of the slot it resumes: that  *)
(* slot was READY, becomes RUNNING and is the running one.  If it resumes  *)
(* none, no slot was READY and the machine stops.                          *)
LEMMA ScheduleEffect ==
  ASSUME NEW st \in [Slots -> Statuses], running \in Slots, Schedule(st)
  PROVE  /\ status' \in [Slots -> Statuses]
         /\ running' \in Slots
         /\ machine' \in {machine, "finished"}
         /\ machine' # "finished" => status'[running'] = "RUNNING"
         /\ \A i \in Slots : status'[i] # st[i] =>
              st[i] = "READY" /\ status'[i] = "RUNNING" /\ i = running'
<1>1. CASE \E d \in 1 .. NUM_PROCS :
             /\ FirstReady(st, d)
             /\ running' = Nth(d)
             /\ status' = [st EXCEPT ![Nth(d)] = "RUNNING"]
             /\ UNCHANGED machine
  <2>1. PICK d \in 1 .. NUM_PROCS :
             /\ FirstReady(st, d)
             /\ running' = Nth(d)
             /\ status' = [st EXCEPT ![Nth(d)] = "RUNNING"]
             /\ UNCHANGED machine
    BY <1>1
  <2>2. Nth(d) \in Slots
    BY ProcessAssumption DEF Nth, Slots
  <2>3. st[Nth(d)] = "READY"
    BY <2>1 DEF FirstReady
  <2>. QED
    BY <2>1, <2>2, <2>3 DEF Statuses
<1>2. CASE /\ \A i \in Slots : st[i] # "READY"
           /\ machine' = "finished"
           /\ status' = st
           /\ UNCHANGED running
  BY <1>2
<1>. QED
  BY <1>1, <1>2 DEF Schedule

LEMMA InitInv == Init => ProcessInv
BY ProcessAssumption DEF Init, ProcessInv, TypeOK, RunsARunnable, PidsUnique,
   WaitedMeansParentBlocked, BlockedOnLiveIsFlagged, WaitForIffBlocked,
   NotOwnParent, Live, Slots, Statuses, NULL

(* What trap_handler does first: nobody is RUNNING any more. *)
LEMMA TrappedEffect ==
  ASSUME TypeOK, RunsARunnable, machine = "on"
  PROVE  /\ Trapped \in [Slots -> Statuses]
         /\ Trapped[running] = "READY"
         /\ status[running] \in {"READY", "RUNNING"}
         /\ \A i \in Slots : Trapped[i] # "RUNNING"
         /\ \A i \in Slots : i # running => Trapped[i] = status[i]
BY DEF TypeOK, RunsARunnable, Trapped, Statuses

(* Timer interrupt and yield. *)
LEMMA RescheduleInv ==
  ASSUME ProcessInv, machine = "on", Schedule(Trapped),
         UNCHANGED <<pid, parent, waited, exit_code, a0, next_pid, waitFor>>
  PROVE  ProcessInv'
<1> USE DEF ProcessInv
<1>1. /\ Trapped \in [Slots -> Statuses]
      /\ Trapped[running] = "READY"
      /\ status[running] \in {"READY", "RUNNING"}
      /\ \A i \in Slots : Trapped[i] # "RUNNING"
      /\ \A i \in Slots : i # running => Trapped[i] = status[i]
  BY TrappedEffect
<1>2. running \in Slots
  BY DEF TypeOK
<1>3. /\ status' \in [Slots -> Statuses]
      /\ running' \in Slots
      /\ machine' \in {machine, "finished"}
      /\ machine' # "finished" => status'[running'] = "RUNNING"
      /\ \A i \in Slots : status'[i] # Trapped[i] =>
           Trapped[i] = "READY" /\ status'[i] = "RUNNING" /\ i = running'
  BY <1>1, <1>2, ScheduleEffect
<1>4. TypeOK'
  BY <1>3 DEF TypeOK
<1>5. RunsARunnable'
  BY <1>1, <1>3 DEF RunsARunnable
<1>6. PidsUnique'
  BY <1>1, <1>3 DEF PidsUnique, Live
<1>7. WaitedMeansParentBlocked'
  BY <1>1, <1>3 DEF WaitedMeansParentBlocked, Live
<1>8. BlockedOnLiveIsFlagged'
  BY <1>1, <1>3 DEF BlockedOnLiveIsFlagged, Live
<1>9. WaitForIffBlocked' /\ NotOwnParent'
  BY <1>1, <1>3 DEF WaitForIffBlocked, NotOwnParent
<1>. QED
  BY <1>4, <1>5, <1>6, <1>7, <1>8, <1>9

(* A system call that returns to its caller and leaves the table alone. *)
LEMMA ReturnInv ==
  ASSUME ProcessInv, machine = "on", NEW ret \in Int, ReturnToUser(Trapped, ret),
         UNCHANGED <<pid, parent, waited, exit_code, next_pid, waitFor>>
  PROVE  ProcessInv'
<1> USE DEF ProcessInv
<1>1. /\ Trapped \in [Slots -> Statuses]
      /\ Trapped[running] = "READY"
      /\ status[running] \in {"READY", "RUNNING"}
      /\ \A i \in Slots : Trapped[i] # "RUNNING"
      /\ \A i \in Slots : i # running => Trapped[i] = status[i]
  BY TrappedEffect
<1>2. /\ status' = Trapped
      /\ a0' \in [Slots -> Int]
      /\ UNCHANGED <<running, machine>>
  BY DEF ReturnToUser, TypeOK
<1>3. TypeOK'
  BY <1>1, <1>2 DEF TypeOK
<1>4. RunsARunnable' /\ PidsUnique' /\ WaitForIffBlocked' /\ NotOwnParent'
  BY <1>1, <1>2 DEF RunsARunnable, PidsUnique, WaitForIffBlocked, NotOwnParent, Live
<1>5. WaitedMeansParentBlocked'
  BY <1>1, <1>2 DEF WaitedMeansParentBlocked, Live
<1>6. BlockedOnLiveIsFlagged'
  BY <1>1, <1>2 DEF BlockedOnLiveIsFlagged, Live
<1>. QED
  BY <1>3, <1>4, <1>5, <1>6

(* panic() after the trap entry. *)
LEMMA UnsupportedInv == ASSUME ProcessInv, Unsupported PROVE ProcessInv'
<1> USE DEF ProcessInv, Unsupported
<1>1. /\ Trapped \in [Slots -> Statuses]
      /\ Trapped[running] = "READY"
      /\ status[running] \in {"READY", "RUNNING"}
      /\ \A i \in Slots : Trapped[i] # "RUNNING"
      /\ \A i \in Slots : i # running => Trapped[i] = status[i]
  BY TrappedEffect
<1>2. TypeOK' /\ RunsARunnable' /\ PidsUnique' /\ WaitForIffBlocked' /\ NotOwnParent'
  BY <1>1 DEF TypeOK, RunsARunnable, PidsUnique, WaitForIffBlocked, NotOwnParent, Live
<1>3. WaitedMeansParentBlocked'
  BY <1>1 DEF WaitedMeansParentBlocked, Live
<1>4. BlockedOnLiveIsFlagged'
  BY <1>1 DEF BlockedOnLiveIsFlagged, Live
<1>. QED
  BY <1>2, <1>3, <1>4

(* fork: the new slot held no live process, so no live slot is flagged as  *)
(* waited for by it, and nobody can be waiting for the new pid yet.        *)
LEMMA ForkInv == ASSUME ProcessInv, sys_fork PROVE ProcessInv'
<1> USE DEF ProcessInv
<1>1. /\ Trapped \in [Slots -> Statuses]
      /\ Trapped[running] = "READY"
      /\ status[running] \in {"READY", "RUNNING"}
      /\ \A i \in Slots : Trapped[i] # "RUNNING"
      /\ \A i \in Slots : i # running => Trapped[i] = status[i]
  BY TrappedEffect DEF sys_fork
<1>2. PICK c \in Slots :
        /\ status[c] = "UNUSED"
        /\ pid' = [pid EXCEPT ![c] = next_pid]
        /\ parent' = [parent EXCEPT ![c] = running]
        /\ waited' = [waited EXCEPT ![c] = FALSE]
        /\ status' = [Trapped EXCEPT ![c] = "READY"]
        /\ a0' = [a0 EXCEPT ![c] = 0, ![running] = next_pid]
  BY DEF sys_fork
<1>3. /\ next_pid' = next_pid + 1
      /\ UNCHANGED <<exit_code, running, machine, waitFor>>
  BY DEF sys_fork
<1>4. c # running
  BY <1>1, <1>2
<1>5. TypeOK'
  BY <1>1, <1>2, <1>3 DEF TypeOK, Statuses
<1>6. RunsARunnable'
  BY <1>1, <1>2, <1>3 DEF RunsARunnable, TypeOK
<1>7. PidsUnique'
  BY <1>1, <1>2, <1>3 DEF PidsUnique, TypeOK, Live
<1>8. WaitedMeansParentBlocked'
  BY <1>1, <1>2, <1>3, <1>4 DEF WaitedMeansParentBlocked, TypeOK, Live
<1>9. BlockedOnLiveIsFlagged'
  BY <1>1, <1>2, <1>3, <1>4 DEF BlockedOnLiveIsFlagged, TypeOK, Live
<1>10. WaitForIffBlocked' /\ NotOwnParent'
  BY <1>1, <1>2, <1>3, <1>4 DEF WaitForIffBlocked, NotOwnParent, TypeOK
<1>. QED
  BY <1>5, <1>6, <1>7, <1>8, <1>9, <1>10

(* exit while the parent waits: the parent is BLOCKED on this very pid, so *)
(* waking it cuts exactly this link.                                       *)
LEMMA ExitWaitedInv ==
  ASSUME ProcessInv, machine = "on", NEW xstate \in Int, ExitWaited(xstate),
         UNCHANGED <<pid, parent, waited, next_pid>>
  PROVE  ProcessInv'
<1> USE DEF ProcessInv
<1> DEFINE st == [Trapped EXCEPT ![parent[running]] = "READY", ![running] = "UNUSED"]
<1>1. /\ Trapped \in [Slots -> Statuses]
      /\ Trapped[running] = "READY"
      /\ status[running] \in {"READY", "RUNNING"}
      /\ \A i \in Slots : Trapped[i] # "RUNNING"
      /\ \A i \in Slots : i # running => Trapped[i] = status[i]
  BY TrappedEffect
<1>2. /\ running \in Slots
      /\ parent[running] \in Slots
      /\ parent[running] # running
      /\ waited[running]
      /\ status[parent[running]] = "BLOCKED"
      /\ waitFor[parent[running]] = pid[running]
  BY <1>1 DEF ExitWaited, TypeOK, WaitedMeansParentBlocked, Live, NotOwnParent
<1>3. /\ a0' = [a0 EXCEPT ![parent[running]] = xstate]
      /\ waitFor' = [waitFor EXCEPT ![parent[running]] = 0]
      /\ UNCHANGED exit_code
      /\ Schedule(st)
  BY DEF ExitWaited
<1>4. /\ st \in [Slots -> Statuses]
      /\ st[parent[running]] = "READY"
      /\ st[running] = "UNUSED"
      /\ \A i \in Slots : i \notin {running, parent[running]} => st[i] = Trapped[i]
  BY <1>1, <1>2 DEF Statuses
<1> HIDE DEF st
<1>5. /\ status' \in [Slots -> Statuses]
      /\ running' \in Slots
      /\ machine' \in {machine, "finished"}
      /\ machine' # "finished" => status'[running'] = "RUNNING"
      /\ \A i \in Slots : status'[i] # st[i] =>
           st[i] = "READY" /\ status'[i] = "RUNNING" /\ i = running'
  BY <1>2, <1>3, <1>4, ScheduleEffect
<1>6. TypeOK'
  <2>1. a0' \in [Slots -> Int] /\ waitFor' \in [Slots -> 0 .. next_pid - 1]
    BY <1>2, <1>3 DEF TypeOK
  <2>. QED
    BY <1>3, <1>5, <2>1 DEF TypeOK
<1>7. RunsARunnable'
  BY <1>1, <1>4, <1>5 DEF RunsARunnable
<1>8. PidsUnique'
  BY <1>1, <1>2, <1>4, <1>5 DEF PidsUnique, Live
<1>9. WaitedMeansParentBlocked'
  BY <1>1, <1>2, <1>3, <1>4, <1>5 DEF WaitedMeansParentBlocked, PidsUnique, TypeOK, Live
<1>10. BlockedOnLiveIsFlagged'
  BY <1>1, <1>2, <1>3, <1>4, <1>5 DEF BlockedOnLiveIsFlagged, TypeOK, Live
<1>11. WaitForIffBlocked' /\ NotOwnParent'
  BY <1>1, <1>2, <1>3, <1>4, <1>5 DEF WaitForIffBlocked, NotOwnParent, TypeOK
<1>. QED
  BY <1>6, <1>7, <1>8, <1>9, <1>10, <1>11

(* exit while nobody waits: the slot becomes a zombie that is not flagged. *)
LEMMA ExitUnwaitedInv ==
  ASSUME ProcessInv, machine = "on", NEW xstate \in Int, ExitUnwaited(xstate),
         UNCHANGED <<pid, parent, waited, next_pid>>
  PROVE  ProcessInv'
<1> USE DEF ProcessInv
<1> DEFINE st == [Trapped EXCEPT ![running] = "ZOMBIE"]
<1>1. /\ Trapped \in [Slots -> Statuses]
      /\ Trapped[running] = "READY"
      /\ status[running] \in {"READY", "RUNNING"}
      /\ \A i \in Slots : Trapped[i] # "RUNNING"
      /\ \A i \in Slots : i # running => Trapped[i] = status[i]
  BY TrappedEffect
<1>2. /\ running \in Slots
      /\ ~waited[running]
      /\ exit_code' = [exit_code EXCEPT ![running] = xstate]
      /\ UNCHANGED <<a0, waitFor>>
      /\ Schedule(st)
  BY DEF ExitUnwaited, TypeOK
<1>3. /\ st \in [Slots -> Statuses]
      /\ st[running] = "ZOMBIE"
      /\ \A i \in Slots : i # running => st[i] = Trapped[i]
  BY <1>1, <1>2 DEF Statuses
<1> HIDE DEF st
<1>4. /\ status' \in [Slots -> Statuses]
      /\ running' \in Slots
      /\ machine' \in {machine, "finished"}
      /\ machine' # "finished" => status'[running'] = "RUNNING"
      /\ \A i \in Slots : status'[i] # st[i] =>
           st[i] = "READY" /\ status'[i] = "RUNNING" /\ i = running'
  BY <1>2, <1>3, ScheduleEffect
<1>5. TypeOK'
  BY <1>2, <1>4 DEF TypeOK
<1>6. RunsARunnable'
  BY <1>1, <1>3, <1>4 DEF RunsARunnable
<1>7. PidsUnique'
  BY <1>1, <1>2, <1>3, <1>4 DEF PidsUnique, Live
<1>8. WaitedMeansParentBlocked'
  BY <1>1, <1>2, <1>3, <1>4 DEF WaitedMeansParentBlocked, TypeOK, Live
<1>9. BlockedOnLiveIsFlagged'
  BY <1>1, <1>2, <1>3, <1>4 DEF BlockedOnLiveIsFlagged, TypeOK, Live
<1>10. WaitForIffBlocked' /\ NotOwnParent'
  BY <1>1, <1>2, <1>3, <1>4 DEF WaitForIffBlocked, NotOwnParent, TypeOK
<1>. QED
  BY <1>5, <1>6, <1>7, <1>8, <1>9, <1>10

(* waitpid on a zombie: nobody waits for the slot that is given back. *)
LEMMA WaitZombieInv ==
  ASSUME ProcessInv, machine = "on", NEW p \in 1 .. MaxPid, WaitZombie(p),
         UNCHANGED <<pid, parent, exit_code, next_pid>>
  PROVE  ProcessInv'
<1> USE DEF ProcessInv
<1>1. /\ Trapped \in [Slots -> Statuses]
      /\ Trapped[running] = "READY"
      /\ status[running] \in {"READY", "RUNNING"}
      /\ \A i \in Slots : Trapped[i] # "RUNNING"
      /\ \A i \in Slots : i # running => Trapped[i] = status[i]
  BY TrappedEffect
<1>2. PICK c \in Slots :
        /\ status[c] = "ZOMBIE"
        /\ status' = [Trapped EXCEPT ![c] = "UNUSED"]
        /\ a0' = [a0 EXCEPT ![running] = 0]
        /\ UNCHANGED <<running, machine, waited, waitFor>>
  BY DEF WaitZombie, ReturnToUser
<1>3. c # running
  BY <1>1, <1>2
<1>4. TypeOK'
  BY <1>1, <1>2 DEF TypeOK, Statuses
<1>5. RunsARunnable'
  BY <1>1, <1>2, <1>3 DEF RunsARunnable, TypeOK
<1>6. PidsUnique'
  BY <1>1, <1>2, <1>3 DEF PidsUnique, TypeOK, Live
<1>7. WaitedMeansParentBlocked'
  BY <1>1, <1>2, <1>3 DEF WaitedMeansParentBlocked, TypeOK, Live
<1>8. BlockedOnLiveIsFlagged'
  BY <1>1, <1>2, <1>3 DEF BlockedOnLiveIsFlagged, TypeOK, Live
<1>9. WaitForIffBlocked' /\ NotOwnParent'
  BY <1>1, <1>2, <1>3 DEF WaitForIffBlocked, NotOwnParent, TypeOK
<1>. QED
  BY <1>4, <1>5, <1>6, <1>7, <1>8, <1>9

(* waitpid that blocks: the one slot with this pid is flagged and the      *)
(* caller blocks, which makes the link in both directions.                 *)
LEMMA WaitBlockInv ==
  ASSUME ProcessInv, machine = "on", NEW p \in 1 .. MaxPid, WaitBlock(p),
         UNCHANGED <<pid, parent, exit_code, next_pid>>
  PROVE  ProcessInv'
<1> USE DEF ProcessInv
<1> DEFINE st == [Trapped EXCEPT ![running] = "BLOCKED"]
<1>1. /\ Trapped \in [Slots -> Statuses]
      /\ Trapped[running] = "READY"
      /\ status[running] \in {"READY", "RUNNING"}
      /\ \A i \in Slots : Trapped[i] # "RUNNING"
      /\ \A i \in Slots : i # running => Trapped[i] = status[i]
  BY TrappedEffect
<1>2. PICK c \in Slots :
        /\ pid[c] = p
        /\ parent[c] = running
        /\ status[c] # "ZOMBIE"
        /\ waited' = [waited EXCEPT ![c] = TRUE]
        /\ waitFor' = [waitFor EXCEPT ![running] = p]
        /\ Schedule(st)
        /\ UNCHANGED a0
  BY DEF WaitBlock, IsChild, Match
<1>3. /\ running \in Slots
      /\ c # running
      /\ p > 0
      /\ p \in 0 .. next_pid - 1
  BY <1>2 DEF TypeOK, NotOwnParent
<1>4. /\ st \in [Slots -> Statuses]
      /\ st[running] = "BLOCKED"
      /\ \A i \in Slots : i # running => st[i] = Trapped[i]
  BY <1>1, <1>3 DEF Statuses
<1> HIDE DEF st
<1>5. /\ status' \in [Slots -> Statuses]
      /\ running' \in Slots
      /\ machine' \in {machine, "finished"}
      /\ machine' # "finished" => status'[running'] = "RUNNING"
      /\ \A i \in Slots : status'[i] # st[i] =>
           st[i] = "READY" /\ status'[i] = "RUNNING" /\ i = running'
  BY <1>2, <1>3, <1>4, ScheduleEffect
<1>6. TypeOK'
  <2>1. waited' \in [Slots -> BOOLEAN] /\ waitFor' \in [Slots -> 0 .. next_pid - 1]
    BY <1>2, <1>3 DEF TypeOK
  <2>. QED
    BY <1>2, <1>5, <2>1 DEF TypeOK
<1>7. RunsARunnable'
  BY <1>1, <1>4, <1>5 DEF RunsARunnable
<1>8. PidsUnique'
  BY <1>1, <1>3, <1>4, <1>5 DEF PidsUnique, Live
<1>9. WaitedMeansParentBlocked'
  BY <1>1, <1>2, <1>3, <1>4, <1>5 DEF WaitedMeansParentBlocked, TypeOK, Live
<1>10. BlockedOnLiveIsFlagged'
  BY <1>1, <1>2, <1>3, <1>4, <1>5 DEF BlockedOnLiveIsFlagged, PidsUnique, TypeOK, Live
<1>11. WaitForIffBlocked' /\ NotOwnParent'
  BY <1>1, <1>2, <1>3, <1>4, <1>5 DEF WaitForIffBlocked, NotOwnParent, TypeOK
<1>. QED
  BY <1>6, <1>7, <1>8, <1>9, <1>10, <1>11

(* Every exception has an integer exit code. *)
LEMMA CodesAreInts == \A c \in FaultCauses : FaultCode[c] \in Int
<1>1. ASSUME NEW c \in DOMAIN FaultCode PROVE FaultCode[c] \in Int
  <2>1. c \in {"LoadPageFault", "StorePageFault", "InstructionPageFault",
               "IllegalInstruction", "Unsupported"}
    BY <1>1 DEF FaultCode
  <2>. QED
    BY <2>1 DEF FaultCode
<1>. QED
  BY <1>1, ProcessAssumption

(* Every trap preserves the inductive invariant. *)
LEMMA NextInv == ProcessInv /\ [Next]_vars => ProcessInv'
<1> SUFFICES ASSUME ProcessInv, [Next]_vars PROVE ProcessInv'
  OBVIOUS
<1>1. CASE Timer
  BY <1>1, RescheduleInv DEF Timer
<1>2. CASE sys_yield
  BY <1>2, RescheduleInv DEF sys_yield
<1>3. CASE OtherSyscall
  <2>1. PICK ret \in {-1, 0} : ReturnToUser(Trapped, ret)
    BY <1>3 DEF OtherSyscall
  <2>. QED
    BY <1>3, <2>1, ReturnInv DEF OtherSyscall
<1>4. CASE Unsupported
  BY <1>4, UnsupportedInv
<1>5. CASE sys_fork
  BY <1>5, ForkInv
<1>6. CASE ForkTableFull
  BY <1>6, ReturnInv DEF ForkTableFull
<1>7. ASSUME NEW xstate \in Int, Terminate(xstate) PROVE ProcessInv'
  BY <1>7, ExitWaitedInv, ExitUnwaitedInv DEF Terminate
<1>8. CASE sys_exit
  BY <1>7, <1>8, ProcessAssumption DEF sys_exit
<1>9. CASE Fault
  BY <1>7, <1>9, CodesAreInts DEF Fault
<1>10. CASE sys_waitpid
  <2>1. PICK p \in 1 .. MaxPid : WaitNoChild(p) \/ WaitZombie(p) \/ WaitBlock(p)
    BY <1>10 DEF sys_waitpid
  <2>2. machine = "on" /\ UNCHANGED <<pid, parent, exit_code, next_pid>>
    BY <1>10 DEF sys_waitpid
  <2>3. CASE WaitNoChild(p)
    BY <2>2, <2>3, ReturnInv DEF WaitNoChild
  <2>4. CASE WaitZombie(p)
    BY <2>2, <2>4, WaitZombieInv
  <2>5. CASE WaitBlock(p)
    BY <2>2, <2>5, WaitBlockInv
  <2>. QED
    BY <2>1, <2>3, <2>4, <2>5
<1>11. CASE Off \/ UNCHANGED vars
  BY <1>11 DEF Off, vars, ProcessInv, TypeOK, RunsARunnable, PidsUnique,
     WaitedMeansParentBlocked, BlockedOnLiveIsFlagged, WaitForIffBlocked,
     NotOwnParent, Live
<1>. QED
  BY <1>1, <1>2, <1>3, <1>4, <1>5, <1>6, <1>8, <1>9, <1>10, <1>11 DEF Next

(* The invariant holds in every reachable state, however large the table. *)
THEOREM ProcessInvariant == Spec => []ProcessInv
BY InitInv, NextInv, PTL DEF Spec

(* Type correctness of the process table. *)
THEOREM ProcessTypeOK == Spec => []TypeOK
<1>1. ProcessInv => TypeOK
  BY DEF ProcessInv
<1>. QED
  BY <1>1, ProcessInvariant, PTL

(* FLAGS_WAITED on a live slot implies that its parent is blocked on it:   *)
(* the store through proc->parent in sys_exit always reaches the waiter.   *)
THEOREM WaitedParentIsBlocked == Spec => []WaitedMeansParentBlocked
<1>1. ProcessInv => WaitedMeansParentBlocked
  BY DEF ProcessInv
<1>. QED
  BY <1>1, ProcessInvariant, PTL

(* No wake-up is lost while the awaited process is in the table. *)
THEOREM NoLostWakeup == Spec => []BlockedOnLiveIsFlagged
<1>1. ProcessInv => BlockedOnLiveIsFlagged
  BY DEF ProcessInv
<1>. QED
  BY <1>1, ProcessInvariant, PTL

(* schedule() only ever leaves a runnable process on the hart. *)
THEOREM SchedulerRunsARunnable == Spec => []RunsARunnable
<1>1. ProcessInv => RunsARunnable
  BY DEF ProcessInv
<1>. QED
  BY <1>1, ProcessInvariant, PTL

-----------------------------------------------------------------------------
(* A step that only reschedules, or returns to its caller, takes no slot   *)
(* out of BLOCKED, UNUSED or ZOMBIE.                                       *)
LEMMA QuietStep ==
  ASSUME ProcessInv, machine = "on",
         \/ Schedule(Trapped)
         \/ status' = Trapped
         \/ Schedule([Trapped EXCEPT ![running] = "BLOCKED"])
         \/ Schedule([Trapped EXCEPT ![running] = "ZOMBIE"])
  PROVE  \A i \in Slots :
           status[i] \in {"BLOCKED", "UNUSED", "ZOMBIE"} => status'[i] = status[i]
<1>1. /\ Trapped \in [Slots -> Statuses]
      /\ Trapped[running] = "READY"
      /\ status[running] \in {"READY", "RUNNING"}
      /\ \A i \in Slots : i # running => Trapped[i] = status[i]
  BY TrappedEffect DEF ProcessInv
<1>2. running \in Slots
  BY DEF ProcessInv, TypeOK
<1>3. ASSUME NEW st \in [Slots -> Statuses], Schedule(st),
             \A i \in Slots : i # running => st[i] = status[i]
      PROVE  \A i \in Slots :
               status[i] \in {"BLOCKED", "UNUSED", "ZOMBIE"} => status'[i] = status[i]
  BY <1>1, <1>2, <1>3, ScheduleEffect
<1>4. CASE Schedule(Trapped)
  BY <1>1, <1>3, <1>4
<1>5. CASE status' = Trapped
  BY <1>1, <1>5
<1>6. CASE Schedule([Trapped EXCEPT ![running] = "BLOCKED"])
  <2>1. [Trapped EXCEPT ![running] = "BLOCKED"] \in [Slots -> Statuses]
    BY <1>1, <1>2 DEF Statuses
  <2>2. \A i \in Slots : i # running =>
          [Trapped EXCEPT ![running] = "BLOCKED"][i] = status[i]
    BY <1>1
  <2>. QED
    BY <1>3, <1>6, <2>1, <2>2
<1>7. CASE Schedule([Trapped EXCEPT ![running] = "ZOMBIE"])
  <2>1. [Trapped EXCEPT ![running] = "ZOMBIE"] \in [Slots -> Statuses]
    BY <1>1, <1>2 DEF Statuses
  <2>2. \A i \in Slots : i # running =>
          [Trapped EXCEPT ![running] = "ZOMBIE"][i] = status[i]
    BY <1>1
  <2>. QED
    BY <1>3, <1>7, <2>1, <2>2
<1>. QED
  BY <1>4, <1>5, <1>6, <1>7

(* An exit that wakes: the woken slot was BLOCKED on the exiting pid, and  *)
(* the exiting slot is the only one that becomes UNUSED.                   *)
LEMMA WakingStep ==
  ASSUME ProcessInv, machine = "on", NEW xstate \in Int, ExitWaited(xstate)
  PROVE  /\ parent[running] \in Slots
         /\ status[parent[running]] = "BLOCKED"
         /\ waitFor[parent[running]] = pid[running]
         /\ a0'[parent[running]] = xstate
         /\ status'[parent[running]] \in {"READY", "RUNNING"}
         /\ \A i \in Slots : i # parent[running] /\
              status[i] \in {"BLOCKED", "UNUSED", "ZOMBIE"} => status'[i] = status[i]
<1> DEFINE st == [Trapped EXCEPT ![parent[running]] = "READY", ![running] = "UNUSED"]
<1>1. /\ Trapped \in [Slots -> Statuses]
      /\ status[running] \in {"READY", "RUNNING"}
      /\ \A i \in Slots : i # running => Trapped[i] = status[i]
  BY TrappedEffect DEF ProcessInv
<1>2. /\ running \in Slots
      /\ parent[running] \in Slots
      /\ parent[running] # running
      /\ status[parent[running]] = "BLOCKED"
      /\ waitFor[parent[running]] = pid[running]
  BY <1>1 DEF ProcessInv, ExitWaited, TypeOK, WaitedMeansParentBlocked, Live, NotOwnParent
<1>3. a0'[parent[running]] = xstate
  BY <1>2 DEF ExitWaited, ProcessInv, TypeOK
<1>4. /\ st \in [Slots -> Statuses]
      /\ st[parent[running]] = "READY"
      /\ \A i \in Slots : i \notin {running, parent[running]} => st[i] = status[i]
  BY <1>1, <1>2 DEF Statuses
<1>5. Schedule(st)
  BY DEF ExitWaited
<1> HIDE DEF st
<1>6. \A i \in Slots : status'[i] # st[i] => st[i] = "READY" /\ status'[i] = "RUNNING"
  BY <1>2, <1>4, <1>5, ScheduleEffect
<1>. QED
  BY <1>1, <1>2, <1>3, <1>4, <1>6

(* What one trap may do to a blocked, a free and a zombie slot. *)
LEMMA StepFacts == ProcessInv /\ Next => WokenStep /\ RevivedStep
<1> SUFFICES ASSUME ProcessInv, Next PROVE WokenStep /\ RevivedStep
  OBVIOUS
<1>1. ASSUME \A i \in Slots :
               status[i] \in {"BLOCKED", "UNUSED", "ZOMBIE"} => status'[i] = status[i]
      PROVE  WokenStep /\ RevivedStep
  BY <1>1 DEF WokenStep, RevivedStep
<1>2. CASE Timer \/ sys_yield \/ OtherSyscall \/ Unsupported \/ ForkTableFull
  BY <1>1, <1>2, QuietStep
     DEF Timer, sys_yield, OtherSyscall, Unsupported, ForkTableFull, ReturnToUser
<1>3. CASE sys_fork
  <2>1. /\ status[running] \in {"READY", "RUNNING"}
        /\ \A i \in Slots : i # running => Trapped[i] = status[i]
        /\ Trapped \in [Slots -> Statuses]
    BY <1>3, TrappedEffect DEF sys_fork, ProcessInv
  <2>2. PICK c \in Slots :
          /\ status[c] = "UNUSED"
          /\ pid' = [pid EXCEPT ![c] = next_pid]
          /\ waited' = [waited EXCEPT ![c] = FALSE]
          /\ status' = [Trapped EXCEPT ![c] = "READY"]
    BY <1>3 DEF sys_fork
  <2>3. next_pid' > next_pid /\ pid'[c] = next_pid /\ ~waited'[c]
    BY <1>3, <2>2 DEF sys_fork, ProcessInv, TypeOK
  <2>4. \A i \in Slots : i # c /\
          status[i] \in {"BLOCKED", "UNUSED", "ZOMBIE"} => status'[i] = status[i]
    BY <2>1, <2>2
  <2>. QED
    BY <2>2, <2>3, <2>4 DEF WokenStep, RevivedStep
<1>4. ASSUME NEW xstate \in Codes, xstate \in Int, Terminate(xstate)
      PROVE  WokenStep /\ RevivedStep
  <2>1. CASE ExitWaited(xstate)
    <3>1. /\ machine = "on"
          /\ parent[running] \in Slots
          /\ status[parent[running]] = "BLOCKED"
          /\ waitFor[parent[running]] = pid[running]
          /\ a0'[parent[running]] = xstate
          /\ status'[parent[running]] \in {"READY", "RUNNING"}
          /\ \A i \in Slots : i # parent[running] /\
               status[i] \in {"BLOCKED", "UNUSED", "ZOMBIE"} => status'[i] = status[i]
      BY <1>4, <2>1, WakingStep DEF Terminate
    <3>2. WokenStep
      BY <1>4, <3>1 DEF WokenStep
    <3>3. RevivedStep
      BY <3>1 DEF RevivedStep
    <3>. QED
      BY <3>2, <3>3
  <2>2. CASE ExitUnwaited(xstate)
    BY <1>1, <1>4, <2>2, QuietStep DEF Terminate, ExitUnwaited
  <2>. QED
    BY <1>4, <2>1, <2>2 DEF Terminate
<1>5. CASE sys_exit
  BY <1>4, <1>5, ProcessAssumption DEF sys_exit, Codes
<1>6. CASE Fault
  <2>1. PICK cause \in FaultCauses : Terminate(FaultCode[cause])
    BY <1>6 DEF Fault
  <2>2. FaultCode[cause] \in Codes /\ FaultCode[cause] \in Int
    BY CodesAreInts DEF Codes
  <2>. QED
    BY <1>4, <2>1, <2>2
<1>7. CASE sys_waitpid
  <2>1. PICK p \in 1 .. MaxPid : WaitNoChild(p) \/ WaitZombie(p) \/ WaitBlock(p)
    BY <1>7 DEF sys_waitpid
  <2>2. machine = "on"
    BY <1>7 DEF sys_waitpid
  <2>3. CASE WaitNoChild(p) \/ WaitBlock(p)
    BY <1>1, <2>2, <2>3, QuietStep DEF WaitNoChild, WaitBlock, ReturnToUser
  <2>4. CASE WaitZombie(p)
    <3>1. PICK c \in Slots :
            status[c] = "ZOMBIE" /\ status' = [Trapped EXCEPT ![c] = "UNUSED"]
      BY <2>4 DEF WaitZombie, ReturnToUser
    <3>2. /\ status[running] \in {"READY", "RUNNING"}
          /\ \A i \in Slots : i # running => Trapped[i] = status[i]
          /\ Trapped \in [Slots -> Statuses]
      BY <2>2, TrappedEffect DEF ProcessInv
    <3>3. status'[c] = "UNUSED"
      BY <3>1, <3>2
    <3>4. \A i \in Slots : i # c /\
            status[i] \in {"BLOCKED", "UNUSED", "ZOMBIE"} => status'[i] = status[i]
      BY <3>1, <3>2
    <3>. QED
      BY <3>1, <3>3, <3>4 DEF WokenStep, RevivedStep
  <2>. QED
    BY <2>1, <2>3, <2>4
<1>8. CASE Off
  BY <1>1, <1>8 DEF Off, vars
<1>. QED
  BY <1>2, <1>3, <1>5, <1>6, <1>7, <1>8 DEF Next

(* waitpid is woken by the exit it waits for and by nothing else, and gets *)
(* that exit's code (sysproc.c:60-62), for every table size.               *)
THEOREM WokenOnlyByItsWaitee == Spec => WokenByItsWaitee
<1>1. ProcessInv /\ [Next]_vars => [WokenStep]_vars
  BY StepFacts
<1>. QED
  BY <1>1, ProcessInvariant, PTL DEF Spec, WokenByItsWaitee

(* A free slot comes back only through fork, with a fresh pid, and a       *)
(* zombie is only ever reaped (sysproc.c:60 writes READY unguarded).       *)
THEOREM DeadStayDead == Spec => NoResurrection
<1>1. ProcessInv /\ [Next]_vars => [RevivedStep]_vars
  BY StepFacts
<1>. QED
  BY <1>1, ProcessInvariant, PTL DEF Spec, NoResurrection
==============================================================================
