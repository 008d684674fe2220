-------------------------- MODULE ProcessLifeProofs --------------------------
(***************************************************************************)
(* The process table implements the life cycle of pids in ProcessLife, for *)
(* every number of slots and pids.                                         *)
(***************************************************************************)
EXTENDS ProcessProofs

(* fork hands out no pid above the bound. *)
PidBound == next_pid <= MaxPid + 1

Bounded == ProcessInv /\ PidBound

LEMMA BoundedInit == Init => Bounded
BY InitInv, ProcessAssumption DEF Init, Bounded, PidBound

LEMMA BoundedNext == Bounded /\ [Next]_vars => Bounded'
<1> SUFFICES ASSUME Bounded, [Next]_vars PROVE Bounded'
  OBVIOUS
<1>1. ProcessInv'
  BY NextInv DEF Bounded
<1>2. next_pid' = next_pid \/ (next_pid <= MaxPid /\ next_pid' = next_pid + 1)
  BY DEF Next, vars, Timer, sys_yield, OtherSyscall, Unsupported, sys_fork,
     ForkTableFull, sys_exit, Fault, Terminate, sys_waitpid, Off
<1>. QED
  BY <1>1, <1>2, ProcessAssumption DEF Bounded, PidBound, ProcessInv, TypeOK

-----------------------------------------------------------------------------
(* The refinement mapping without its CHOOSE: pids are unique, so a live   *)
(* slot determines what its pid maps to, and a pid without a live slot is  *)
(* unborn or reaped.                                                       *)
LifeView ==
  /\ lifeOfPids = [p \in 1 .. MaxPid |-> lifeOfPids[p]]
  /\ waitsOfPids = [p \in 1 .. MaxPid |-> waitsOfPids[p]]
  /\ \A i \in Slots : Live(i) =>
       /\ pid[i] \in 1 .. MaxPid
       /\ pid[i] < next_pid
       /\ lifeOfPids[pid[i]] = StageOf(status[i])
       /\ waitsOfPids[pid[i]] = waitFor[i]
  /\ \A p \in 1 .. MaxPid : (\A i \in Slots : Live(i) => pid[i] # p) =>
       /\ lifeOfPids[p] = IF p >= next_pid THEN "unborn" ELSE "reaped"
       /\ waitsOfPids[p] = 0

LEMMA View == Bounded => LifeView
<1> SUFFICES ASSUME Bounded PROVE LifeView
  OBVIOUS
<1>1. /\ lifeOfPids = [p \in 1 .. MaxPid |-> lifeOfPids[p]]
      /\ waitsOfPids = [p \in 1 .. MaxPid |-> waitsOfPids[p]]
  BY DEF lifeOfPids, waitsOfPids
<1>2. ASSUME NEW i \in Slots, Live(i)
      PROVE  /\ pid[i] \in 1 .. MaxPid
             /\ pid[i] < next_pid
             /\ lifeOfPids[pid[i]] = StageOf(status[i])
             /\ waitsOfPids[pid[i]] = waitFor[i]
  <2>1. pid[i] \in 1 .. MaxPid /\ pid[i] < next_pid
    BY <1>2, ProcessAssumption
       DEF Bounded, PidBound, ProcessInv, TypeOK, PidsUnique
  <2>2. \A j \in Slots : Live(j) /\ pid[j] = pid[i] => j = i
    BY <2>1 DEF Bounded, ProcessInv, PidsUnique
  <2>3. (CHOOSE j \in Slots : Live(j) /\ pid[j] = pid[i]) = i
    BY <1>2, <2>2
  <2>4. ~(pid[i] >= next_pid)
    BY <2>1, ProcessAssumption DEF Bounded, ProcessInv, TypeOK
  <2>. QED
    BY <1>2, <2>1, <2>3, <2>4 DEF lifeOfPids, waitsOfPids
<1>3. ASSUME NEW p \in 1 .. MaxPid, \A i \in Slots : Live(i) => pid[i] # p
      PROVE  /\ lifeOfPids[p] = IF p >= next_pid THEN "unborn" ELSE "reaped"
             /\ waitsOfPids[p] = 0
  BY <1>3 DEF lifeOfPids, waitsOfPids
<1>. QED
  BY <1>1, <1>2, <1>3 DEF LifeView

LEMMA ViewNext == Bounded' => LifeView'
BY View, PTL

-----------------------------------------------------------------------------
LEMMA Stages ==
  /\ StageOf("READY") = "alive"
  /\ StageOf("RUNNING") = "alive"
  /\ StageOf("BLOCKED") = "waiting"
  /\ StageOf("ZOMBIE") = "zombie"
BY DEF StageOf

(* schedule() is invisible in the life cycle. *)
LEMMA ScheduleStages ==
  ASSUME NEW st \in [Slots -> Statuses], running \in Slots, Schedule(st)
  PROVE  \A i \in Slots : /\ status'[i] = "UNUSED" <=> st[i] = "UNUSED"
                          /\ StageOf(status'[i]) = StageOf(st[i])
<1>1. \A i \in Slots : status'[i] # st[i] => st[i] = "READY" /\ status'[i] = "RUNNING"
  BY ScheduleEffect
<1>. QED
  BY <1>1, Stages

(* So is the trap entry: the running process stays alive. *)
LEMMA TrappedStages ==
  ASSUME Bounded, machine = "on"
  PROVE  /\ running \in Slots
         /\ Trapped \in [Slots -> Statuses]
         /\ Live(running)
         /\ StageOf(status[running]) = "alive"
         /\ StageOf(Trapped[running]) = "alive"
         /\ \A i \in Slots : /\ Trapped[i] = "UNUSED" <=> status[i] = "UNUSED"
                             /\ StageOf(Trapped[i]) = StageOf(status[i])
<1>1. /\ Trapped \in [Slots -> Statuses]
      /\ Trapped[running] = "READY"
      /\ status[running] \in {"READY", "RUNNING"}
      /\ \A i \in Slots : i # running => Trapped[i] = status[i]
      /\ running \in Slots
  BY TrappedEffect DEF Bounded, ProcessInv, TypeOK
<1>. QED
  BY <1>1, Stages DEF Live

(* A pid keeps its stage and its wait when the slot that carries it does. *)
LEMMA PidKept ==
  ASSUME LifeView, LifeView', UNCHANGED <<pid, next_pid>>, NEW p \in 1 .. MaxPid,
         \A i \in Slots : Live(i) /\ pid[i] = p =>
           StageOf(status'[i]) = StageOf(status[i]) /\ waitFor'[i] = waitFor[i],
         \A i \in Slots : pid[i] = p => (status'[i] = "UNUSED" <=> status[i] = "UNUSED")
  PROVE  lifeOfPids'[p] = lifeOfPids[p] /\ waitsOfPids'[p] = waitsOfPids[p]
<1>1. CASE \E i \in Slots : Live(i) /\ pid[i] = p
  <2>1. PICK i \in Slots : Live(i) /\ pid[i] = p
    BY <1>1
  <2>2. Live(i)' /\ pid'[i] = p
    BY <2>1 DEF Live
  <2>. QED
    BY <2>1, <2>2 DEF LifeView
<1>2. CASE \A i \in Slots : Live(i) => pid[i] # p
  BY <1>2 DEF LifeView, Live
<1>. QED
  BY <1>1, <1>2

(* A step that changes no stage, no pid and no wait is a stutter. *)
LEMMA SameView ==
  ASSUME Bounded, Bounded', UNCHANGED <<pid, next_pid, waitFor>>,
         \A i \in Slots : /\ status'[i] = "UNUSED" <=> status[i] = "UNUSED"
                          /\ StageOf(status'[i]) = StageOf(status[i])
  PROVE  UNCHANGED <<lifeOfPids, waitsOfPids>>
<1>1. LifeView /\ LifeView'
  BY View, ViewNext
<1>2. \A p \in 1 .. MaxPid :
        lifeOfPids'[p] = lifeOfPids[p] /\ waitsOfPids'[p] = waitsOfPids[p]
  BY <1>1, PidKept
<1>. QED
  BY <1>1, <1>2 DEF LifeView

(* Interrupts, yield, failed forks and the other system calls. *)
LEMMA QuietLife ==
  ASSUME Bounded, Bounded',
         Timer \/ sys_yield \/ OtherSyscall \/ Unsupported \/ ForkTableFull \/ Off
  PROVE  UNCHANGED <<lifeOfPids, waitsOfPids>>
<1>1. CASE Off
  BY <1>1, SameView DEF Off, vars
<1>2. CASE machine = "on"
  <2>1. Schedule(Trapped) \/ status' = Trapped
    BY <1>2 DEF Timer, sys_yield, OtherSyscall, Unsupported, ForkTableFull,
       ReturnToUser, Off
  <2>2. UNCHANGED <<pid, next_pid, waitFor>>
    BY <1>2 DEF Timer, sys_yield, OtherSyscall, Unsupported, ForkTableFull, Off
  <2>3. \A i \in Slots : /\ status'[i] = "UNUSED" <=> status[i] = "UNUSED"
                         /\ StageOf(status'[i]) = StageOf(status[i])
    BY <1>2, <2>1, TrappedStages, ScheduleStages
  <2>. QED
    BY <2>2, <2>3, SameView
<1>. QED
  BY <1>1, <1>2 DEF Timer, sys_yield, OtherSyscall, Unsupported, ForkTableFull

(* fork is the birth of the next pid. *)
LEMMA ForkLife ==
  ASSUME Bounded, Bounded', sys_fork
  PROVE  Life!Spawn(next_pid) /\ next_pid \in Life!Pids
<1>1. LifeView /\ LifeView'
  BY View, ViewNext
<1>2. /\ running \in Slots
      /\ Live(running)
      /\ StageOf(status[running]) = "alive"
      /\ Trapped \in [Slots -> Statuses]
      /\ \A i \in Slots : /\ Trapped[i] = "UNUSED" <=> status[i] = "UNUSED"
                          /\ StageOf(Trapped[i]) = StageOf(status[i])
  BY TrappedStages DEF sys_fork
<1>3. PICK c \in Slots :
        /\ status[c] = "UNUSED"
        /\ pid' = [pid EXCEPT ![c] = next_pid]
        /\ status' = [Trapped EXCEPT ![c] = "READY"]
  BY DEF sys_fork
<1>4. /\ next_pid \in 1 .. MaxPid
      /\ next_pid \in Nat
      /\ next_pid' = next_pid + 1
      /\ waitFor' = waitFor
      /\ waitFor[c] = 0
  BY <1>3, ProcessAssumption DEF sys_fork, Bounded, ProcessInv, TypeOK, WaitForIffBlocked
<1>5. /\ pid'[c] = next_pid
      /\ status'[c] = "READY"
      /\ StageOf(status'[c]) = "alive"
      /\ \A i \in Slots : i # c =>
           /\ pid'[i] = pid[i]
           /\ status'[i] = "UNUSED" <=> status[i] = "UNUSED"
           /\ StageOf(status'[i]) = StageOf(status[i])
  BY <1>2, <1>3 DEF StageOf, Bounded, ProcessInv, TypeOK
<1>6. lifeOfPids[next_pid] = "unborn" /\ waitsOfPids[next_pid] = 0
  BY <1>1, <1>4 DEF LifeView
<1>7. lifeOfPids'[next_pid] = "alive" /\ waitsOfPids'[next_pid] = 0
  BY <1>1, <1>4, <1>5 DEF LifeView, Live
<1>8. ASSUME NEW p \in 1 .. MaxPid, p # next_pid
      PROVE  lifeOfPids'[p] = lifeOfPids[p] /\ waitsOfPids'[p] = waitsOfPids[p]
  <2>1. CASE \E i \in Slots : Live(i) /\ pid[i] = p
    <3>1. PICK i \in Slots : Live(i) /\ pid[i] = p
      BY <2>1
    <3>2. i # c /\ Live(i)' /\ pid'[i] = p
      BY <1>3, <1>5, <3>1 DEF Live
    <3>. QED
      BY <1>1, <1>4, <1>5, <3>1, <3>2 DEF LifeView
  <2>2. CASE \A i \in Slots : Live(i) => pid[i] # p
    <3>1. \A i \in Slots : Live(i)' => pid'[i] # p
      BY <1>5, <1>8, <2>2 DEF Live
    <3>2. p >= next_pid <=> p >= next_pid'
      BY <1>4, <1>8
    <3>. QED
      BY <1>1, <2>2, <3>1, <3>2 DEF LifeView
  <2>. QED
    BY <2>1, <2>2
<1>9. lifeOfPids' = [lifeOfPids EXCEPT ![next_pid] = "alive"] /\ waitsOfPids' = waitsOfPids
  BY <1>1, <1>4, <1>6, <1>7, <1>8 DEF LifeView
<1>10. \E p \in 1 .. MaxPid : lifeOfPids[p] = "alive"
  BY <1>1, <1>2 DEF LifeView
<1>11. ASSUME NEW q \in 1 .. MaxPid, q < next_pid PROVE lifeOfPids[q] # "unborn"
  <2>1. CASE \E i \in Slots : Live(i) /\ pid[i] = q
    <3>1. PICK i \in Slots : Live(i) /\ pid[i] = q
      BY <2>1
    <3>2. StageOf(status[i]) # "unborn"
      BY <3>1 DEF StageOf, Live, Bounded, ProcessInv, TypeOK, Statuses
    <3>. QED
      BY <1>1, <3>1, <3>2 DEF LifeView
  <2>2. CASE \A i \in Slots : Live(i) => pid[i] # q
    BY <1>1, <1>4, <1>11, <2>2 DEF LifeView
  <2>. QED
    BY <2>1, <2>2
<1>. QED
  BY <1>4, <1>6, <1>9, <1>10, <1>11 DEF Life!Spawn, Life!Pids

(* waitpid is nothing, a reap of the zombie, or a wait for the child, who  *)
(* may be reaped already: the search also finds stale slots.               *)
LEMMA WaitLife ==
  ASSUME Bounded, Bounded', sys_waitpid
  PROVE  \/ UNCHANGED <<lifeOfPids, waitsOfPids>>
         \/ \E q, c \in Life!Pids : Life!Wait(q, c) \/ Life!Reap(q, c)
<1>1. LifeView /\ LifeView'
  BY View, ViewNext
<1>2. /\ running \in Slots
      /\ Live(running)
      /\ StageOf(status[running]) = "alive"
      /\ Trapped \in [Slots -> Statuses]
      /\ \A i \in Slots : /\ Trapped[i] = "UNUSED" <=> status[i] = "UNUSED"
                          /\ StageOf(Trapped[i]) = StageOf(status[i])
  BY TrappedStages DEF sys_waitpid
<1>3. UNCHANGED <<pid, next_pid>>
  BY DEF sys_waitpid
<1>4. PICK p \in 1 .. MaxPid : WaitNoChild(p) \/ WaitZombie(p) \/ WaitBlock(p)
  BY DEF sys_waitpid
<1> DEFINE q == pid[running]
<1>5. q \in 1 .. MaxPid /\ lifeOfPids[q] = "alive"
  BY <1>1, <1>2 DEF LifeView
<1>6. \A i, j \in Slots : pid[i] = pid[j] /\ pid[i] \in 1 .. MaxPid => i = j
  BY DEF Bounded, ProcessInv, PidsUnique
<1> HIDE DEF q
<1>7. CASE WaitNoChild(p)
  BY <1>2, <1>3, <1>7, SameView DEF WaitNoChild, ReturnToUser
<1>8. CASE WaitZombie(p)
  <2>1. PICK c \in Slots :
          /\ pid[c] = p
          /\ status[c] = "ZOMBIE"
          /\ status' = [Trapped EXCEPT ![c] = "UNUSED"]
          /\ waitFor' = waitFor
    BY <1>8 DEF WaitZombie, IsChild, Match, ReturnToUser
  <2>2. /\ status'[c] = "UNUSED"
        /\ \A i \in Slots : i # c => status'[i] = Trapped[i]
    BY <1>2, <2>1
  <2>3. lifeOfPids[p] = "zombie" /\ waitsOfPids[p] = 0
    <3>1. waitFor[c] = 0 /\ Live(c) /\ StageOf(status[c]) = "zombie"
      BY <2>1, Stages DEF Live, Bounded, ProcessInv, WaitForIffBlocked
    <3>. QED
      BY <1>1, <2>1, <3>1 DEF LifeView
  <2>4. lifeOfPids'[p] = "reaped" /\ waitsOfPids'[p] = 0
    <3>1. \A i \in Slots : Live(i)' => pid'[i] # p
      BY <1>3, <1>6, <2>1, <2>2 DEF Live
    <3>2. ~(p >= next_pid')
      BY <1>1, <1>3, <2>1 DEF LifeView, Live, Bounded, ProcessInv, TypeOK
    <3>. QED
      BY <1>1, <3>1, <3>2 DEF LifeView
  <2>5. ASSUME NEW r \in 1 .. MaxPid, r # p
        PROVE  lifeOfPids'[r] = lifeOfPids[r] /\ waitsOfPids'[r] = waitsOfPids[r]
    BY <1>1, <1>2, <1>3, <2>1, <2>2, <2>5, PidKept
  <2>6. lifeOfPids' = [lifeOfPids EXCEPT ![p] = "reaped"] /\ waitsOfPids' = waitsOfPids
    BY <1>1, <2>3, <2>4, <2>5 DEF LifeView
  <2>. QED
    BY <1>5, <2>3, <2>6 DEF Life!Reap, Life!Pids
<1>9. CASE WaitBlock(p)
  <2> DEFINE st == [Trapped EXCEPT ![running] = "BLOCKED"]
  <2>1. PICK c \in Slots :
          /\ pid[c] = p
          /\ parent[c] = running
          /\ status[c] # "ZOMBIE"
          /\ waitFor' = [waitFor EXCEPT ![running] = p]
          /\ Schedule(st)
    BY <1>9 DEF WaitBlock, IsChild, Match
  <2>2. /\ st \in [Slots -> Statuses]
        /\ st[running] = "BLOCKED"
        /\ \A i \in Slots : i # running => st[i] = Trapped[i]
    BY <1>2 DEF Statuses
  <2> HIDE DEF st
  <2>3. \A i \in Slots : /\ status'[i] = "UNUSED" <=> st[i] = "UNUSED"
                         /\ StageOf(status'[i]) = StageOf(st[i])
    BY <1>2, <2>1, <2>2, ScheduleStages
  <2>4. lifeOfPids'[q] = "waiting" /\ waitsOfPids'[q] = p
    <3>1. status'[running] # "UNUSED" /\ StageOf(status'[running]) = "waiting"
      BY <1>2, <2>2, <2>3, Stages
    <3>2. waitFor'[running] = p
      BY <1>2, <2>1 DEF Bounded, ProcessInv, TypeOK
    <3>. QED
      BY <1>1, <1>2, <1>3, <3>1, <3>2 DEF LifeView, q, Live
  <2>5. ASSUME NEW r \in 1 .. MaxPid, r # q
        PROVE  lifeOfPids'[r] = lifeOfPids[r] /\ waitsOfPids'[r] = waitsOfPids[r]
    <3>1. \A i \in Slots : pid[i] = r =>
            /\ i # running
            /\ status'[i] = "UNUSED" <=> status[i] = "UNUSED"
            /\ StageOf(status'[i]) = StageOf(status[i])
            /\ waitFor'[i] = waitFor[i]
      BY <1>2, <2>1, <2>2, <2>3, <2>5 DEF q, Bounded, ProcessInv, TypeOK
    <3>. QED
      BY <1>1, <1>3, <3>1, PidKept
  <2>6. /\ lifeOfPids' = [lifeOfPids EXCEPT ![q] = "waiting"]
        /\ waitsOfPids' = [waitsOfPids EXCEPT ![q] = p]
    BY <1>1, <1>5, <2>4, <2>5 DEF LifeView
  <2>7. q # p
    BY <1>2, <1>6, <2>1 DEF q, Bounded, ProcessInv, NotOwnParent
  <2>8. lifeOfPids[p] \notin {"unborn", "zombie"}
    <3>1. CASE Live(c)
      <4>1. StageOf(status[c]) \notin {"unborn", "zombie"}
        BY <2>1, <3>1 DEF StageOf, Live, Statuses, Bounded, ProcessInv, TypeOK
      <4>. QED
        BY <1>1, <2>1, <3>1, <4>1 DEF LifeView
    <3>2. CASE ~Live(c)
      <4>1. \A i \in Slots : Live(i) => pid[i] # p
        BY <1>6, <2>1, <3>2
      <4>2. ~(p >= next_pid)
        BY <2>1, ProcessAssumption DEF Bounded, ProcessInv, TypeOK
      <4>. QED
        BY <1>1, <4>1, <4>2 DEF LifeView
    <3>. QED
      BY <3>1, <3>2
  <2>. QED
    BY <1>5, <2>6, <2>7, <2>8 DEF Life!Wait, Life!Pids
<1>. QED
  BY <1>4, <1>7, <1>8, <1>9

(* Whoever waits for the running process is its parent, and flagged it. *)
LEMMA OnlyParentWaits ==
  ASSUME Bounded, machine = "on", NEW p \in 1 .. MaxPid, waitsOfPids[p] = pid[running]
  PROVE  /\ waited[running]
         /\ parent[running] \in Slots
         /\ pid[parent[running]] = p
<1>1. LifeView
  BY View
<1>2. running \in Slots /\ Live(running)
  BY TrappedStages
<1>3. pid[running] # 0
  BY <1>1, <1>2 DEF LifeView
<1>4. PICK i \in Slots : Live(i) /\ pid[i] = p
  BY <1>1, <1>3 DEF LifeView
<1>5. waitFor[i] = pid[running]
  BY <1>1, <1>4 DEF LifeView
<1>6. status[i] = "BLOCKED"
  BY <1>3, <1>5 DEF Bounded, ProcessInv, WaitForIffBlocked
<1>. QED
  BY <1>2, <1>4, <1>5, <1>6 DEF Bounded, ProcessInv, BlockedOnLiveIsFlagged

(* exit and the fatal exceptions end the running pid: reaped at once when  *)
(* its parent waits, which then goes on, and a zombie otherwise.           *)
LEMMA TerminateLife ==
  ASSUME Bounded, Bounded', NEW xstate \in Int, Terminate(xstate)
  PROVE  \E c \in Life!Pids : Life!Exit(c)
<1>1. LifeView /\ LifeView'
  BY View, ViewNext
<1>2. /\ machine = "on"
      /\ running \in Slots
      /\ Live(running)
      /\ StageOf(status[running]) = "alive"
      /\ Trapped \in [Slots -> Statuses]
      /\ \A i \in Slots : /\ Trapped[i] = "UNUSED" <=> status[i] = "UNUSED"
                          /\ StageOf(Trapped[i]) = StageOf(status[i])
  BY TrappedStages DEF Terminate
<1>3. UNCHANGED <<pid, next_pid>>
  BY DEF Terminate
<1> DEFINE c == pid[running]
           waiters == {p \in Life!Pids : waitsOfPids[p] = c}
<1>4. c \in 1 .. MaxPid /\ lifeOfPids[c] = "alive" /\ c < next_pid
  BY <1>1, <1>2 DEF LifeView
<1>5. \A i, j \in Slots : pid[i] = pid[j] /\ pid[i] \in 1 .. MaxPid => i = j
  BY DEF Bounded, ProcessInv, PidsUnique
<1>6. waitFor[running] = 0 /\ waitsOfPids[c] = 0
  <2>1. status[running] # "BLOCKED"
    BY <1>2, Stages
  <2>2. waitFor[running] = 0
    BY <1>2, <2>1 DEF Bounded, ProcessInv, WaitForIffBlocked
  <2>. QED
    BY <1>1, <1>2, <2>2 DEF LifeView
<1>7. CASE ExitWaited(xstate)
  <2> DEFINE w  == parent[running]
             st == [Trapped EXCEPT ![w] = "READY", ![running] = "UNUSED"]
             q  == pid[w]
  <2>1. /\ w \in Slots
        /\ w # running
        /\ status[w] = "BLOCKED"
        /\ waitFor[w] = c
    BY <1>2, <1>7, WakingStep DEF Bounded, ProcessInv, NotOwnParent
  <2>2. /\ Schedule(st)
        /\ waitFor' = [waitFor EXCEPT ![w] = 0]
    BY <1>7 DEF ExitWaited
  <2>3. /\ st \in [Slots -> Statuses]
        /\ st[w] = "READY"
        /\ st[running] = "UNUSED"
        /\ \A i \in Slots : i \notin {w, running} => st[i] = Trapped[i]
    BY <1>2, <2>1 DEF Statuses
  <2>4. q \in 1 .. MaxPid /\ q # c /\ waitsOfPids[q] = c
    BY <1>1, <1>2, <1>5, <2>1 DEF LifeView, Live
  <2>5. waiters = {q}
    BY <1>2, <2>4, OnlyParentWaits DEF Life!Pids
  <2> HIDE DEF w, st, q, c, waiters
  <2>6. \A i \in Slots : /\ status'[i] = "UNUSED" <=> st[i] = "UNUSED"
                         /\ StageOf(status'[i]) = StageOf(st[i])
    BY <1>2, <2>2, <2>3, ScheduleStages
  <2>7. lifeOfPids'[c] = "reaped" /\ waitsOfPids'[c] = 0
    <3>1. \A i \in Slots : Live(i)' => pid'[i] # c
      BY <1>2, <1>3, <1>4, <1>5, <2>3, <2>6 DEF Live, c
    <3>2. ~(c >= next_pid')
      BY <1>3, <1>4 DEF Bounded, ProcessInv, TypeOK
    <3>. QED
      BY <1>1, <1>4, <3>1, <3>2 DEF LifeView
  <2>8. lifeOfPids'[q] = "alive" /\ waitsOfPids'[q] = 0
    <3>1. status'[w] # "UNUSED" /\ StageOf(status'[w]) = "alive"
      BY <2>1, <2>3, <2>6, Stages
    <3>2. waitFor'[w] = 0
      BY <2>1, <2>2 DEF Bounded, ProcessInv, TypeOK
    <3>3. pid'[w] = q
      BY <1>3 DEF q
    <3>. QED
      BY <1>1, <2>1, <3>1, <3>2, <3>3 DEF LifeView, Live
  <2>9. ASSUME NEW r \in 1 .. MaxPid, r # c, r # q
        PROVE  lifeOfPids'[r] = lifeOfPids[r] /\ waitsOfPids'[r] = waitsOfPids[r]
    <3>1. \A i \in Slots : pid[i] = r =>
            /\ i \notin {w, running}
            /\ status'[i] = "UNUSED" <=> status[i] = "UNUSED"
            /\ StageOf(status'[i]) = StageOf(status[i])
            /\ waitFor'[i] = waitFor[i]
      BY <1>2, <2>2, <2>3, <2>6, <2>9 DEF c, q, Bounded, ProcessInv, TypeOK
    <3>. QED
      BY <1>1, <1>3, <3>1, PidKept
  <2>10. /\ lifeOfPids' = [p \in 1 .. MaxPid |->
                             CASE p = c         -> IF waiters = {} THEN "zombie" ELSE "reaped"
                               [] p \in waiters -> "alive"
                               [] OTHER         -> lifeOfPids[p]]
         /\ waitsOfPids' = [p \in 1 .. MaxPid |->
                              IF p \in waiters THEN 0 ELSE waitsOfPids[p]]
    BY <1>1, <1>6, <2>4, <2>5, <2>7, <2>8, <2>9 DEF LifeView
  <2>. QED
    BY <1>4, <2>10 DEF Life!Exit, Life!Pids, waiters
<1>8. CASE ExitUnwaited(xstate)
  <2> DEFINE st == [Trapped EXCEPT ![running] = "ZOMBIE"]
  <2>1. Schedule(st) /\ waitFor' = waitFor /\ ~waited[running]
    BY <1>8 DEF ExitUnwaited
  <2>2. /\ st \in [Slots -> Statuses]
        /\ st[running] = "ZOMBIE"
        /\ \A i \in Slots : i # running => st[i] = Trapped[i]
    BY <1>2 DEF Statuses
  <2>3. waiters = {}
    BY <1>2, <2>1, OnlyParentWaits DEF Life!Pids
  <2> HIDE DEF st, c, waiters
  <2>4. \A i \in Slots : /\ status'[i] = "UNUSED" <=> st[i] = "UNUSED"
                         /\ StageOf(status'[i]) = StageOf(st[i])
    BY <1>2, <2>1, <2>2, ScheduleStages
  <2>5. lifeOfPids'[c] = "zombie" /\ waitsOfPids'[c] = 0
    <3>1. status'[running] # "UNUSED" /\ StageOf(status'[running]) = "zombie"
      BY <1>2, <2>2, <2>4, Stages
    <3>2. waitFor'[running] = 0 /\ pid'[running] = c
      BY <1>3, <1>6, <2>1 DEF c
    <3>. QED
      BY <1>1, <1>2, <3>1, <3>2 DEF LifeView, Live
  <2>6. ASSUME NEW r \in 1 .. MaxPid, r # c
        PROVE  lifeOfPids'[r] = lifeOfPids[r] /\ waitsOfPids'[r] = waitsOfPids[r]
    <3>1. \A i \in Slots : pid[i] = r =>
            /\ i # running
            /\ status'[i] = "UNUSED" <=> status[i] = "UNUSED"
            /\ StageOf(status'[i]) = StageOf(status[i])
            /\ waitFor'[i] = waitFor[i]
      BY <1>2, <2>1, <2>2, <2>4, <2>6 DEF c
    <3>. QED
      BY <1>1, <1>3, <3>1, PidKept
  <2>7. /\ lifeOfPids' = [p \in 1 .. MaxPid |->
                            CASE p = c         -> IF waiters = {} THEN "zombie" ELSE "reaped"
                              [] p \in waiters -> "alive"
                              [] OTHER         -> lifeOfPids[p]]
        /\ waitsOfPids' = [p \in 1 .. MaxPid |->
                             IF p \in waiters THEN 0 ELSE waitsOfPids[p]]
    BY <1>1, <1>6, <2>3, <2>5, <2>6 DEF LifeView
  <2>. QED
    BY <1>4, <2>7 DEF Life!Exit, Life!Pids, waiters
<1>. QED
  BY <1>7, <1>8 DEF Terminate

-----------------------------------------------------------------------------
LEMMA LifeInit == Init => Life!Init
<1> SUFFICES ASSUME Init PROVE Life!Init
  OBVIOUS
<1>1. LifeView
  BY BoundedInit, View
<1>2. /\ 0 \in Slots /\ Live(0) /\ pid[0] = 1 /\ waitFor[0] = 0
      /\ \A i \in Slots : i # 0 => ~Live(i)
      /\ next_pid = 2
      /\ status[0] = "RUNNING"
  BY ProcessAssumption DEF Init, Slots, Live
<1>3. lifeOfPids[1] = "alive" /\ waitsOfPids[1] = 0
  BY <1>1, <1>2, Stages DEF LifeView
<1>4. ASSUME NEW p \in 1 .. MaxPid, p # 1
      PROVE  lifeOfPids[p] = "unborn" /\ waitsOfPids[p] = 0
  <2>1. p >= next_pid
    BY <1>2, <1>4
  <2>. QED
    BY <1>1, <1>2, <1>4, <2>1 DEF LifeView
<1>. QED
  BY <1>1, <1>3, <1>4 DEF LifeView, Life!Init, Life!Pids

LEMMA LifeNext == Bounded /\ Bounded' /\ [Next]_vars => [Life!Next]_(Life!lifeVars)
<1> SUFFICES ASSUME Bounded, Bounded', [Next]_vars
             PROVE  Life!Next \/ UNCHANGED <<lifeOfPids, waitsOfPids>>
  BY DEF Life!lifeVars
<1>1. CASE UNCHANGED vars
  BY <1>1, SameView DEF vars
<1>2. CASE Timer \/ sys_yield \/ OtherSyscall \/ Unsupported \/ ForkTableFull \/ Off
  BY <1>2, QuietLife
<1>3. CASE sys_fork
  BY <1>3, ForkLife DEF Life!Next
<1>4. CASE sys_exit \/ Fault
  <2>1. PICK xstate \in Int : Terminate(xstate)
    BY <1>4, CodesAreInts, ProcessAssumption DEF sys_exit, Fault
  <2>. QED
    BY <2>1, TerminateLife DEF Life!Next
<1>5. CASE sys_waitpid
  BY <1>5, WaitLife DEF Life!Next
<1>. QED
  BY <1>1, <1>2, <1>3, <1>4, <1>5 DEF Next

(* Seen by pid, every trap of the kernel is a birth, a wait, an exit that  *)
(* wakes its waiter, a reap, or nothing, however large the table is and    *)
(* however often its slots are recycled (sysproc.c, process.c).            *)
THEOREM TableImplementsLife == Spec => ImplementsLife
<1>1. Spec => []Bounded
  BY BoundedInit, BoundedNext, PTL DEF Spec
<1>. QED
  BY <1>1, LifeInit, LifeNext, PTL DEF Spec, ImplementsLife, Life!Spec
==============================================================================
