----------------------------- MODULE ProcessLife -----------------------------
(***************************************************************************)
(* What the process table promises, without the table: every pid is born   *)
(* once, lives, and is reaped at most once; a process that exits wakes     *)
(* whoever waits for its pid, and is kept as a zombie when nobody does.    *)
(***************************************************************************)
EXTENDS Integers

CONSTANT MaxPid

VARIABLES
  life,   \* the stage each pid has reached
  waits   \* the pid a waiting process waits for, 0 if it does not wait

lifeVars == <<life, waits>>

Pids   == 1 .. MaxPid
Stages == {"unborn", "alive", "waiting", "zombie", "reaped"}

Init ==
  /\ life  = [p \in Pids |-> IF p = 1 THEN "alive" ELSE "unborn"]
  /\ waits = [p \in Pids |-> 0]

Spawn(c) ==
  /\ \E p \in Pids : life[p] = "alive"
  /\ life[c] = "unborn"
  /\ \A q \in Pids : q < c => life[q] # "unborn"
  /\ life' = [life EXCEPT ![c] = "alive"]
  /\ UNCHANGED waits

Wait(p, c) ==
  /\ life[p] = "alive"
  /\ p # c
  /\ life[c] \notin {"unborn", "zombie"}
  /\ life' = [life EXCEPT ![p] = "waiting"]
  /\ waits' = [waits EXCEPT ![p] = c]

Exit(c) ==
  /\ life[c] = "alive"
  /\ LET waiters == {p \in Pids : waits[p] = c}
     IN /\ life' = [p \in Pids |->
                      CASE p = c         -> IF waiters = {} THEN "zombie" ELSE "reaped"
                        [] p \in waiters -> "alive"
                        [] OTHER         -> life[p]]
        /\ waits' = [p \in Pids |-> IF p \in waiters THEN 0 ELSE waits[p]]

Reap(p, c) ==
  /\ life[p] = "alive"
  /\ life[c] = "zombie"
  /\ life' = [life EXCEPT ![c] = "reaped"]
  /\ UNCHANGED waits

Next ==
  \/ \E c \in Pids : Spawn(c) \/ Exit(c)
  \/ \E p, c \in Pids : Wait(p, c) \/ Reap(p, c)

Spec == Init /\ [][Next]_lifeVars
==============================================================================
