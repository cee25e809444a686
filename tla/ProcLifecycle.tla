---------------------------- MODULE ProcLifecycle ----------------------------
(* What the process pool promises (spec 4.2), with no pages, no segments  *)
(* and no queue order: a record leaves FREE only when the running process *)
(* forks it as its child; only the running process exits, becoming a     *)
(* ZOMBIE; a ZOMBIE becomes FREE only when the process recorded as its    *)
(* parent reaps it; the scheduler runs some READY record, or none; and    *)
(* any step may stop the kernel (a panic), after which nothing happens.   *)
EXTENDS Naturals

CONSTANTS NPROC, NULL

VARIABLES
  status,   \* slot -> FREE, READY, RUNNING, BLOCKED or ZOMBIE
  parent,   \* slot -> the slot that forked it, or NULL
  running,  \* the RUNNING slot, or NULL
  halted    \* the kernel has panicked

vars == <<status, parent, running, halted>>

Slots == 0 .. NPROC - 1

Init ==
  /\ status = [i \in Slots |-> "FREE"]
  /\ parent = [i \in Slots |-> NULL]
  /\ running = NULL
  /\ halted = FALSE

\* The scheduler, after the caller p left the pool with status s: a READY
\* record runs; with none, the machine stops, by a panic if a record is
\* still neither FREE nor ZOMBIE.
Dispatch(p, s) ==
  LET st == [i \in Slots |-> IF i = p THEN s ELSE status[i]] IN
  \/ \E q \in Slots :
       /\ st[q] = "READY"
       /\ status' = [st EXCEPT ![q] = "RUNNING"]
       /\ running' = q
       /\ UNCHANGED halted
  \/ /\ \A q \in Slots : st[q] # "READY"
     /\ status' = st
     /\ running' = NULL
     /\ halted' = \E q \in Slots : st[q] \notin {"FREE", "ZOMBIE"}

\* the first process, created from an empty pool and run at once
Start ==
  /\ ~halted /\ running = NULL
  /\ \A i \in Slots : status[i] = "FREE"
  /\ \E i \in Slots :
       /\ status' = [status EXCEPT ![i] = "RUNNING"]
       /\ running' = i
  /\ UNCHANGED <<parent, halted>>

Spawn(p, c) ==
  /\ ~halted /\ running = p /\ status[c] = "FREE"
  /\ status' = [status EXCEPT ![c] = "READY"]
  /\ parent' = [parent EXCEPT ![c] = p]
  /\ UNCHANGED <<running, halted>>

Exit(p) ==
  /\ ~halted /\ running = p
  /\ Dispatch(p, "ZOMBIE")
  /\ UNCHANGED parent

Yield(p) ==
  /\ ~halted /\ running = p
  /\ Dispatch(p, "READY")
  /\ UNCHANGED parent

Reap(p, c) ==
  /\ ~halted /\ running = p
  /\ status[c] = "ZOMBIE" /\ parent[c] = p
  /\ status' = [status EXCEPT ![c] = "FREE"]
  /\ parent' = [parent EXCEPT ![c] = NULL]
  /\ UNCHANGED <<running, halted>>

Halt ==
  /\ ~halted
  /\ halted' = TRUE
  /\ UNCHANGED <<status, parent, running>>

Next ==
  \/ Start \/ Halt
  \/ \E p \in Slots : Exit(p) \/ Yield(p) \/ \E c \in Slots : Spawn(p, c) \/ Reap(p, c)

Spec == Init /\ [][Next]_vars
====
