------------------------------ MODULE JobTable ------------------------------
(***************************************************************************)
(* What job control promises: a table of at most MaxJobs jobs that are     *)
(* numbered one after the other, in one step each, and at most one process *)
(* in the hands of the shell.  A process gets there when it is started or  *)
(* taken out of the table, and an entry leaves the table by itself only    *)
(* when its process is over.                                               *)
(***************************************************************************)
EXTENDS Naturals, SequencesExt

CONSTANTS Process, Status, MaxJobs

VARIABLES
  table,    \* the jobs, in the order of their numbers
  given,    \* the last number given
  hand,     \* the process the shell is starting or waiting for
  over      \* the processes that have ended

vars == <<table, given, hand, over>>

Init == table = <<>> /\ given = 0 /\ hand = {} /\ over = {}

(* A job is numbered and entered at once.                                  *)
Enter(p, status) ==
  /\ Len(table) < MaxJobs
  /\ given' = given + 1
  /\ table' = Append(table, [jobid |-> given + 1, pid |-> p, status |-> status])
  /\ UNCHANGED over

Start(p) ==
  /\ hand = {} /\ p \notin over
  /\ hand' = {p}
  /\ UNCHANGED <<table, given, over>>

Background(p) == hand = {p} /\ hand' = {} /\ Enter(p, "BACKGROUND")

Suspend(p) == hand # {} /\ UNCHANGED hand /\ Enter(p, "STOPPED")

Take(i) ==
  /\ hand = {}
  /\ hand' = {table[i].pid}
  /\ table' = RemoveAt(table, i)
  /\ UNCHANGED <<given, over>>

LetGo ==
  /\ hand' = {}
  /\ UNCHANGED <<table, given, over>>

Leave(i) ==
  /\ table[i].pid \in over \/ table[i].pid \notin Process
  /\ table' = RemoveAt(table, i)
  /\ UNCHANGED <<given, hand, over>>

Mark(i, status) ==
  /\ table' = [table EXCEPT ![i].status = status]
  /\ UNCHANGED <<given, hand, over>>

End(p) ==
  /\ over' = over \cup {p}
  /\ UNCHANGED <<table, given, hand>>

Next ==
  \/ LetGo
  \/ \E p \in Process : End(p) \/ Start(p)
  \/ \E p \in Process \cup {0} : Background(p) \/ Suspend(p)
  \/ \E i \in DOMAIN table :
       Take(i) \/ Leave(i) \/ \E status \in Status : Mark(i, status)

Spec == Init /\ [][Next]_vars
=============================================================================
