-------------------------- MODULE SmashProperties --------------------------
(* What must hold of the shell *)
EXTENDS Smash

Listed == { jobs[i].pid : i \in DOMAIN jobs }

(* The processes main has forked or taken off the list and not yet left    *)
Holding == {"count", "index", "push", "fg_cont", "flag", "set_pid", "wait",
            "unflag"}
InHand == IF pc["main"] \in Holding THEN {pID} ELSE {}

Stacks == {<<>>, <<"ctrlC">>, <<"ctrlZ">>, <<"ctrlC", "ctrlZ">>, <<"ctrlZ", "ctrlC">>}

(* The types of the variables                                              *)
TypeOK ==
  /\ shell \in {"up", "exited", "killed", "halted", "undefined"}
  /\ active \in Stacks
  /\ pc \in [Context -> Labels]
  /\ it \in [Context -> Nat]
  /\ cmd \in Command
  /\ pID \in Pid \cup {0}
  /\ time_wasted \in 4..6
  /\ jobs \in Seq(Job)
  /\ jobIndex \in Nat
  /\ waite_for_fg \in BOOLEAN
  /\ fg_pid \in Pid \cup {0}
  /\ proc \in [Pid -> ProcState]
  /\ signals \in 0..MaxSignals
  /\ refused \subseteq Pid
  /\ outside \subseteq Pid

(* Job-ids are never given twice, and the list is in their order: the      *)
(* numbers come from one counter that main and the handler of ctrl-Z both  *)
(* step and read in two accesses, either of which the other may interrupt. *)
JobIdsIncrease ==
  /\ \A i, j \in DOMAIN jobs : i < j => jobs[i].jobid < jobs[j].jobid
  /\ \A i \in DOMAIN jobs : jobs[i].jobid <= jobIndex

(* The list never holds more than MAX_JOB_COUNT jobs, although main and    *)
(* the handler of ctrl-Z count first and push two steps later.             *)
JobListBounded == Len(jobs) <= MaxJobs

(* A handler is at work exactly while it is on the stack.                  *)
StackInv == \A h \in Handler : pc[h] = "idle" <=> \A i \in DOMAIN active : active[i] # h

(* waite_for_fg is set only from just before main waits until just after,  *)
(* which keeps the handler of ctrl-Z from adding a job while main does.    *)
FlagInv ==
  /\ waite_for_fg => pc["main"] \in {"set_pid", "wait", "unflag"}
  /\ pc["ctrlZ"] \in {"count", "index", "push", "send"} => waite_for_fg

(* Between counting and pushing nobody else adds a job.                    *)
AddInv ==
  \A c \in Context :
    /\ pc[c] \in {"index", "push"} => Len(jobs) < MaxJobs
    /\ pc[c] = "push" => \A i \in DOMAIN jobs : jobs[i].jobid < jobIndex

LabelInv ==
  /\ pc["ctrlC"] \in {"idle", "prune", "test", "erase", "next", "test_fg", "send"}
  /\ pc["ctrlZ"] \in {"idle", "prune", "test", "erase", "next", "test_fg", "count",
                      "index", "push", "send"}
  /\ pc["main"] \notin {"idle", "test_fg", "send"}

(* The inductive invariant: ids and limit hold in every step, because the  *)
(* two that add jobs exclude each other by waite_for_fg, a flag that was   *)
(* not made for it.                                                        *)
IInv ==
  /\ TypeOK /\ StackInv /\ FlagInv /\ AddInv /\ LabelInv
  /\ JobIdsIncrease /\ JobListBounded

(* No child is lost in silence: one that lives is listed or in main's      *)
(* hands, or it was once stopped or continued from outside, which releases *)
(* a waiting main, or the shell has said that the list is full; the last   *)
(* kind is never left stopped, which nobody could undo.                    *)
NoSilentLoss ==
  shell = "up" =>
    \A p \in Pid :
      \/ proc[p] \notin Alive
      \/ p \in Listed \cup InHand \cup outside
      \/ p \in refused /\ proc[p] \in Running

(* Whoever removes finished jobs, and whatever interrupts it, takes no     *)
(* entry off the list whose process is not over; only fg does.             *)
OnlyFinishedRemoved ==
  [][ \A i \in DOMAIN jobs :
        \/ \E j \in DOMAIN jobs' : jobs'[j].jobid = jobs[i].jobid
        \/ Over(jobs[i].pid)
        \/ pc["main"] = "fg_erase" /\ Current = "main" ]_vars

(***************************************************************************)
(* The inductive invariant of these two.  An id never comes back, so an    *)
(* iterator whose node is still there refers to the node it was set to.    *)
(***************************************************************************)
IteratorInv ==
  /\ \A c \in Context : it[c] <= jobIndex
  /\ \A c, d \in Context : pc[c] = "push" => it[d] < jobIndex
  /\ \A c \in Context, i \in DOMAIN jobs :
       pc[c] = "erase" /\ jobs[i].jobid = it[c] => Over(jobs[i].pid)
  /\ \A i \in DOMAIN jobs :
       pc["main"] = "fg_erase" /\ jobs[i].jobid = it["main"] => jobs[i].pid = pID

(* Main waits for the process that the handlers take for the one in the    *)
(* foreground.                                                             *)
ForegroundInv ==
  /\ pc["main"] \in {"set_pid", "wait", "unflag"} => waite_for_fg
  /\ pc["main"] \in {"wait", "unflag"} => fg_pid = pID
  /\ pc["main"] \in {"fg", "fg_last", "fg_find", "fg_erase", "fg_cont"} => cmd.op = "fg"

(* A handler is under way that will list or kill the process in the        *)
(* foreground, or say that the list is full.                               *)
HandlerToAct == pc["ctrlC"] # "idle" \/ pc["ctrlZ"] \notin {"idle", "send"}

Found(p) == p \in Listed \cup outside
Refused(p) == p \in refused /\ proc[p] \in Running

(* Where a living child is to be found                                     *)
ChildInv(p) ==
  proc[p] \in Alive =>
    /\ Found(p) \/ p \in InHand \/ Refused(p)
    /\ pc["ctrlZ"] = "send" /\ fg_pid = p => p \in Listed
    /\ pID = p =>
         /\ proc[p] = "stopped" /\ pc["main"] \in Holding \ {"fg_cont"} => Found(p)
         /\ proc[p] = "continued" /\ cmd.op = "external"
              /\ pc["main"] \in {"flag", "set_pid", "wait"} => Found(p)
         /\ pc["main"] = "unflag" => Found(p) \/ Refused(p) \/ HandlerToAct
         /\ pc["main"] = "kill_send" => Found(p)

LossInv == IteratorInv /\ ForegroundInv /\ \A p \in Pid : ChildInv(p)

(* The labels at which a context still needs the node of its iterator      *)
Visiting == Derefs \cup {"kill_send", "quit_term", "quit_poll"}
Dangles(c) ==
  \/ pc[c] \in Visiting /\ ~Deref(c)
  \/ pc[c] \in DerefsBehind /\ ~DerefBehind

(* What a context must not lose: the node of its iterator, which for bg is *)
(* the one after the job it looks at, and that job itself when none is     *)
(* before it that could take its place.                                    *)
Needs(c, id) ==
  \/ id = it[c]
  \/ pc[c] \in DerefsBehind /\ Behind(it[c]) = 1 /\ id = First

(* Nothing takes the node from under an iterator but a handler that has    *)
(* interrupted its owner and erases that very node: in every walk of the   *)
(* list a context's own steps, its own erasures included, leave it at a    *)
(* node that is there.                                                     *)
OnlyHandlersDangle ==
  [][ \A c \in Context :
        ~Dangles(c) /\ Dangles(c)' =>
          \E h \in Handler \ {c} : At(h, "erase") /\ Needs(c, it[h]) ]_vars

(* So without a signal no iterator is ever used that has lost its node.    *)
UndisturbedDefined == signals = 0 => shell # "undefined"

(* The shell does not wait forever for a process that does not run: not    *)
(* for one that is over, even if a handler has waited for it in main's     *)
(* place, nor for one that was stopped before main came to wait.           *)
WaitsForRunning ==
  []<>~(shell = "up" /\ pc["main"] = "wait" /\ (Over(pID) \/ proc[pID] = "stopped"))

(* quit kill ends, with the shell or without, whatever the jobs do with    *)
(* their SIGTERM and whenever they end.                                    *)
QuitKillReturns ==
  (pc["main"] \in {"quit kill", "quit_read", "quit_term", "quit_poll", "quit_next"})
    ~> (shell # "up" \/ pc["main"] = "prompt")

(* A number that an interruption separates from its entry counts as given  *)
(* with the entry.                                                         *)
Given == IF pc["main"] = "push" \/ pc["ctrlZ"] = "push" THEN jobIndex - 1 ELSE jobIndex
Ended == { p \in Pid : Over(p) }

Table == INSTANCE JobTable WITH
  Process <- Pid, Status <- JobStatus,
  table <- jobs, given <- Given, hand <- InHand, over <- Ended

(* Main and both handlers together implement that table: whatever          *)
(* interrupts what, jobs are numbered without a gap and entered one at a   *)
(* time, never more than MAX_JOB_COUNT, the foreground process is one that *)
(* was started or taken off the list by fg, and nothing leaves the list    *)
(* otherwise but what has ended.                                           *)
ImplementsJobTable == Table!Spec

-----------------------------------------------------------------------------
(* What a comment of the code says, and the code does not                  *)

(* "kills a running job in the fg": what the handler of ctrl-C kills is    *)
(* what main is waiting for.  signals.cpp:18                               *)
CtrlCKillsForeground ==
  [][ (pc["ctrlC"] = "send" /\ pc'["ctrlC"] = "idle") => fg_pid = pID ]_vars
=============================================================================
