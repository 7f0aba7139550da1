------------------------------- MODULE Smash -------------------------------
(***************************************************************************)
(* The shell of wet01: the main loop, the handlers of ctrl-C and ctrl-Z,   *)
(* which may interrupt it, and each other, between any two accesses to the *)
(* globals, and the processes it starts.                                   *)
(*                                                                         *)
(* pc[c] names the next access of context c to the globals or the next     *)
(* system call.  Only the context on top of the stack of interrupted ones  *)
(* runs.  it[c] is the jobid of the list node that the iterator of c       *)
(* refers to, 0 for jobs->end(), and of a reverse_iterator its base; a     *)
(* node that has been erased meanwhile makes the behaviour undefined, of   *)
(* which nothing more is said.                                             *)
(*                                                                         *)
(* A walk takes a step for every node.  Accesses that only read are one    *)
(* step with the next one through the same iterator, which cannot tell     *)
(* whether the node was erased before the first or between the two; those  *)
(* of a reverse_iterator can, and are not.                                 *)
(*                                                                         *)
(* The commands cd, pwd, diff and showpid touch neither the list nor a     *)
(* process: they are the op "other", as is an empty line and the one fgets *)
(* returns when it is interrupted.  What cd and jobs remember is in        *)
(* Builtins.  Left out: what a child whose execvp fails does as a second   *)
(* shell; a pid that is used again; the text of commands and with it       *)
(* fg_cmdString, which is copied right after fg_pid.                       *)
(***************************************************************************)
EXTENDS Integers, SequencesExt

CONSTANTS
  Processes,    \* bound of the model: how many fork can give
  MaxJobs,      \* MAX_JOB_COUNT, 100 in the code
  Argument,     \* job-ids a user may type
  Typed,        \* signals a user may type, of 1..MAXSIG
  MaxSignals    \* bound of the model: signals from the keyboard and outside

ASSUME BoundAssumption ==
  /\ Processes \in Nat
  /\ MaxJobs \in Nat
  /\ MaxSignals \in Nat
  /\ Argument \subseteq Nat \ {0}
  /\ Typed \subseteq 1..31

VARIABLES
  shell,        \* "up", or why it runs no more
  active,       \* the handlers in progress, the last one interrupted the others
  pc, it,       \* of each context
  cmd, pID,     \* main's command and the pid it deals with
  time_wasted,  \* in quit kill: 4 stands for 0..4 seconds, 6 for 6 and more
  jobs, jobIndex,
  waite_for_fg, fg_pid,
  proc,         \* the state of every process
  signals,      \* how many of these there were
  refused,      \* processes of which the shell has said that the list is full
  outside       \* processes stopped or continued by others than the shell

locals == <<cmd, pID, time_wasted>>
list == <<jobs, jobIndex>>
foreground == <<waite_for_fg, fg_pid>>
history == <<signals, refused, outside>>
vars == <<shell, active, pc, it, locals, list, foreground, proc, history>>

Pid == 1..Processes
Handler == {"ctrlC", "ctrlZ"}
Context == {"main"} \cup Handler

SIGKILL == 9
SIGTERM == 15
SIGCONT == 18
SIGSTOP == 19
(* SIGTSTP, SIGTTIN and SIGTTOU stop what does not ignore them.            *)
Stopping == 20..22

(* arg 0 is a command without a job-id                                     *)
Op == {"external", "background", "jobs", "fg", "bg", "kill", "quit", "quit kill",
       "other"}
Line(op, arg, sig) == [op |-> op, arg |-> arg, sig |-> sig]
NoCommand == Line("other", 0, 0)
Command ==
  { Line(op, 0, 0) : op \in Op \ {"kill"} }
    \cup { Line(op, a, 0) : op \in {"fg", "bg"}, a \in Argument }
    \cup { Line("kill", a, s) : a \in Argument, s \in Typed }

JobStatus == {"BACKGROUND", "STOPPED", "FINISHED"}
Job == [jobid : Nat, pid : Pid \cup {0}, status : JobStatus]

(* "continued" is running, with a SIGCONT that waitpid has not reported    *)
Running == {"running", "continued"}
Alive == Running \cup {"stopped"}
ProcState == Alive \cup {"none", "zombie", "reaped"}

-----------------------------------------------------------------------------
(* The list and its iterators *)

Ids == { jobs[i].jobid : i \in DOMAIN jobs }
Position(id) ==
  IF id \in Ids THEN CHOOSE i \in DOMAIN jobs : jobs[i].jobid = id ELSE 0
Node(c) == jobs[Position(it[c])]
Deref(c) == it[c] \in Ids

(* A reverse_iterator designates the node before its base.                 *)
Behind(id) == (IF id = 0 THEN Len(jobs) + 1 ELSE Position(id)) - 1
NodeBehind == jobs[Behind(it["main"])]
DerefBehind == Behind(it["main"]) \in DOMAIN jobs

First == IF jobs = <<>> THEN 0 ELSE jobs[1].jobid
After(id) == IF Position(id) = Len(jobs) THEN 0 ELSE jobs[Position(id) + 1].jobid

-----------------------------------------------------------------------------
(* Control *)

Current == IF active = <<>> THEN "main" ELSE Last(active)

At(c, label) == shell = "up" /\ Current = c /\ pc[c] = label
Goto(c, label) == pc' = [pc EXCEPT ![c] = label]
Step(c, from, to) == At(c, from) /\ Goto(c, to)

(* Back to the prompt: main's locals go away                               *)
Prompt ==
  /\ Goto("main", "prompt")
  /\ it' = [it EXCEPT !["main"] = 0]
  /\ cmd' = NoCommand
  /\ pID' = 0
  /\ time_wasted' = 4

(* A handler returns to what it has interrupted.                           *)
Return(h) ==
  /\ Goto(h, "idle")
  /\ active' = Front(active)

(* What each context does once the finished jobs are removed               *)
AfterPrune == [main |-> "dispatch", ctrlC |-> "test_fg", ctrlZ |-> "test_fg"]

(* The labels at which a context uses the node of its iterator             *)
Derefs == {"test", "erase", "next", "jobs_show", "fg_find", "fg_erase",
           "kill_find", "kill_mark", "quit_read", "quit_next"}
(* and those at which main uses the one before it                          *)
DerefsBehind == {"fg_last", "bg_find", "bg_next", "bg_test", "bg_pid", "bg_mark"}
Labels == Derefs \cup DerefsBehind \cup
  {"idle", "prompt", "prune", "dispatch", "fork", "count", "index", "push",
   "flag", "set_pid", "wait", "unflag", "jobs", "fg", "fg_cont", "bg", "bg_cont",
   "kill", "kill_send", "quit kill", "quit_term", "quit_poll", "test_fg", "send"}

(* An iterator is used whose node a handler has erased.                    *)
Dangling(c) ==
  /\ shell = "up" /\ Current = c
  /\ \/ pc[c] \in Derefs /\ ~Deref(c)
     \/ pc[c] \in DerefsBehind /\ ~DerefBehind
  /\ shell' = "undefined"
  /\ UNCHANGED <<active, pc, it, locals, list, foreground, proc, history>>

-----------------------------------------------------------------------------
(* System calls *)

(* waitpid on a process that is over, or is no child, does not return 0.   *)
Over(p) == p \notin Pid \/ proc[p] \in {"zombie", "reaped"}
Reap(p) ==
  proc' = IF p \in Pid /\ proc[p] = "zombie" THEN [proc EXCEPT ![p] = "reaped"] ELSE proc

(* kill finds zombies, but not what has been waited for.                   *)
Killable(p) == p \in Pid /\ proc[p] \in Alive \cup {"zombie"}

(* What a signal may turn a process into: it may catch or ignore all but   *)
(* these three, and a stopped one gets them only when it goes on.          *)
Outcome(s, sig) ==
  IF s \notin Alive THEN {s}
  ELSE CASE sig = SIGKILL -> {"zombie"}
         [] sig = SIGSTOP -> {"stopped"}
         [] sig = SIGCONT -> {IF s = "stopped" THEN "continued" ELSE s}
         [] OTHER -> {s} \cup (IF s = "stopped" THEN {}
                              ELSE IF sig \in Stopping THEN {"stopped"} ELSE {"zombie"})

Deliver(p, sig) == \E s \in Outcome(proc[p], sig) : proc' = [proc EXCEPT ![p] = s]

-----------------------------------------------------------------------------
(* remove_finished_jobs, which main calls before every command and each    *)
(* handler before anything else                                            *)

Advance(c, id) ==
  /\ it' = [it EXCEPT ![c] = id]
  /\ Goto(c, IF id = 0 THEN AfterPrune[c] ELSE "test")

BeginPrune(c) ==
  /\ At(c, "prune")
  /\ Advance(c, First)
  /\ UNCHANGED <<shell, active, locals, list, foreground, proc, history>>

TestFor(c, gone) ==
  /\ At(c, "test") /\ Deref(c)
  /\ IF gone
     THEN Goto(c, "erase") /\ Reap(Node(c).pid)
     ELSE Goto(c, "next") /\ UNCHANGED proc
  /\ UNCHANGED <<shell, active, it, locals, list, foreground, history>>

(* The bug of asking for stopped children too (WUNTRACED)                  *)
TestJobUntraced(c) == TestFor(c, Over(Node(c).pid) \/ proc[Node(c).pid] = "stopped")
TestJob(c) == TestFor(c, Over(Node(c).pid))

EraseTo(c, id) ==
  /\ At(c, "erase") /\ Deref(c)
  /\ jobs' = RemoveAt(jobs, Position(it[c]))
  /\ Advance(c, id)
  /\ UNCHANGED <<shell, active, locals, jobIndex, foreground, proc, history>>

(* The bug of going on from the node that is gone                          *)
EraseJobStays(c) == EraseTo(c, it[c])
EraseJob(c) == EraseTo(c, After(it[c]))

KeepJob(c) ==
  /\ At(c, "next") /\ Deref(c)
  /\ Advance(c, After(it[c]))
  /\ UNCHANGED <<shell, active, locals, list, foreground, proc, history>>

remove_finished_jobs(c) == BeginPrune(c) \/ TestJob(c) \/ EraseJob(c) \/ KeepJob(c)

-----------------------------------------------------------------------------
(* add_job_to_jobs_list, called by main for a background command and by    *)
(* the handler of ctrl-Z for the foreground process                        *)

NewPid(c) == IF c = "main" THEN pID ELSE fg_pid

CountFor(c, full) ==
  /\ At(c, "count")
  /\ IF ~full THEN Goto(c, "index") /\ UNCHANGED <<active, it, locals, refused>>
     ELSE /\ refused' = refused \cup ({NewPid(c)} \cap Pid)
          /\ IF c = "main"
             THEN Prompt /\ UNCHANGED active
             ELSE Return(c) /\ UNCHANGED <<it, locals>>
  /\ UNCHANGED <<shell, list, foreground, proc, signals, outside>>

(* The bug of testing the limit off by one                                 *)
CountJobsLate(c) == CountFor(c, Len(jobs) > MaxJobs)
CountJobs(c) == CountFor(c, Len(jobs) = MaxJobs)

IndexFrom(c, last) ==
  /\ Step(c, "index", "push")
  /\ jobIndex' = last + 1
  /\ UNCHANGED <<shell, active, it, locals, jobs, foreground, proc, history>>

(* The bug of numbering jobs by their place in the list                    *)
IncrementIndexBySize(c) == IndexFrom(c, Len(jobs))
IncrementIndex(c) == IndexFrom(c, jobIndex)

NewJob(c) ==
  IF c = "main"
  THEN [pid |-> pID, jobid |-> jobIndex, status |-> "BACKGROUND"]
  ELSE [pid |-> fg_pid, jobid |-> jobIndex, status |-> "STOPPED"]

PushJob(c) ==
  /\ At(c, "push")
  /\ jobs' = Append(jobs, NewJob(c))
  /\ IF c = "main" THEN Prompt ELSE Goto(c, "send") /\ UNCHANGED <<it, locals>>
  /\ UNCHANGED <<shell, active, jobIndex, foreground, proc, history>>

add_job_to_jobs_list(c) == CountJobs(c) \/ IncrementIndex(c) \/ PushJob(c)

-----------------------------------------------------------------------------
(* The main loop *)

(* What the line says does not matter before the list is pruned: it is     *)
(* chosen by ExeCmd.                                                       *)
ReadLine ==
  /\ Step("main", "prompt", "prune")
  /\ UNCHANGED <<shell, active, it, locals, list, foreground, proc, history>>

ExeCmd ==
  /\ At("main", "dispatch")
  /\ \E c \in Command :
       CASE c.op = "quit" -> shell' = "exited" /\ UNCHANGED <<pc, it, locals>>
         [] c.op = "other" -> Prompt /\ UNCHANGED shell
         [] OTHER ->
              /\ Goto("main", IF c.op \in {"external", "background"} THEN "fork" ELSE c.op)
              /\ cmd' = c
              /\ UNCHANGED <<shell, it, pID, time_wasted>>
  /\ UNCHANGED <<active, list, foreground, proc, history>>

(* ExeExternal, for a foreground command or, from BgCmd, a background one; *)
(* pids are given in order                                                 *)
Fork ==
  /\ At("main", "fork")
  /\ \E p \in Pid :
       /\ proc[p] = "none" /\ \A q \in 1..(p - 1) : proc[q] # "none"
       /\ proc' = [proc EXCEPT ![p] = "running"]
       /\ pID' = p
  /\ Goto("main", IF cmd.op = "external" THEN "flag" ELSE "count")
  /\ UNCHANGED <<shell, active, it, cmd, time_wasted, list, foreground, history>>

ForkFails ==
  /\ At("main", "fork")
  /\ Prompt
  /\ UNCHANGED <<shell, active, list, foreground, proc, history>>

(* waite_for_fg is set first, of an external command and of fg alike.      *)
SetFlag ==
  /\ Step("main", "flag", "set_pid")
  /\ waite_for_fg' = TRUE
  /\ UNCHANGED <<shell, active, it, locals, list, fg_pid, proc, history>>

SetPid ==
  /\ Step("main", "set_pid", "wait")
  /\ fg_pid' = pID
  /\ UNCHANGED <<shell, active, it, locals, list, waite_for_fg, proc, history>>

(* The states that end waitpid: WUNTRACED, and WCONTINUED but for fg       *)
Reported(p) ==
  \/ Over(p)
  \/ proc[p] = "stopped"
  \/ proc[p] = "continued" /\ cmd.op = "external"

WaitFor(reported) ==
  /\ Step("main", "wait", "unflag")
  /\ reported
  /\ IF ~Over(pID) /\ proc[pID] = "continued"
     THEN proc' = [proc EXCEPT ![pID] = "running"]
     ELSE Reap(pID)
  /\ UNCHANGED <<shell, active, it, locals, list, foreground, history>>

(* The bug of waiting for the end of the process only                      *)
WaitTraced == WaitFor(Over(pID))
Wait == WaitFor(Reported(pID))

(* The bug of leaving the flag set                                         *)
ClearFlagForgotten ==
  /\ At("main", "unflag")
  /\ Prompt
  /\ UNCHANGED <<shell, active, list, foreground, proc, history>>

ClearFlag ==
  /\ At("main", "unflag")
  /\ Prompt
  /\ waite_for_fg' = FALSE
  /\ UNCHANGED <<shell, active, list, fg_pid, proc, history>>

ExeExternal ==
  \/ Fork \/ ForkFails \/ add_job_to_jobs_list("main")
  \/ SetFlag \/ SetPid \/ Wait \/ ClearFlag

-----------------------------------------------------------------------------
(* The walks of the built-ins *)

(* A step of main that only looks                                          *)
Looks(label) ==
  /\ At("main", label)
  /\ UNCHANGED <<shell, active, list, foreground, proc, history>>

MoveOn(label) == Goto("main", label) /\ UNCHANGED <<it, locals>>

ReadPid(label, pid) ==
  /\ Goto("main", label)
  /\ pID' = pid
  /\ UNCHANGED <<it, cmd, time_wasted>>

(* On to a node, or to the end of the list and of the command              *)
Visit(label, id) ==
  IF id = 0 THEN Prompt
  ELSE /\ it' = [it EXCEPT !["main"] = id]
       /\ Goto("main", label)
       /\ UNCHANGED locals

(* Backwards, from the last node                                           *)
VisitLast(label) ==
  IF jobs = <<>> THEN Prompt
  ELSE /\ it' = [it EXCEPT !["main"] = 0]
       /\ Goto("main", label)
       /\ UNCHANGED locals

Begin(label, to) == Looks(label) /\ Visit(to, First)
GoOn(label) == Looks(label) /\ Deref("main") /\ Visit(label, After(it["main"]))
Find(label, to) == Looks(label) /\ Deref("main") /\ ReadPid(to, Node("main").pid)

ShowJobs == Begin("jobs", "jobs_show") \/ GoOn("jobs_show")

-----------------------------------------------------------------------------
(* fg: the entry goes, the process goes on, the shell waits for it.        *)

FgBegin == cmd.arg # 0 /\ Begin("fg", "fg_find")

(* Without a job-id it is the last job, before jobs->end().                *)
FgBeginLast == cmd.arg = 0 /\ Looks("fg") /\ VisitLast("fg_last")
FgLast == Looks("fg_last") /\ DerefBehind /\ Visit("fg_find", NodeBehind.jobid)

FgFind ==
  \/ cmd.arg \in {0, it["main"]} /\ Find("fg_find", "fg_erase")
  \/ cmd.arg \notin {0, it["main"]} /\ GoOn("fg_find")

FgErase ==
  /\ Step("main", "fg_erase", "fg_cont") /\ Deref("main")
  /\ jobs' = RemoveAt(jobs, Position(it["main"]))
  /\ it' = [it EXCEPT !["main"] = 0]
  /\ UNCHANGED <<shell, active, locals, jobIndex, foreground, proc, history>>

(* kill(pid, SIGCONT), whose result nobody looks at                        *)
Resume(from, to) ==
  /\ Step("main", from, to)
  /\ IF Killable(pID) THEN Deliver(pID, SIGCONT) ELSE UNCHANGED proc
  /\ UNCHANGED <<shell, active, it, locals, list, foreground, history>>

fg ==
  \/ FgBegin \/ FgBeginLast \/ FgLast \/ FgFind \/ FgErase
  \/ Resume("fg_cont", "flag")

-----------------------------------------------------------------------------
(* bg: backwards from the last job, which is the only one that is looked   *)
(* at without a job-id.  When a handler erases the job that is designated, *)
(* the one before it is.                                                   *)

BgBegin == Looks("bg") /\ VisitLast(IF cmd.arg = 0 THEN "bg_test" ELSE "bg_find")

BgFind ==
  /\ Looks("bg_find") /\ DerefBehind
  /\ MoveOn(IF NodeBehind.jobid = cmd.arg THEN "bg_test" ELSE "bg_next")

BgNext ==
  /\ Looks("bg_next") /\ DerefBehind
  /\ Visit("bg_find", IF Behind(it["main"]) = 1 THEN 0 ELSE NodeBehind.jobid)

BgTest ==
  /\ Looks("bg_test") /\ DerefBehind
  /\ IF NodeBehind.status = "STOPPED" THEN MoveOn("bg_pid") ELSE Prompt

BgPid == Looks("bg_pid") /\ DerefBehind /\ ReadPid("bg_mark", NodeBehind.pid)

SetStatus(i, status) == jobs' = [jobs EXCEPT ![i].status = status]

BgMark ==
  /\ Step("main", "bg_mark", "bg_cont") /\ DerefBehind
  /\ SetStatus(Behind(it["main"]), "BACKGROUND")
  /\ it' = [it EXCEPT !["main"] = 0]
  /\ UNCHANGED <<shell, active, locals, jobIndex, foreground, proc, history>>

BgResume ==
  /\ At("main", "bg_cont")
  /\ Prompt
  /\ IF Killable(pID) THEN Deliver(pID, SIGCONT) ELSE UNCHANGED proc
  /\ UNCHANGED <<shell, active, list, foreground, history>>

bg == BgBegin \/ BgFind \/ BgNext \/ BgTest \/ BgPid \/ BgMark \/ BgResume

-----------------------------------------------------------------------------
(* kill: the status of the entry follows the number of some signals.       *)

KillBegin == Begin("kill", "kill_find")
KillFind ==
  \/ cmd.arg = it["main"] /\ Find("kill_find", "kill_send")
  \/ cmd.arg # it["main"] /\ GoOn("kill_find")

RUNSIG == {SIGCONT}
STOPSIG == {6, SIGSTOP, 20}
FINSIG == {SIGKILL, SIGTERM}
(* for a signal of one of these                                            *)
StatusAfter(sig) ==
  CASE sig \in RUNSIG -> "BACKGROUND"
    [] sig \in STOPSIG -> "STOPPED"
    [] OTHER -> "FINISHED"

KillSend ==
  /\ At("main", "kill_send")
  /\ IF Killable(pID) THEN Deliver(pID, cmd.sig) ELSE UNCHANGED proc
  /\ IF Killable(pID) /\ cmd.sig \in RUNSIG \cup STOPSIG \cup FINSIG
     THEN Goto("main", "kill_mark") /\ UNCHANGED <<it, locals>>
     ELSE Prompt
  /\ UNCHANGED <<shell, active, list, foreground, history>>

KillMark ==
  /\ At("main", "kill_mark") /\ Deref("main")
  /\ Prompt
  /\ SetStatus(Position(it["main"]), StatusAfter(cmd.sig))
  /\ UNCHANGED <<shell, active, jobIndex, foreground, proc, history>>

kill == KillBegin \/ KillFind \/ KillSend \/ KillMark

-----------------------------------------------------------------------------
(* quit kill: SIGTERM to one job after the other, each of which has five   *)
(* seconds.  What follows is kill(pid, KILLSIG_9 == -1): signal 0.         *)

QuitNext(id) ==
  IF id = 0
  THEN shell' = "exited" /\ UNCHANGED <<pc, it>>
  ELSE /\ it' = [it EXCEPT !["main"] = id]
       /\ Goto("main", "quit_read")
       /\ UNCHANGED shell

QuitBegin ==
  /\ At("main", "quit kill")
  /\ QuitNext(First)
  /\ UNCHANGED <<active, locals, list, foreground, proc, history>>

QuitRead == Find("quit_read", "quit_term")

QuitTerm ==
  /\ At("main", "quit_term")
  /\ IF Killable(pID)
     THEN /\ Deliver(pID, SIGTERM)
          /\ Goto("main", "quit_poll")
          /\ time_wasted' = 4
          /\ UNCHANGED <<it, cmd, pID>>
     ELSE Prompt /\ UNCHANGED proc
  /\ UNCHANGED <<shell, active, list, foreground, history>>

Tick ==
  /\ shell = "up" /\ pc["main"] = "quit_poll" /\ time_wasted < 6
  /\ time_wasted' = time_wasted + 1
  /\ UNCHANGED <<shell, active, pc, it, cmd, pID, list, foreground, proc, history>>

PollUntil(given_up) ==
  /\ At("main", "quit_poll")
  /\ Reap(pID)
  /\ LET next == (Over(pID) /\ time_wasted = 4) \/ (~Over(pID) /\ given_up)
         fail == Over(pID) /\ time_wasted = 6
     IN \/ next /\ Goto("main", "quit_next") /\ UNCHANGED <<it, locals>>
        \/ fail /\ Prompt
        \/ ~next /\ ~fail /\ UNCHANGED <<pc, it, locals>>
  /\ UNCHANGED <<shell, active, list, foreground, history>>

(* The bug of waiting for a job that ignores SIGTERM                       *)
QuitPollForever == PollUntil(FALSE)

(* A job that ends in the sixth second is waited for, yet not let go: what *)
(* comes after the seventh finds no such process and gives up quitting.    *)
QuitPoll == PollUntil(time_wasted = 6)

QuitStep ==
  /\ At("main", "quit_next") /\ Deref("main")
  /\ QuitNext(After(it["main"]))
  /\ UNCHANGED <<active, locals, list, foreground, proc, history>>

quit == QuitBegin \/ QuitRead \/ QuitTerm \/ QuitPoll \/ QuitStep

main ==
  remove_finished_jobs("main") \/ ExeCmd \/ ExeExternal
    \/ ShowJobs \/ fg \/ bg \/ kill \/ quit

-----------------------------------------------------------------------------
(* The handlers.  sa_mask is empty: each may interrupt the other, but not  *)
(* itself; sa_flags is 0: a waitpid that blocks returns EINTR.             *)

Signal(h) ==
  /\ shell = "up" /\ signals < MaxSignals
  /\ pc[h] = "idle"
  /\ signals' = signals + 1
  /\ active' = Append(active, h)
  /\ \/ pc' = [pc EXCEPT ![h] = "prune"]
     \/ /\ At("main", "wait") /\ ~Reported(pID)
        /\ pc' = [pc EXCEPT ![h] = "prune", !["main"] = "unflag"]
  /\ UNCHANGED <<shell, it, locals, list, foreground, proc, refused, outside>>

TestFlag(h, to) ==
  /\ At(h, "test_fg")
  /\ IF waite_for_fg THEN Goto(h, to) /\ UNCHANGED active ELSE Return(h)
  /\ UNCHANGED <<shell, it, locals, list, foreground, proc, history>>

(* The bug of stopping the process without listing it                      *)
TestForegroundUnlisted(h) == TestFlag(h, "send")
TestForeground(h) == TestFlag(h, IF h = "ctrlZ" THEN "count" ELSE "send")

(* kill(fg_pid, ...): the pid 0 that fg_pid begins with is the shell's own *)
(* process group, and a stopped shell is left to the one that started it.  *)
Send(h, sig, itself) ==
  /\ At(h, "send")
  /\ Return(h)
  /\ IF fg_pid = 0
     THEN shell' = itself /\ UNCHANGED proc
     ELSE /\ IF Killable(fg_pid) THEN Deliver(fg_pid, sig) ELSE UNCHANGED proc
          /\ UNCHANGED shell
  /\ UNCHANGED <<it, locals, list, foreground, history>>

ctrlCFunction ==
  \/ remove_finished_jobs("ctrlC") \/ TestForeground("ctrlC")
  \/ Send("ctrlC", SIGKILL, "killed")

ctrlZFunction ==
  \/ remove_finished_jobs("ctrlZ") \/ TestForeground("ctrlZ")
  \/ add_job_to_jobs_list("ctrlZ")
  \/ Send("ctrlZ", SIGSTOP, "halted")

-----------------------------------------------------------------------------
(* The processes on their own, and those who send them signals: another    *)
(* shell, or the terminal when a background group reads from it            *)

End(p) ==
  /\ shell = "up" /\ proc[p] \in Running
  /\ proc' = [proc EXCEPT ![p] = "zombie"]
  /\ UNCHANGED <<shell, active, pc, it, locals, list, foreground, history>>

Outside(p, sig) ==
  /\ shell = "up" /\ proc[p] \in Alive /\ signals < MaxSignals
  /\ signals' = signals + 1
  /\ Deliver(p, sig)
  /\ proc' # proc
  /\ outside' = outside \cup {p}
  /\ UNCHANGED <<shell, active, pc, it, locals, list, foreground, refused>>

-----------------------------------------------------------------------------

Init ==
  /\ shell = "up"
  /\ active = <<>>
  /\ pc = [c \in Context |-> IF c = "main" THEN "prompt" ELSE "idle"]
  /\ it = [c \in Context |-> 0]
  /\ cmd = NoCommand /\ pID = 0 /\ time_wasted = 4
  /\ jobs = <<>> /\ jobIndex = 0
  /\ waite_for_fg = FALSE /\ fg_pid = 0
  /\ proc = [p \in Pid |-> "none"]
  /\ signals = 0 /\ refused = {} /\ outside = {}

(* Everything that goes on by itself once a line is read                   *)
Run ==
  \/ main
  \/ ctrlCFunction \/ ctrlZFunction
  \/ \E c \in Context : Dangling(c)

Next ==
  \/ ReadLine \/ Run \/ Tick
  \/ \E h \in Handler : Signal(h)
  \/ \E p \in Pid : End(p) \/ \E sig \in {SIGSTOP, SIGCONT} : Outside(p, sig)

Spec == Init /\ [][Next]_vars

(* The kernel lets the shell run, and time passes; nobody has to type a    *)
(* line or a signal, and no process has to end.                            *)
FairSpec == Spec /\ WF_vars(Run) /\ WF_vars(Tick)
=============================================================================
