------------------------------ MODULE Builtins ------------------------------
(***************************************************************************)
(* The built-in commands of smash that keep a memory of their own: cd with *)
(* the directory before, and the seconds that jobs prints, which jobs and  *)
(* bg bring up to date and every other command leaves as they were.        *)
(*                                                                         *)
(* One action is one command line, which begins with remove_finished_jobs, *)
(* one ctrl-Z, or a thing that happens to a process, a directory or the    *)
(* clock.  What the handlers can interrupt, and a full list, are the       *)
(* matter of Smash; here they come while main waits, and there is room.    *)
(* ctrl-C ends a process, as End does.                                     *)
(***************************************************************************)
EXTENDS Integers

CONSTANTS
  Process,    (* what the shell may start                                  *)
  NoProcess,
  Dir,        (* directories, each with its path                           *)
  LongPath,   (* those whose path does not fit MAX_LINE_SIZE               *)
  NoPath,     (* the empty path, and any that names no directory           *)
  MaxTime     (* bound of the model: seconds                               *)

ASSUME BuiltinsAssumption ==
  /\ NoProcess \notin Process
  /\ LongPath \subseteq Dir
  /\ NoPath \notin Dir
  /\ MaxTime \in Nat

VARIABLES
  now,           (* time(NULL)                                             *)
  fg_pid,        (* the process main waits for, NoProcess at the prompt    *)
  proc,
  status,        (* of the entry of each process, "none" if it has none    *)
  startTime, runTime,
  cwd, removed,  (* directories: the shell's and those that are gone       *)
  prev_path,
  added,         (* history: when the entry was made,                      *)
  ran,           (* how long its process has run since,                    *)
  unmarked,      (* which entries say of a process that may be stopped     *)
                 (* that it is not,                                        *)
  left           (* and the directory left last, if getcwd could name it   *)

entries == <<status, startTime, runTime, added>>
paths   == <<cwd, prev_path, left>>
vars    == <<now, fg_pid, proc, entries, paths, removed, ran, unmarked>>

Alive == {"running", "stopped"}

TypeOK ==
  /\ now \in 0..MaxTime
  /\ fg_pid \in Process \cup {NoProcess}
  /\ proc \in [Process -> Alive \cup {"none", "over"}]
  /\ status \in [Process -> {"none", "BACKGROUND", "STOPPED", "FINISHED"}]
  /\ startTime \in [Process -> Nat]
  /\ runTime \in [Process -> Nat]
  /\ cwd \in Dir /\ removed \subseteq Dir
  /\ prev_path \in Dir \cup {NoPath}
  /\ added \in [Process -> Nat]
  /\ ran \in [Process -> Nat]
  /\ unmarked \subseteq Process
  /\ left \in Dir \cup {NoPath}

Init ==
  /\ now = 0
  /\ fg_pid = NoProcess
  /\ proc = [p \in Process |-> "none"]
  /\ status = [p \in Process |-> "none"]
  /\ startTime = [p \in Process |-> 0] /\ runTime = startTime
  /\ cwd \in Dir \ LongPath /\ removed = {}
  /\ prev_path = NoPath
  /\ added = startTime /\ ran = startTime
  /\ unmarked = {}
  /\ left = NoPath

-----------------------------------------------------------------------------
(* The list *)

Listed(p) == status[p] # "none" /\ proc[p] \in Alive

(* The entries that remove_finished_jobs leaves                            *)
Remaining == [p \in Process |-> IF Listed(p) THEN status[p] ELSE "none"]

(* The bug of a constructor that leaves runTime as it was                  *)
jobKeepsTime(p, s) ==
  /\ status' = [Remaining EXCEPT ![p] = s]
  /\ startTime' = [startTime EXCEPT ![p] = now]
  /\ added' = [added EXCEPT ![p] = now]
  /\ ran' = [ran EXCEPT ![p] = 0]
  /\ unmarked' = unmarked \ {p}
  /\ UNCHANGED runTime

(* The constructor of job, by way of add_job_to_jobs_list                  *)
job(p, s) ==
  /\ status' = [Remaining EXCEPT ![p] = s]
  /\ startTime' = [startTime EXCEPT ![p] = now]
  /\ runTime' = [runTime EXCEPT ![p] = 0]
  /\ added' = [added EXCEPT ![p] = now]
  /\ ran' = [ran EXCEPT ![p] = 0]
  /\ unmarked' = unmarked \ {p}

UpdatedRunTimes(S) ==
  runTime' = [p \in Process |-> IF p \in S /\ status[p] # "STOPPED"
                                THEN runTime[p] + (now - startTime[p]) ELSE runTime[p]]

(* The bug of not restarting the clock of a job that runs                  *)
update_run_timeOfStopped(S) ==
  /\ UpdatedRunTimes(S)
  /\ startTime' = [p \in Process |-> IF p \in S /\ status[p] = "STOPPED"
                                     THEN now ELSE startTime[p]]

update_run_time(S) ==
  /\ UpdatedRunTimes(S)
  /\ startTime' = [p \in Process |-> IF p \in S THEN now ELSE startTime[p]]

-----------------------------------------------------------------------------
(* Commands *)

Prompt == fg_pid = NoProcess

(* A command that does nothing to lists, clocks and directories: an error, *)
(* pwd, showpid, diff, an empty line                                       *)
Other ==
  /\ Prompt
  /\ status' = Remaining
  /\ UNCHANGED <<now, fg_pid, proc, startTime, runTime, added, ran, unmarked, paths, removed>>

Background(p) ==
  /\ Prompt
  /\ proc[p] = "none"
  /\ proc' = [proc EXCEPT ![p] = "running"]
  /\ job(p, "BACKGROUND")
  /\ UNCHANGED <<now, fg_pid, paths, removed>>

External(p) ==
  /\ Prompt
  /\ proc[p] = "none"
  /\ proc' = [proc EXCEPT ![p] = "running"]
  /\ fg_pid' = p
  /\ status' = Remaining
  /\ UNCHANGED <<now, startTime, runTime, added, ran, unmarked, paths, removed>>

jobs ==
  /\ Prompt
  /\ status' = Remaining
  /\ update_run_time({p \in Process : Listed(p)})
  /\ UNCHANGED <<now, fg_pid, proc, added, ran, unmarked, paths, removed>>

Continued(p) == [proc EXCEPT ![p] = "running"]

fg(p) ==
  /\ Prompt
  /\ Listed(p)
  /\ status' = [Remaining EXCEPT ![p] = "none"]
  /\ proc' = Continued(p)
  /\ fg_pid' = p
  /\ UNCHANGED <<now, startTime, runTime, added, ran, unmarked, paths, removed>>

BgFrom(p, updated) ==
  /\ Prompt
  /\ Listed(p) /\ status[p] = "STOPPED"
  /\ update_run_time(updated)
  /\ status' = [Remaining EXCEPT ![p] = "BACKGROUND"]
  /\ proc' = Continued(p)
  /\ UNCHANGED <<now, fg_pid, added, ran, unmarked, paths, removed>>

(* The bug of leaving the clock of the time before the stop                *)
bgLate(p) == BgFrom(p, {})

bg(p) == BgFrom(p, {p})

(* kill marks entries and leaves their clocks alone.  A process may catch  *)
(* SIGTERM and SIGABRT; a stopped one does not see them.                   *)
Mark(p, s) ==
  /\ Prompt
  /\ Listed(p)
  /\ status' = [Remaining EXCEPT ![p] = s]
  /\ unmarked' = IF status[p] = "STOPPED" /\ s # "STOPPED" THEN unmarked \cup {p} ELSE unmarked
  /\ UNCHANGED <<now, fg_pid, startTime, runTime, added, ran, paths, removed>>

kill_cont(p) == Mark(p, "BACKGROUND") /\ proc' = Continued(p)
kill_stop(p) == Mark(p, "STOPPED") /\ proc' = [proc EXCEPT ![p] = "stopped"]
kill_kill(p) == Mark(p, "FINISHED") /\ proc' = [proc EXCEPT ![p] = "over"]
kill_caught(p) == \E s \in {"STOPPED", "FINISHED"} : Mark(p, s) /\ UNCHANGED proc
kill_fatal(p) ==
  /\ proc[p] = "running"
  /\ \E s \in {"STOPPED", "FINISHED"} : Mark(p, s)
  /\ proc' = [proc EXCEPT ![p] = "over"]

-----------------------------------------------------------------------------
(* cd *)

(* getcwd fails where the path is too long or the directory is gone;       *)
(* nobody asks, and what current_path holds then is not defined.           *)
CurrentPath == IF cwd \in LongPath \cup removed THEN Dir \cup {NoPath} ELSE {cwd}

Moved(d) ==
  /\ cwd' = d
  /\ left' = IF cwd \in LongPath \cup removed THEN NoPath ELSE cwd

Cd(d, reached) ==
  /\ Prompt
  /\ IF reached
     THEN Moved(d) /\ prev_path' \in CurrentPath
     ELSE UNCHANGED paths
  /\ status' = Remaining
  /\ UNCHANGED <<now, fg_pid, proc, startTime, runTime, added, ran, unmarked, removed>>

(* The bug of noting the directory before chdir has succeeded              *)
cdNotedEarly(d) ==
  /\ Prompt
  /\ prev_path' \in CurrentPath
  /\ IF d \notin removed THEN Moved(d) ELSE UNCHANGED <<cwd, left>>
  /\ status' = Remaining
  /\ UNCHANGED <<now, fg_pid, proc, startTime, runTime, added, ran, unmarked, removed>>

cd(d) == Cd(d, d \notin removed)

(* cd -, which is an error when OLDPWD is not set                          *)
cd_back == Cd(prev_path, prev_path \in Dir \ removed)

-----------------------------------------------------------------------------
(* ctrl-Z puts the process in the foreground on the list and stops it; the *)
(* wait that it interrupts is over.                                        *)
ctrlZFunction ==
  \E p \in Process :
    /\ fg_pid = p
    /\ job(p, "STOPPED")
    /\ proc' = [proc EXCEPT ![p] = IF @ = "over" THEN @ ELSE "stopped"]
    /\ fg_pid' = NoProcess
    /\ UNCHANGED <<now, paths, removed>>

(* The wait reports an end, a stop, with WCONTINUED that the process goes  *)
(* on, or is broken off by a signal: ctrl-C, or ctrl-Z when the list is    *)
(* full.                                                                   *)
Waited ==
  /\ fg_pid # NoProcess
  /\ fg_pid' = NoProcess
  /\ UNCHANGED <<now, proc, entries, ran, unmarked, paths, removed>>

End(p) ==
  /\ proc[p] = "running"
  /\ proc' = [proc EXCEPT ![p] = "over"]
  /\ UNCHANGED <<now, fg_pid, entries, ran, unmarked, paths, removed>>

(* Somebody else stops a process, or lets it go on.                        *)
Outside(p) ==
  /\ proc[p] \in Alive
  /\ proc' = [proc EXCEPT ![p] = IF @ = "running" THEN "stopped" ELSE "running"]
  /\ unmarked' = IF proc[p] = "running" THEN unmarked \cup {p} ELSE unmarked
  /\ UNCHANGED <<now, fg_pid, entries, ran, paths, removed>>

Remove(d) ==
  /\ d \notin removed
  /\ removed' = removed \cup {d}
  /\ UNCHANGED <<now, fg_pid, proc, entries, ran, unmarked, paths>>

Tick ==
  /\ now < MaxTime
  /\ now' = now + 1
  /\ ran' = [p \in Process |-> IF proc[p] = "running" THEN ran[p] + 1 ELSE ran[p]]
  /\ UNCHANGED <<fg_pid, proc, entries, unmarked, paths, removed>>

ProcessStep(p) ==
  \/ Background(p) \/ External(p) \/ fg(p) \/ bg(p)
  \/ kill_cont(p) \/ kill_stop(p) \/ kill_kill(p) \/ kill_caught(p) \/ kill_fatal(p)
  \/ End(p) \/ Outside(p)

Next ==
  \/ \E p \in Process : ProcessStep(p)
  \/ Other \/ jobs \/ ctrlZFunction \/ Waited \/ Tick
  \/ \E d \in Dir : cd(d) \/ Remove(d)
  \/ cd_back

Spec == Init /\ [][Next]_vars

-----------------------------------------------------------------------------
(* Properties *)

(* The seconds that jobs would print of p now                              *)
Shown(p) == runTime[p] + (IF status[p] = "STOPPED" THEN 0 ELSE now - startTime[p])

(* No second is counted twice, however jobs, bg and kill follow each other *)
(* (and however often jobs is asked): jobs never prints more than the time *)
(* that the entry has been on the list.                                    *)
NoSecondTwice == \A p \in Process : Listed(p) => Shown(p) <= now - added[p]

(* The time a job was stopped is not counted as run time, unless kill took *)
(* the mark of a stopped job away, which leaves the clock running, or the  *)
(* shell was never told of the stop.                                       *)
StoppedNotCounted ==
  \A p \in Process \ unmarked : Listed(p) => Shown(p) <= ran[p]

(* cd - leads to the directory that was left last, if getcwd could name it *)
DashLeadsBack == left # NoPath => prev_path = left

(* The clock of an entry started after it was made, and runTime holds      *)
(* nothing but seconds before that start.                                  *)
ClockInv ==
  \A p \in Process :
    Listed(p) => /\ added[p] <= startTime[p] /\ startTime[p] <= now
                 /\ runTime[p] <= startTime[p] - added[p]

(* An entry that does not say STOPPED is of a process that runs            *)
MarkInv ==
  \A p \in Process \ unmarked :
    Listed(p) /\ status[p] # "STOPPED" => proc[p] = "running"

IInv == TypeOK /\ ClockInv /\ MarkInv /\ StoppedNotCounted /\ DashLeadsBack
=============================================================================
