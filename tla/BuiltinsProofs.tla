--------------------------- MODULE BuiltinsProofs ---------------------------
(* Theorems on the clocks of jobs and on cd -, for any number of processes, *)
(* any directories and any time                                             *)
EXTENDS Builtins, TLAPS

USE DEF Alive

(* What a step must keep of one process: the invariant, process by process *)
ProcInv(p) ==
  /\ Listed(p) => /\ added[p] <= startTime[p] /\ startTime[p] <= now
                  /\ runTime[p] <= startTime[p] - added[p]
  /\ Listed(p) /\ p \notin unmarked /\ status[p] # "STOPPED" => proc[p] = "running"
  /\ Listed(p) /\ p \notin unmarked => Shown(p) <= ran[p]

(* The invariant is that of each process, with types and the directories   *)
LEMMA Parts == IInv <=> TypeOK /\ DashLeadsBack /\ \A p \in Process : ProcInv(p)
BY DEF IInv, ClockInv, MarkInv, StoppedNotCounted, ProcInv

(* The program starts with nothing on the list and no directory noted      *)
LEMMA InitInv == Init => IInv
<1> SUFFICES ASSUME Init PROVE IInv
  OBVIOUS
<1>1. TypeOK /\ DashLeadsBack
  BY BuiltinsAssumption DEF Init, TypeOK, DashLeadsBack
<1>2. ASSUME NEW p \in Process PROVE ProcInv(p)
  BY DEF Init, ProcInv, Listed
<1> QED
  BY <1>1, <1>2, Parts

-----------------------------------------------------------------------------
(* Steps that leave the directories and the history of cd alone            *)

(* Such a step keeps what the invariant says of cd.                        *)
LEMMA PathFrame == DashLeadsBack /\ UNCHANGED paths => DashLeadsBack'
BY DEF DashLeadsBack, paths

(* remove_finished_jobs only shortens the list.                            *)
LEMMA RemainingType ==
  ASSUME TypeOK, NEW p \in Process, NEW s \in {"none", "BACKGROUND", "STOPPED", "FINISHED"}
  PROVE  /\ Remaining \in [Process -> {"none", "BACKGROUND", "STOPPED", "FINISHED"}]
         /\ [Remaining EXCEPT ![p] = s] \in [Process -> {"none", "BACKGROUND", "STOPPED", "FINISHED"}]
BY DEF TypeOK, Remaining

(* An entry that a step leaves as it was, of a process that goes on or ends *)
LEMMA SameEntry ==
  ASSUME TypeOK, NEW p \in Process, ProcInv(p), now' = now,
         status'[p] \in {status[p], "none"},
         startTime'[p] = startTime[p], runTime'[p] = runTime[p],
         added'[p] = added[p], ran'[p] = ran[p],
         p \in unmarked => p \in unmarked',
         \/ proc'[p] \in {proc[p], "over"}
         \/ proc[p] = "stopped" /\ proc'[p] = "running"
         \/ proc[p] = "running" /\ proc'[p] = "stopped" /\ p \in unmarked'
         \/ status'[p] = "none"
  PROVE  ProcInv(p)'
<1>1. CASE ~ Listed(p)'
  BY <1>1 DEF ProcInv
<1>2. CASE Listed(p)'
  <2>1. status'[p] = status[p] /\ status[p] # "none" /\ proc'[p] \in Alive
    BY <1>2 DEF Listed
  <2>2. proc[p] \in Alive
    BY <2>1 DEF Listed, TypeOK
  <2>3. Listed(p)
    BY <2>1, <2>2 DEF Listed
  <2>4. Shown(p)' = Shown(p)
    BY <2>1 DEF Shown
  <2> QED
    BY <2>1, <2>2, <2>3, <2>4 DEF ProcInv, Listed
<1> QED
  BY <1>1, <1>2

(* What pruning the list does to the entry of a process                    *)
LEMMA RemainingAt ==
  ASSUME NEW p \in Process
  PROVE  Remaining[p] \in {status[p], "none"} /\ (Listed(p) => Remaining[p] = status[p])
BY DEF Remaining

(* A new entry has run for no time at all.                                 *)
LEMMA NewEntry ==
  ASSUME TypeOK, \A q \in Process : ProcInv(q), NEW p \in Process,
         NEW s \in {"BACKGROUND", "STOPPED"}, job(p, s), now' = now,
         \A q \in Process \ {p} : proc'[q] = proc[q],
         s # "STOPPED" => proc'[p] = "running"
  PROVE  \A q \in Process : ProcInv(q)'
<1>1. ProcInv(p)'
  BY DEF job, ProcInv, Shown, TypeOK, Remaining
<1>2. ASSUME NEW q \in Process, q # p PROVE ProcInv(q)'
  BY <1>2, SameEntry, RemainingAt DEF job, TypeOK, Remaining
<1> QED
  BY <1>1, <1>2

(* Types after a new entry                                                 *)
LEMMA NewEntryType ==
  ASSUME TypeOK, NEW p \in Process, NEW s \in {"BACKGROUND", "STOPPED"}, job(p, s)
  PROVE  /\ status' \in [Process -> {"none", "BACKGROUND", "STOPPED", "FINISHED"}]
         /\ startTime' \in [Process -> Nat] /\ runTime' \in [Process -> Nat]
         /\ added' \in [Process -> Nat] /\ ran' \in [Process -> Nat]
         /\ unmarked' \subseteq Process
BY BuiltinsAssumption, RemainingType DEF TypeOK, job

-----------------------------------------------------------------------------
(* The clock *)

(* update_run_time moves what it finds on the clock to runTime, so that    *)
(* jobs shows what it showed before.                                       *)
LEMMA ClockUpdate ==
  ASSUME TypeOK, NEW S \in SUBSET Process, update_run_time(S), now' = now,
         NEW p \in Process, ProcInv(p), p \in S => Listed(p)
  PROVE  /\ startTime' \in [Process -> Int] /\ runTime' \in [Process -> Int]
         /\ Listed(p) => /\ startTime'[p] \in Nat /\ runTime'[p] \in Nat
                         /\ added[p] <= startTime'[p] /\ startTime'[p] <= now
                         /\ runTime'[p] <= startTime'[p] - added[p]
         /\ ~ Listed(p) => startTime'[p] = startTime[p] /\ runTime'[p] = runTime[p]
         /\ status'[p] = status[p] => Shown(p)' = Shown(p)
         /\ p \in S => startTime'[p] = now
         /\ status[p] = "STOPPED" => runTime'[p] = runTime[p]
<1>1. CASE p \in S /\ status[p] # "STOPPED"
  <2>1. /\ startTime'[p] = now
        /\ runTime'[p] = runTime[p] + (now - startTime[p])
    BY <1>1 DEF update_run_time, UpdatedRunTimes
  <2> QED
    BY <1>1, <2>1, BuiltinsAssumption DEF update_run_time, UpdatedRunTimes, TypeOK, ProcInv, Shown
<1>2. CASE p \in S /\ status[p] = "STOPPED"
  <2>1. startTime'[p] = now /\ runTime'[p] = runTime[p]
    BY <1>2 DEF update_run_time, UpdatedRunTimes
  <2> QED
    BY <1>2, <2>1, BuiltinsAssumption DEF update_run_time, UpdatedRunTimes, TypeOK, ProcInv, Shown
<1>3. CASE p \notin S
  <2>1. startTime'[p] = startTime[p] /\ runTime'[p] = runTime[p]
    BY <1>3 DEF update_run_time, UpdatedRunTimes
  <2> QED
    BY <1>3, <2>1, BuiltinsAssumption DEF update_run_time, UpdatedRunTimes, TypeOK, ProcInv, Shown
<1> QED
  BY <1>1, <1>2, <1>3

(* Types after an update of entries on the list                            *)
LEMMA ClockType ==
  ASSUME TypeOK, NEW S \in SUBSET Process, update_run_time(S), now' = now,
         \A p \in Process : ProcInv(p), \A p \in S : Listed(p)
  PROVE  startTime' \in [Process -> Nat] /\ runTime' \in [Process -> Nat]
<1>1. ASSUME NEW p \in Process PROVE startTime'[p] \in Nat /\ runTime'[p] \in Nat
  BY ClockUpdate DEF TypeOK
<1> QED
  BY <1>1 DEF update_run_time, UpdatedRunTimes

-----------------------------------------------------------------------------
(* Commands *)

(* jobs *)
LEMMA JobsStep == TypeOK /\ (\A p \in Process : ProcInv(p)) /\ jobs
                    => TypeOK' /\ \A p \in Process : ProcInv(p)'
<1> SUFFICES ASSUME TypeOK, \A p \in Process : ProcInv(p), jobs
             PROVE  TypeOK' /\ \A p \in Process : ProcInv(p)'
  OBVIOUS
<1> DEFINE S == {p \in Process : Listed(p)}
<1>1. update_run_time(S) /\ now' = now /\ \A p \in S : Listed(p)
  BY DEF jobs
<1>2. TypeOK'
  <2>1. startTime' \in [Process -> Nat] /\ runTime' \in [Process -> Nat]
    BY <1>1, ClockType
  <2>2. status' \in [Process -> {"none", "BACKGROUND", "STOPPED", "FINISHED"}]
    BY DEF jobs, Remaining, TypeOK
  <2> QED
    BY <2>1, <2>2 DEF jobs, TypeOK, paths
<1>3. ASSUME NEW p \in Process PROVE ProcInv(p)'
  <2>1. CASE Listed(p)
    <3>1. status'[p] = status[p] /\ Listed(p)'
      BY <2>1 DEF jobs, Remaining, Listed
    <3>2. /\ added[p] <= startTime'[p] /\ startTime'[p] <= now
          /\ runTime'[p] <= startTime'[p] - added[p]
          /\ Shown(p)' = Shown(p)
      BY <2>1, <3>1, <1>1, ClockUpdate
    <3> QED
      BY <2>1, <3>1, <3>2 DEF jobs, ProcInv
  <2>2. CASE ~ Listed(p)
    BY <2>2 DEF jobs, Remaining, Listed, ProcInv
  <2> QED
    BY <2>1, <2>2
<1> QED
  BY <1>2, <1>3

(* bg *)
LEMMA BgStep ==
  ASSUME TypeOK, \A p \in Process : ProcInv(p), NEW q \in Process, bg(q)
  PROVE  TypeOK' /\ \A p \in Process : ProcInv(p)'
<1>1. update_run_time({q}) /\ now' = now /\ Listed(q) /\ status[q] = "STOPPED"
  BY DEF bg, BgFrom
<1>2. status' = [Remaining EXCEPT ![q] = "BACKGROUND"] /\ proc' = [proc EXCEPT ![q] = "running"]
  BY DEF bg, BgFrom, Continued
<1>3. TypeOK'
  <2>1. startTime' \in [Process -> Nat] /\ runTime' \in [Process -> Nat]
    BY <1>1, ClockType
  <2>2. status' \in [Process -> {"none", "BACKGROUND", "STOPPED", "FINISHED"}]
    BY <1>2, RemainingType
  <2> QED
    BY <1>2, <2>1, <2>2 DEF bg, BgFrom, TypeOK, paths
<1>4. ProcInv(q)'
  <2>1. startTime'[q] = now /\ runTime'[q] = runTime[q] /\ added[q] <= now
        /\ runTime'[q] <= startTime'[q] - added[q]
    BY <1>1, ClockUpdate
  <2>2. /\ status'[q] = "BACKGROUND" /\ proc'[q] = "running"
        /\ added' = added /\ ran' = ran /\ unmarked' = unmarked
    BY <1>2, RemainingType DEF bg, BgFrom, TypeOK
  <2>3. Shown(q)' = Shown(q)
    BY <1>1, <2>1, <2>2 DEF Shown, TypeOK
  <2> QED
    BY <1>1, <2>1, <2>2, <2>3 DEF ProcInv, TypeOK
<1>5. ASSUME NEW p \in Process, p # q PROVE ProcInv(p)'
  <2>1. startTime'[p] = startTime[p] /\ runTime'[p] = runTime[p]
    BY <1>1, <1>5 DEF update_run_time, UpdatedRunTimes
  <2>2. status'[p] \in {status[p], "none"} /\ proc'[p] = proc[p]
    BY <1>2, <1>5, RemainingAt DEF Remaining, TypeOK
  <2> QED
    BY <1>1, <2>1, <2>2, SameEntry DEF bg, BgFrom
<1> QED
  BY <1>3, <1>4, <1>5

(* kill, whatever it sends and whatever the process makes of it            *)
LEMMA MarkStep ==
  ASSUME TypeOK, \A p \in Process : ProcInv(p), NEW q \in Process,
         NEW s \in {"BACKGROUND", "STOPPED", "FINISHED"}, Mark(q, s),
         NEW r \in Alive \cup {"over"}, proc' = [proc EXCEPT ![q] = r],
         \/ r \in {"running", "over"}
         \/ r = "stopped" /\ (s = "STOPPED" \/ proc[q] = "stopped")
  PROVE  TypeOK' /\ \A p \in Process : ProcInv(p)'
<1>1. /\ now' = now /\ Listed(q) /\ status' = [Remaining EXCEPT ![q] = s]
      /\ UNCHANGED <<startTime, runTime, added, ran>>
      /\ unmarked \subseteq unmarked' /\ unmarked' \subseteq unmarked \cup {q}
      /\ status[q] = "STOPPED" /\ s # "STOPPED" => q \in unmarked'
  BY DEF Mark
<1>2. TypeOK'
  <2>1. status' \in [Process -> {"none", "BACKGROUND", "STOPPED", "FINISHED"}]
    BY <1>1, RemainingType
  <2> QED
    BY <1>1, <2>1 DEF Mark, TypeOK, paths
<1>3. ProcInv(q)'
  <2>1. status'[q] = s /\ proc'[q] = r
    BY <1>1, RemainingType DEF TypeOK
  <2>2. CASE q \in unmarked'
    BY <1>1, <2>1, <2>2 DEF ProcInv
  <2>3. CASE q \notin unmarked'
    <3>1. q \notin unmarked /\ (s # "STOPPED" => status[q] # "STOPPED")
      BY <1>1, <2>3
    <3>2. status[q] # "STOPPED" => proc[q] = "running"
      BY <1>1, <3>1 DEF ProcInv
    <3>3. Shown(q)' <= Shown(q)
      BY <1>1, <2>1, <3>1 DEF Shown, ProcInv, TypeOK
    <3>4. Shown(q)' <= ran'[q]
      BY <1>1, <3>1, <3>3 DEF ProcInv, Shown, TypeOK
    <3> QED
      BY <1>1, <2>1, <3>1, <3>2, <3>4 DEF ProcInv, Listed
  <2> QED
    BY <2>2, <2>3
<1>4. ASSUME NEW p \in Process, p # q PROVE ProcInv(p)'
  <2>1. status'[p] \in {status[p], "none"} /\ proc'[p] = proc[p]
    BY <1>1, <1>4, RemainingAt DEF Remaining, TypeOK
  <2> QED
    BY <1>1, <2>1, SameEntry
<1> QED
  BY <1>2, <1>3, <1>4

(* kill -18, -6, -19, -20, -9, -15                                         *)
LEMMA KillStep ==
  ASSUME TypeOK, \A p \in Process : ProcInv(p), NEW q \in Process,
         kill_cont(q) \/ kill_stop(q) \/ kill_kill(q) \/ kill_caught(q) \/ kill_fatal(q)
  PROVE  TypeOK' /\ \A p \in Process : ProcInv(p)'
<1>1. CASE kill_cont(q)
  BY <1>1, MarkStep DEF kill_cont, Continued
<1>2. CASE kill_stop(q)
  BY <1>2, MarkStep DEF kill_stop
<1>3. CASE kill_kill(q)
  BY <1>3, MarkStep DEF kill_kill
<1>4. CASE kill_caught(q)
  <2>1. PICK s \in {"STOPPED", "FINISHED"} : Mark(q, s) /\ proc' = proc
    BY <1>4 DEF kill_caught
  <2>2. proc[q] \in Alive /\ proc' = [proc EXCEPT ![q] = proc[q]]
    BY <2>1 DEF Mark, Listed, TypeOK
  <2> QED
    BY <2>1, <2>2, MarkStep
<1>5. CASE kill_fatal(q)
  BY <1>5, MarkStep DEF kill_fatal
<1> QED
  BY <1>1, <1>2, <1>3, <1>4, <1>5

-----------------------------------------------------------------------------
(* Steps that leave every entry as it was, or drop it                      *)

(* fg takes an entry away; End, Outside, Waited, External, cd and any other *)
(* command at most prune the list.                                         *)
LEMMA KeepStep ==
  ASSUME TypeOK, \A p \in Process : ProcInv(p), TypeOK', now' = now,
         UNCHANGED <<startTime, runTime, added, ran>>, unmarked \subseteq unmarked',
         \A p \in Process :
           /\ status'[p] \in {status[p], "none"}
           /\ \/ proc'[p] \in {proc[p], "over"}
              \/ proc[p] = "stopped" /\ proc'[p] = "running"
              \/ proc[p] = "running" /\ proc'[p] = "stopped" /\ p \in unmarked'
              \/ status'[p] = "none"
  PROVE  \A p \in Process : ProcInv(p)'
BY SameEntry

LEMMA EntryStep ==
  ASSUME TypeOK, \A p \in Process : ProcInv(p), NEW q \in Process,
         External(q) \/ fg(q) \/ End(q) \/ Outside(q)
  PROVE  TypeOK' /\ \A p \in Process : ProcInv(p)'
<1>1. CASE External(q)
  <2>1. TypeOK'
    BY <1>1, RemainingType DEF External, TypeOK, paths
  <2> QED
    BY <1>1, <2>1, KeepStep, RemainingAt DEF External, Listed, TypeOK, Remaining
<1>2. CASE fg(q)
  <2>1. TypeOK'
    BY <1>2, RemainingType DEF fg, Continued, TypeOK, paths
  <2>2. \A p \in Process : status'[p] \in {status[p], "none"}
    BY <1>2 DEF fg, Remaining, TypeOK
  <2>3. status'[q] = "none" /\ \A p \in Process \ {q} : proc'[p] = proc[p]
    BY <1>2 DEF fg, Remaining, Continued, TypeOK
  <2> QED
    BY <1>2, <2>1, <2>2, <2>3, KeepStep DEF fg
<1>3. CASE End(q)
  <2>1. TypeOK'
    BY <1>3 DEF End, TypeOK, entries, paths
  <2> QED
    BY <1>3, <2>1, KeepStep DEF End, entries, TypeOK
<1>4. CASE Outside(q)
  <2>1. TypeOK'
    BY <1>4 DEF Outside, TypeOK, entries, paths
  <2>2. unmarked \subseteq unmarked'
    BY <1>4 DEF Outside
  <2>3. \A p \in Process : \/ proc'[p] = proc[p]
                           \/ proc[p] = "stopped" /\ proc'[p] = "running"
                           \/ proc[p] = "running" /\ proc'[p] = "stopped" /\ p \in unmarked'
    BY <1>4 DEF Outside, TypeOK
  <2> QED
    BY <1>4, <2>1, <2>2, <2>3, KeepStep DEF Outside, entries
<1> QED
  BY <1>1, <1>2, <1>3, <1>4

(* Commands and waits that touch neither processes nor clocks              *)
LEMMA QuietStep ==
  ASSUME TypeOK, \A p \in Process : ProcInv(p),
         \/ Other \/ Waited \/ cd_back
         \/ \E d \in Dir : cd(d) \/ Remove(d)
  PROVE  TypeOK' /\ \A p \in Process : ProcInv(p)'
<1>1. /\ status' \in {Remaining, status}
      /\ UNCHANGED <<now, proc, startTime, runTime, added, ran, unmarked>>
  BY DEF Other, Waited, cd_back, cd, Cd, Remove, entries
<1>2. Remaining \in [Process -> {"none", "BACKGROUND", "STOPPED", "FINISHED"}]
  BY DEF TypeOK, Remaining
<1>3. cwd' \in Dir /\ removed' \subseteq Dir
      /\ prev_path' \in Dir \cup {NoPath} /\ left' \in Dir \cup {NoPath}
  BY DEF Other, Waited, cd_back, cd, Cd, Moved, CurrentPath, Remove, entries, paths, TypeOK
<1>4. fg_pid' \in Process \cup {NoProcess}
  BY DEF Other, Waited, cd_back, cd, Cd, Remove, TypeOK
<1>5. TypeOK'
  BY <1>1, <1>2, <1>3, <1>4 DEF TypeOK
<1>6. \A p \in Process : status'[p] \in {status[p], "none"} /\ proc'[p] = proc[p]
  BY <1>1, RemainingAt
<1> QED
  BY <1>1, <1>5, <1>6, KeepStep

(* A second passes: it is counted for what the list says runs.             *)
LEMMA TickStep ==
  ASSUME TypeOK, \A p \in Process : ProcInv(p), Tick
  PROVE  TypeOK' /\ \A p \in Process : ProcInv(p)'
<1>1. /\ now' = now + 1 /\ now < MaxTime
      /\ ran' = [p \in Process |-> IF proc[p] = "running" THEN ran[p] + 1 ELSE ran[p]]
      /\ UNCHANGED <<proc, status, startTime, runTime, added, unmarked>>
      /\ UNCHANGED <<fg_pid, cwd, prev_path, left, removed>>
  BY DEF Tick, entries, paths
<1>2. TypeOK'
  <2>1. ran' \in [Process -> Nat]
    BY <1>1 DEF TypeOK
  <2>2. now' \in 0..MaxTime
    BY <1>1, BuiltinsAssumption DEF TypeOK
  <2> QED
    BY <1>1, <2>1, <2>2 DEF TypeOK
<1>3. ASSUME NEW p \in Process PROVE ProcInv(p)'
  <2>1. Listed(p)' = Listed(p)
    BY <1>1 DEF Listed
  <2>2. ran'[p] = IF proc[p] = "running" THEN ran[p] + 1 ELSE ran[p]
    BY <1>1
  <2>3. Shown(p)' = Shown(p) + (IF status[p] = "STOPPED" THEN 0 ELSE 1)
    BY <1>1 DEF Shown, TypeOK
  <2> QED
    BY <1>1, <2>1, <2>2, <2>3, BuiltinsAssumption DEF ProcInv, TypeOK, Shown
<1> QED
  BY <1>2, <1>3

(* New entries: a command with &, and ctrl-Z                               *)
LEMMA AddStep ==
  ASSUME TypeOK, \A p \in Process : ProcInv(p),
         ctrlZFunction \/ \E q \in Process : Background(q)
  PROVE  TypeOK' /\ \A p \in Process : ProcInv(p)'
<1>1. CASE ctrlZFunction
  <2>1. PICK q \in Process :
          /\ job(q, "STOPPED")
          /\ proc' = [proc EXCEPT ![q] = IF @ = "over" THEN @ ELSE "stopped"]
          /\ fg_pid' = NoProcess
          /\ UNCHANGED <<now, paths, removed>>
    BY <1>1 DEF ctrlZFunction
  <2>2. TypeOK'
    BY <2>1, NewEntryType DEF TypeOK, paths
  <2> QED
    BY <2>1, <2>2, NewEntry DEF TypeOK
<1>2. CASE \E q \in Process : Background(q)
  <2>1. PICK q \in Process : Background(q)
    BY <1>2
  <2>2. TypeOK'
    BY <2>1, NewEntryType DEF TypeOK, Background, paths
  <2> QED
    BY <2>1, <2>2, NewEntry DEF Background, TypeOK
<1> QED
  BY <1>1, <1>2

-----------------------------------------------------------------------------
(* Theorems *)

(* Only cd that succeeds touches what cd - reads, and it notes the         *)
(* directory that it leaves.                                               *)
LEMMA DashStep == DashLeadsBack /\ [Next]_vars => DashLeadsBack'
<1> SUFFICES ASSUME DashLeadsBack, [Next]_vars PROVE DashLeadsBack'
  OBVIOUS
<1>1. ASSUME NEW d, NEW reached, Cd(d, reached) PROVE DashLeadsBack'
  BY <1>1 DEF Cd, Moved, CurrentPath, DashLeadsBack, paths
<1>2. CASE (\E d \in Dir : cd(d)) \/ cd_back
  BY <1>1, <1>2 DEF cd, cd_back
<1>3. CASE UNCHANGED paths
  BY <1>3, PathFrame
<1> QED
  BY <1>2, <1>3 DEF Next, ProcessStep, vars, Background, External, fg, bg, BgFrom, Mark,
     kill_cont, kill_stop, kill_kill, kill_caught, kill_fatal, End, Outside, Other, jobs,
     ctrlZFunction, Waited, Tick, Remove

(* The clocks of the list and the memory of cd are sound from the first    *)
(* prompt on.                                                              *)
THEOREM Inductive == Spec => []IInv
<1>1. Init => IInv
  BY InitInv
<1>2. IInv /\ [Next]_vars => IInv'
  <2> SUFFICES ASSUME IInv, [Next]_vars PROVE IInv'
    OBVIOUS
  <2> USE Parts
  <2>1. TypeOK /\ DashLeadsBack' /\ \A p \in Process : ProcInv(p)
    BY DashStep
  <2>2. SUFFICES TypeOK' /\ \A p \in Process : ProcInv(p)'
    BY <2>1 DEF IInv, ClockInv, MarkInv, StoppedNotCounted, ProcInv
  <2>3. CASE UNCHANGED vars
    <3>1. TypeOK'
      BY <2>1, <2>3 DEF vars, entries, paths, TypeOK
    <3> QED
      BY <2>1, <2>3, <3>1, KeepStep DEF vars, entries
  <2>4. CASE \E p \in Process : ProcessStep(p)
    BY <2>1, <2>4, AddStep, EntryStep, BgStep, KillStep DEF ProcessStep
  <2>5. CASE Other \/ Waited \/ cd_back \/ \E d \in Dir : cd(d) \/ Remove(d)
    BY <2>1, <2>5, QuietStep
  <2>6. CASE jobs
    BY <2>1, <2>6, JobsStep
  <2>7. CASE ctrlZFunction
    BY <2>1, <2>7, AddStep
  <2>8. CASE Tick
    BY <2>1, <2>8, TickStep
  <2> QED
    BY <2>3, <2>4, <2>5, <2>6, <2>7, <2>8 DEF Next
<1> QED
  BY <1>1, <1>2, PTL DEF Spec

(* jobs never prints more than the time that the entry has been listed.    *)
THEOREM NoSecondTwiceHolds == Spec => []NoSecondTwice
<1>1. IInv => NoSecondTwice
  <2> SUFFICES ASSUME IInv, NEW p \in Process, Listed(p)
               PROVE  Shown(p) <= now - added[p]
    BY DEF NoSecondTwice
  <2> QED
    BY BuiltinsAssumption DEF IInv, TypeOK, ClockInv, Shown
<1> QED
  BY <1>1, Inductive, PTL

(* The time a job was stopped is not counted, but for kill and for stops   *)
(* from outside.                                                           *)
THEOREM StoppedNotCountedHolds == Spec => []StoppedNotCounted
BY Inductive, PTL DEF IInv

(* cd - leads to the directory that was left last.                         *)
THEOREM DashLeadsBackHolds == Spec => []DashLeadsBack
BY Inductive, PTL DEF IInv
=============================================================================
