-------------------------- MODULE SmashLossProofs --------------------------
(***************************************************************************)
(* Proofs that the shell takes no living process off its list, and loses   *)
(* no child in silence, for any number of processes and signals and any    *)
(* limit of the list.                                                      *)
(***************************************************************************)
EXTENDS SmashProofs

-----------------------------------------------------------------------------
(* What a step does to the processes *)

OverStays == \A p : Over(p) => Over(p)'

(* A signal changes no process but the one it is for, and none that is not *)
(* alive; SIGKILL ends it, SIGTERM ends it or does nothing, and SIGCONT    *)
(* makes it run.                                                           *)
LEMMA DeliverFacts ==
  ASSUME proc \in [Pid -> ProcState], NEW q \in Pid, NEW sig, Deliver(q, sig)
  PROVE  /\ \A p \in Pid : p # q => proc'[p] = proc[p]
         /\ proc[q] \notin Alive => proc'[q] = proc[q]
         /\ sig = SIGKILL => proc'[q] \notin Alive
         /\ sig = SIGTERM /\ proc'[q] \in Alive => proc'[q] = proc[q]
         /\ sig = SIGCONT /\ proc'[q] \in Alive => proc'[q] \in Running
         /\ sig = SIGCONT /\ proc'[q] # proc[q] => proc[q] = "stopped"
         /\ OverStays
<1>1. PICK s \in Outcome(proc[q], sig) : proc' = [proc EXCEPT ![q] = s]
  BY DEF Deliver
<1>2. proc'[q] = s /\ \A p \in Pid : p # q => proc'[p] = proc[p]
  BY <1>1
<1>3. proc[q] \notin Alive => s = proc[q]
  BY <1>1 DEF Outcome
<1>4. proc[q] \in ProcState
  OBVIOUS
<1>5. /\ sig = SIGKILL => s \notin Alive
      /\ sig = SIGTERM /\ s \in Alive => s = proc[q]
      /\ sig = SIGCONT /\ s \in Alive => s \in Running
      /\ sig = SIGCONT /\ s # proc[q] => proc[q] = "stopped"
  <2>1. CASE proc[q] \notin Alive
    BY <1>3, <2>1
  <2>2. CASE proc[q] \in Alive /\ sig = SIGKILL
    <3>1. sig # SIGTERM /\ sig # SIGCONT /\ sig # SIGSTOP /\ "zombie" \notin Alive
      BY <2>2 DEF SIGKILL, SIGTERM, SIGCONT, SIGSTOP, Alive, Running
    <3>2. s = "zombie"
      BY <1>1, <2>2, <3>1 DEF Outcome
    <3> QED
      BY <3>1, <3>2
  <2>3. CASE proc[q] \in Alive /\ sig = SIGTERM
    <3>1. /\ sig # SIGKILL /\ sig # SIGSTOP /\ sig # SIGCONT /\ sig \notin Stopping
          /\ "zombie" \notin Alive
      BY <2>3 DEF SIGKILL, SIGTERM, SIGCONT, SIGSTOP, Stopping, Alive, Running
    <3>2. s \in {proc[q], "zombie"}
      BY <1>1, <2>3, <3>1 DEF Outcome
    <3> QED
      BY <3>1, <3>2
  <2>4. CASE proc[q] \in Alive /\ sig = SIGCONT
    <3>1. sig # SIGKILL /\ sig # SIGSTOP /\ sig # SIGTERM
      BY <2>4 DEF SIGKILL, SIGTERM, SIGCONT, SIGSTOP
    <3>2. s = IF proc[q] = "stopped" THEN "continued" ELSE proc[q]
      BY <1>1, <2>4, <3>1 DEF Outcome
    <3>3. proc[q] # "stopped" => proc[q] \in Running
      BY <2>4 DEF Alive
    <3> QED
      BY <3>1, <3>2, <3>3 DEF Running
  <2>5. CASE sig \notin {SIGKILL, SIGTERM, SIGCONT}
    BY <2>5
  <2> QED
    BY <2>1, <2>2, <2>3, <2>4, <2>5
<1>6. OverStays
  <2>1. ASSUME NEW p, Over(p)
        PROVE  Over(p)'
    <3>1. CASE p \notin Pid
      BY <3>1 DEF Over
    <3>2. CASE p \in Pid
      <4>1. proc[p] \notin Alive
        BY <2>1, <3>2 DEF Over, Alive, Running
      <4>2. proc'[p] = proc[p]
        <5>1. CASE p = q
          BY <5>1, <4>1, <1>2, <1>3
        <5>2. CASE p # q
          BY <5>2, <3>2, <1>2
        <5> QED
          BY <5>1, <5>2
      <4> QED
        BY <2>1, <4>2 DEF Over
    <3> QED
      BY <3>1, <3>2
  <2> QED
    BY <2>1 DEF OverStays
<1> QED
  BY <1>2, <1>3, <1>5, <1>6

(* waitpid makes nobody alive or dead. *)
LEMMA ReapFacts ==
  ASSUME proc \in [Pid -> ProcState], NEW q, Reap(q)
  PROVE  /\ \A p \in Pid : proc'[p] \in Alive \/ proc[p] \in Alive => proc'[p] = proc[p]
         /\ OverStays
<1>1. \A p \in Pid : \/ proc'[p] = proc[p]
                     \/ proc[p] = "zombie" /\ proc'[p] = "reaped"
  BY DEF Reap
<1> QED
  BY <1>1 DEF OverStays, Over, Alive, Running

(* Main's waitpid takes note that a process goes on, or reaps it.          *)
LEMMA WaitFacts ==
  ASSUME proc \in [Pid -> ProcState], Wait
  PROVE  /\ \A p \in Pid : p # pID \/ proc[p] # "continued" =>
              (proc'[p] \in Alive \/ proc[p] \in Alive => proc'[p] = proc[p])
         /\ \A p \in Pid : p = pID /\ proc[p] = "continued" => proc'[p] = "running"
         /\ OverStays
<1>1. CASE ~Over(pID) /\ proc[pID] = "continued"
  <2>1. proc' = [proc EXCEPT ![pID] = "running"] /\ pID \in Pid
    BY <1>1 DEF Wait, WaitFor, Over
  <2> QED
    BY <1>1, <2>1 DEF OverStays, Over
<1>2. CASE ~(~Over(pID) /\ proc[pID] = "continued")
  <2>1. Reap(pID)
    BY <1>2 DEF Wait, WaitFor
  <2>2. ~(pID \in Pid /\ proc[pID] = "continued")
    BY <1>2 DEF Over
  <2> QED
    BY <2>1, <2>2, ReapFacts
<1> QED
  BY <1>1, <1>2

-----------------------------------------------------------------------------
(* What a step does to the list *)

SameNode(j, k) == j.jobid = k.jobid /\ j.pid = k.pid

(* Every node was there before. *)
NodesOld == \A i \in DOMAIN jobs' : \E j \in DOMAIN jobs : SameNode(jobs'[i], jobs[j])

(* Every node of before is still there. *)
NodesStay == \A j \in DOMAIN jobs : \E i \in DOMAIN jobs' : SameNode(jobs'[i], jobs[j])

(* A list that does not change *)
LEMMA SameList ==
  ASSUME jobs' = jobs
  PROVE  NodesOld /\ NodesStay
BY DEF NodesOld, NodesStay, SameNode

(* An entry goes, and no other. *)
LEMMA Erased ==
  ASSUME TypeOK, NEW k \in 1..Len(jobs), jobs' = RemoveAt(jobs, k)
  PROVE  /\ NodesOld
         /\ \A j \in DOMAIN jobs : j # k => \E i \in DOMAIN jobs' : SameNode(jobs'[i], jobs[j])
<1>1. /\ jobs' \in Seq(Job) /\ Len(jobs') = Len(jobs) - 1
      /\ \A i \in 1..Len(jobs) - 1 :
           jobs'[i] = IF i < k THEN jobs[i] ELSE jobs[i + 1]
  BY RemoveAtFacts DEF TypeOK
<1>2. Len(jobs) \in Nat /\ DOMAIN jobs = 1..Len(jobs) /\ DOMAIN jobs' = 1..Len(jobs) - 1
  BY <1>1 DEF TypeOK
<1>3. ASSUME NEW i \in DOMAIN jobs'
      PROVE  \E j \in DOMAIN jobs : SameNode(jobs'[i], jobs[j])
  <2>1. CASE i < k
    <3>1. i \in DOMAIN jobs /\ jobs'[i] = jobs[i]
      BY <2>1, <1>1, <1>2
    <3> QED
      BY <3>1 DEF SameNode
  <2>2. CASE ~(i < k)
    <3>1. i + 1 \in DOMAIN jobs /\ jobs'[i] = jobs[i + 1]
      BY <2>2, <1>1, <1>2
    <3> QED
      BY <3>1 DEF SameNode
  <2> QED
    BY <2>1, <2>2
<1>4. ASSUME NEW j \in DOMAIN jobs, j # k
      PROVE  \E i \in DOMAIN jobs' : SameNode(jobs'[i], jobs[j])
  <2>1. CASE j < k
    <3>1. j \in DOMAIN jobs' /\ jobs'[j] = jobs[j]
      BY <2>1, <1>1, <1>2
    <3> QED
      BY <3>1 DEF SameNode
  <2>2. CASE ~(j < k)
    <3>1. j - 1 \in 1..Len(jobs) - 1 /\ ~(j - 1 < k) /\ j - 1 + 1 = j
      BY <2>2, <1>4, <1>2
    <3>2. j - 1 \in DOMAIN jobs' /\ jobs'[j - 1] = jobs[j]
      BY <3>1, <1>1, <1>2
    <3> QED
      BY <3>2 DEF SameNode
  <2> QED
    BY <2>1, <2>2
<1> QED
  BY <1>3, <1>4 DEF NodesOld

(* A job is added at the end. *)
LEMMA Pushed ==
  ASSUME TypeOK, NEW j, jobs' = Append(jobs, j)
  PROVE  /\ NodesStay
         /\ \A i \in DOMAIN jobs' : jobs'[i] = j \/ \E k \in DOMAIN jobs : jobs'[i] = jobs[k]
         /\ \E i \in DOMAIN jobs' : jobs'[i] = j
<1>1. /\ Len(jobs) \in Nat /\ DOMAIN jobs = 1..Len(jobs)
      /\ DOMAIN jobs' = 1..Len(jobs) + 1
      /\ \A i \in 1..Len(jobs) : jobs'[i] = jobs[i]
      /\ jobs'[Len(jobs) + 1] = j
  BY DEF TypeOK
<1>2. \A i \in DOMAIN jobs' : i \in DOMAIN jobs \/ i = Len(jobs) + 1
  BY <1>1
<1>3. \A i \in DOMAIN jobs : i \in DOMAIN jobs'
  BY <1>1
<1> QED
  BY <1>1, <1>2, <1>3 DEF NodesStay, SameNode

(* A status changes. *)
LEMMA Marked ==
  ASSUME TypeOK, NEW k \in DOMAIN jobs, NEW status, SetStatus(k, status)
  PROVE  NodesOld /\ NodesStay
<1>1. \A i \in DOMAIN jobs : jobs[i] \in Job
  BY DEF TypeOK
<1>2. \A j \in Job : SameNode([j EXCEPT !.status = status], j) /\ SameNode(j, j)
  BY DEF Job, SameNode
<1>3. DOMAIN jobs' = DOMAIN jobs
  BY DEF SetStatus
<1>4. \A i \in DOMAIN jobs :
        jobs'[i] = IF i = k THEN [jobs[i] EXCEPT !.status = status] ELSE jobs[i]
  BY DEF SetStatus
<1>5. \A i \in DOMAIN jobs : SameNode(jobs'[i], jobs[i])
  BY <1>1, <1>2, <1>4
<1> QED
  BY <1>3, <1>5 DEF NodesOld, NodesStay

(* Which status it is, main knows. *)
LEMMA MainMarks ==
  ASSUME TypeOK, BgMark \/ KillMark
  PROVE  \E k \in DOMAIN jobs, status \in JobStatus : SetStatus(k, status)
<1>1. "BACKGROUND" \in JobStatus /\ StatusAfter(cmd.sig) \in JobStatus
  BY DEF JobStatus, StatusAfter
<1>2. CASE BgMark
  BY <1>1, <1>2, BehindType DEF BgMark
<1>3. CASE KillMark
  BY <1>1, <1>3, NodeType DEF KillMark, Context
<1> QED
  BY <1>2, <1>3

(* Two entries never have one id. *)
LEMMA OneNode ==
  ASSUME TypeOK, JobIdsIncrease, NEW i \in DOMAIN jobs, NEW j \in DOMAIN jobs,
         jobs[i].jobid = jobs[j].jobid
  PROVE  i = j
<1>1. i \in Int /\ j \in Int /\ jobs[i] \in Job /\ jobs[j] \in Job
  BY DEF TypeOK
<1>2. jobs[i].jobid \in Nat
  BY <1>1 DEF Job
<1> QED
  BY <1>1, <1>2 DEF JobIdsIncrease

-----------------------------------------------------------------------------
(* Nothing that is over comes back to life. *)
LEMMA OverStep ==
  ASSUME TypeOK, [Next]_vars
  PROVE  OverStays
<1> USE DEF vars, locals, list, foreground, history
<1>1. proc \in [Pid -> ProcState]
  BY DEF TypeOK
<1>2. CASE UNCHANGED proc
  BY <1>2 DEF OverStays, Over
<1>3. ASSUME NEW c \in Context, TestJob(c)
      PROVE  OverStays
  <2>1. CASE Reap(Node(c).pid)
    BY <2>1, <1>1, ReapFacts
  <2> QED
    BY <1>3, <2>1, <1>2 DEF TestJob, TestFor
<1>4. ASSUME Fork
      PROVE  OverStays
  <2>1. \A p \in Pid : proc'[p] = proc[p] \/ proc[p] = "none"
    BY <1>4, <1>1 DEF Fork
  <2> QED
    BY <2>1 DEF OverStays, Over
<1>5. ASSUME Wait
      PROVE  OverStays
  BY <1>5, <1>1, WaitFacts
<1>6. ASSUME Resume("fg_cont", "flag")
      PROVE  OverStays
  <2>1. CASE pID \in Pid /\ Deliver(pID, SIGCONT)
    BY <2>1, <1>1, DeliverFacts
  <2> QED
    BY <1>6, <2>1, <1>2 DEF Resume, Killable
<1>7. ASSUME BgResume
      PROVE  OverStays
  <2>1. CASE pID \in Pid /\ Deliver(pID, SIGCONT)
    BY <2>1, <1>1, DeliverFacts
  <2> QED
    BY <1>7, <2>1, <1>2 DEF BgResume, Killable
<1>8. ASSUME KillSend
      PROVE  OverStays
  <2>1. CASE pID \in Pid /\ Deliver(pID, cmd.sig)
    BY <2>1, <1>1, DeliverFacts
  <2> QED
    BY <1>8, <2>1, <1>2 DEF KillSend, Killable
<1>9. ASSUME QuitTerm
      PROVE  OverStays
  <2>1. CASE pID \in Pid /\ Deliver(pID, SIGTERM)
    BY <2>1, <1>1, DeliverFacts
  <2> QED
    BY <1>9, <2>1, <1>2 DEF QuitTerm, Killable
<1>10. ASSUME QuitPoll
      PROVE  OverStays
  BY <1>10, <1>1, ReapFacts DEF QuitPoll, PollUntil
<1>11. ASSUME NEW h \in Handler, NEW sig, NEW itself, Send(h, sig, itself)
      PROVE  OverStays
  <2>1. CASE fg_pid \in Pid /\ Deliver(fg_pid, sig)
    BY <2>1, <1>1, DeliverFacts
  <2> QED
    BY <1>11, <2>1, <1>2 DEF Send, Killable
<1>12. ASSUME NEW p \in Pid, End(p)
      PROVE  OverStays
  <2>1. \A q \in Pid : proc'[q] = proc[q] \/ proc[q] \in Running
    BY <1>12, <1>1 DEF End
  <2> QED
    BY <2>1 DEF OverStays, Over, Running
<1>13. ASSUME NEW p \in Pid, NEW sig \in {SIGSTOP, SIGCONT}, Outside(p, sig)
      PROVE  OverStays
  BY <1>13, <1>1, DeliverFacts DEF Outside
<1>14. ASSUME ReadLine
      PROVE  OverStays
  BY <1>14, <1>2 DEF ReadLine
<1>15. ASSUME NEW c \in Context, BeginPrune(c) \/ EraseJob(c) \/ KeepJob(c) \/ CountJobs(c)
               \/ IncrementIndex(c) \/ PushJob(c) \/ Dangling(c)
      PROVE  OverStays
  BY <1>15, <1>2 DEF BeginPrune, EraseJob, EraseTo, KeepJob, CountJobs, CountFor,
     IncrementIndex, IndexFrom, PushJob, Dangling
<1>16. ASSUME ExeCmd \/ ForkFails \/ SetFlag \/ SetPid \/ ClearFlag
      PROVE  OverStays
  BY <1>16, <1>2 DEF ExeCmd, ForkFails, SetFlag, SetPid, ClearFlag
<1>17. ASSUME Walk
      PROVE  OverStays
  BY <1>17, <1>2, WalkFacts
<1>18. ASSUME FgErase \/ BgMark \/ KillMark
      PROVE  OverStays
  BY <1>18, <1>2 DEF FgErase, BgMark, KillMark
<1>19. ASSUME QuitBegin \/ QuitStep \/ Tick
      PROVE  OverStays
  BY <1>19, <1>2 DEF QuitBegin, QuitStep, Tick
<1>20. ASSUME NEW h \in Handler, TestForeground(h) \/ Signal(h)
      PROVE  OverStays
  BY <1>20, <1>2 DEF TestForeground, TestFlag, Signal
<1>21. ASSUME UNCHANGED vars
      PROVE  OverStays
  BY <1>21, <1>2
<1> QED
  BY <1>3, <1>4, <1>5, <1>6, <1>7, <1>8, <1>9, <1>10, <1>11, <1>12, <1>13, <1>14, <1>15, <1>16, <1>17, <1>18, <1>19, <1>20, <1>21
     DEF Next, Run, main, ctrlCFunction, ctrlZFunction, remove_finished_jobs,
     add_job_to_jobs_list, ExeExternal, Walk, fg, bg, kill, quit, Context, Handler

-----------------------------------------------------------------------------
(* The iterators *)

(* A step that gives no job-id, tests no entry, and moves iterators only   *)
(* to entries that are there                                               *)
Calm ==
  /\ jobIndex' = jobIndex
  /\ \A c \in Context : it'[c] = it[c] \/ it'[c] \in {0} \cup Ids
  /\ \A c \in Context : pc'[c] = "push" => pc[c] = "push"
  /\ \A c \in Context : pc'[c] = "erase" => pc[c] = "erase" /\ it'[c] = it[c]
  /\ pc'["main"] = "fg_erase" =>
       pc["main"] = "fg_erase" /\ it'["main"] = it["main"] /\ pID' = pID

LEMMA CalmMove ==
  ASSUME TypeOK, NEW c \in Context, NEW l \in Labels \ {"push", "erase", "fg_erase"},
         Goto(c, l), jobIndex' = jobIndex,
         it' = it \/ \E id \in {0} \cup Ids : it' = [it EXCEPT ![c] = id],
         c = "main" \/ pID' = pID
  PROVE  Calm
<1>1. pc'[c] = l /\ \A d \in Context : d # c => pc'[d] = pc[d]
  BY DEF TypeOK, Goto
<1>2. /\ it'[c] = it[c] \/ it'[c] \in {0} \cup Ids
      /\ \A d \in Context : d # c => it'[d] = it[d]
  BY DEF TypeOK
<1>3. "main" \in Context
  BY DEF Context
<1> QED
  BY <1>1, <1>2, <1>3 DEF Calm

LEMMA CalmStill ==
  ASSUME jobIndex' = jobIndex, pc' = pc, it' = it, pID' = pID
  PROVE  Calm
BY DEF Calm

LEMMA CalmPrompt ==
  ASSUME TypeOK, Prompt, jobIndex' = jobIndex
  PROVE  Calm
<1>1. "prompt" \in Labels \ {"push", "erase", "fg_erase"} /\ "main" \in Context
  BY DEF Labels, Context
<1>2. Goto("main", "prompt") /\ it' = [it EXCEPT !["main"] = 0]
  BY DEF Prompt
<1> QED
  BY <1>1, <1>2, CalmMove

LEMMA CalmReturn ==
  ASSUME TypeOK, NEW h \in Handler, Return(h), jobIndex' = jobIndex, it' = it, pID' = pID
  PROVE  Calm
<1>1. "idle" \in Labels \ {"push", "erase", "fg_erase"} /\ h \in Context
  BY DEF Labels, Context
<1>2. Goto(h, "idle")
  BY DEF Return
<1> QED
  BY <1>1, <1>2, CalmMove

LEMMA CalmAdvance ==
  ASSUME TypeOK, NEW c \in Context, NEW id \in {0} \cup Ids, Advance(c, id),
         jobIndex' = jobIndex, pID' = pID
  PROVE  Calm
<1>1. PICK l \in {"dispatch", "test_fg", "test"} : Goto(c, l)
  BY DEF Advance, AfterPrune, Context, Handler
<1>2. l \in Labels \ {"push", "erase", "fg_erase"}
  BY DEF Labels, Derefs
<1> QED
  BY <1>1, <1>2, CalmMove DEF Advance

(* Such a step leaves iterators sound, if entries only go.                 *)
LEMMA IteratorsKept ==
  ASSUME TypeOK, AddInv, JobIdsIncrease, IteratorInv, Calm, NodesOld, OverStays
  PROVE  IteratorInv'
<1>1. jobIndex \in Nat /\ \A c \in Context : it[c] \in Nat
  BY DEF TypeOK
<1>2. \A id \in Ids : id <= jobIndex
  BY DEF Ids, JobIdsIncrease
<1>3. ASSUME NEW c \in Context
      PROVE  it'[c] <= jobIndex'
  BY <1>1, <1>2 DEF Calm, IteratorInv
<1>4. ASSUME NEW c \in Context, NEW d \in Context, pc'[c] = "push"
      PROVE  it'[d] < jobIndex'
  <2>1. pc[c] = "push" /\ jobIndex' = jobIndex
    BY <1>4 DEF Calm
  <2>2. it[d] < jobIndex /\ \A id \in Ids : id < jobIndex
    BY <2>1 DEF IteratorInv, AddInv, Ids
  <2>3. 0 < jobIndex
    BY <2>2, <1>1
  <2> QED
    BY <2>1, <2>2, <2>3 DEF Calm
<1>5. ASSUME NEW c \in Context, NEW i \in DOMAIN jobs', pc'[c] = "erase",
             jobs'[i].jobid = it'[c]
      PROVE  jobs'[i].pid \notin Pid \/ proc'[jobs'[i].pid] \in {"zombie", "reaped"}
  <2>1. pc[c] = "erase" /\ it'[c] = it[c]
    BY <1>5 DEF Calm
  <2>2. PICK j \in DOMAIN jobs : SameNode(jobs'[i], jobs[j])
    BY DEF NodesOld
  <2>3. Over(jobs[j].pid)
    BY <1>5, <2>1, <2>2 DEF SameNode, IteratorInv
  <2> QED
    BY <2>2, <2>3 DEF SameNode, OverStays, Over
<1>6. ASSUME NEW i \in DOMAIN jobs', pc'["main"] = "fg_erase", jobs'[i].jobid = it'["main"]
      PROVE  jobs'[i].pid = pID'
  <2>1. PICK j \in DOMAIN jobs : SameNode(jobs'[i], jobs[j])
    BY DEF NodesOld
  <2> QED
    BY <1>6, <2>1 DEF SameNode, IteratorInv, Calm
<1> QED
  BY <1>3, <1>4, <1>5, <1>6 DEF IteratorInv, Over

(* The three steps that are not so: a test, a walk that ends with a pid, and*)
(* the giving of a job-id; and an addition.                                *)
LEMMA IteratorTested ==
  ASSUME TypeOK, JobIdsIncrease, IteratorInv, OverStays, NEW c \in Context, TestJob(c)
  PROVE  IteratorInv'
<1> USE DEF list
<1>1. /\ jobs' = jobs /\ jobIndex' = jobIndex /\ it' = it /\ pID' = pID /\ Deref(c)
      /\ \/ pc' = [pc EXCEPT ![c] = "erase"] /\ Over(Node(c).pid)
         \/ pc' = [pc EXCEPT ![c] = "next"]
  BY DEF TestJob, TestFor, Goto, locals
<1>2. pc \in [Context -> Labels] /\ "main" \in Context
  BY DEF TypeOK, Context
<1>3. ASSUME NEW d \in Context, NEW i \in DOMAIN jobs, pc'[d] = "erase", jobs[i].jobid = it[d]
      PROVE  Over(jobs[i].pid)
  <2>1. CASE pc[d] = "erase"
    BY <2>1, <1>3 DEF IteratorInv
  <2>2. CASE pc[d] # "erase"
    <3>1. d = c /\ Over(Node(c).pid)
      BY <2>2, <1>1, <1>2, <1>3
    <3>2. Position(it[c]) \in DOMAIN jobs /\ jobs[Position(it[c])].jobid = it[c]
      BY <1>1, PositionFacts DEF Deref, TypeOK
    <3>3. i = Position(it[c])
      BY <3>1, <3>2, <1>3, OneNode
    <3> QED
      BY <3>1, <3>3 DEF Node
  <2> QED
    BY <2>1, <2>2
<1>4. \A d \in Context : pc'[d] = "push" => pc[d] = "push"
  BY <1>1, <1>2
<1>5. pc'["main"] = "fg_erase" => pc["main"] = "fg_erase"
  BY <1>1, <1>2
<1>6. \A d \in Context, i \in DOMAIN jobs :
        pc'[d] = "erase" /\ jobs[i].jobid = it[d] =>
          jobs[i].pid \notin Pid \/ proc'[jobs[i].pid] \in {"zombie", "reaped"}
  BY <1>3 DEF OverStays, Over
<1> QED
  BY <1>1, <1>4, <1>5, <1>6 DEF IteratorInv, Over

LEMMA IteratorRead ==
  ASSUME TypeOK, JobIdsIncrease, IteratorInv, Walk, WalkEnds
  PROVE  IteratorInv'
<1> USE DEF list
<1>1. /\ jobs' = jobs /\ jobIndex' = jobIndex /\ it' = it /\ proc' = proc
      /\ pID' = Node("main").pid /\ Deref("main")
      /\ \E l \in {"fg_erase", "kill_send", "quit_term"} : pc' = [pc EXCEPT !["main"] = l]
  BY WalkFacts DEF WalkEnds, Goto
<1>2. Position(it["main"]) \in DOMAIN jobs /\ jobs[Position(it["main"])].jobid = it["main"]
  BY <1>1, PositionFacts DEF Deref, TypeOK
<1>3. ASSUME NEW i \in DOMAIN jobs, jobs[i].jobid = it["main"]
      PROVE  jobs[i].pid = pID'
  <2>1. i = Position(it["main"])
    BY <1>2, <1>3, OneNode
  <2> QED
    BY <2>1, <1>1 DEF Node
<1>4. \A d \in Context : pc'[d] \in {"push", "erase"} => pc'[d] = pc[d]
  BY <1>1 DEF TypeOK
<1> QED
  BY <1>1, <1>3, <1>4 DEF IteratorInv, Over

LEMMA CalmWalk ==
  ASSUME TypeOK, Walk, ~WalkEnds
  PROVE  Calm
<1> USE DEF list
<1>1. jobIndex' = jobIndex /\ "main" \in Context
  BY WalkFacts DEF Context
<1>2. CASE Prompt
  BY <1>1, <1>2, CalmPrompt
<1>3. CASE WalkOn \/ WalkBack
  <2>1. PICK l \in {"jobs_show", "fg_find", "kill_find", "fg_last", "bg_test", "bg_find",
                    "bg_next", "bg_pid", "bg_mark"} : Goto("main", l)
    BY <1>3 DEF WalkOn, WalkBack
  <2>2. l \in Labels \ {"push", "erase", "fg_erase"}
    BY DEF Labels, Derefs, DerefsBehind
  <2>3. it' = it \/ \E id \in {0} \cup Ids : it' = [it EXCEPT !["main"] = id]
    BY <1>3, BehindType DEF WalkOn, WalkBack
  <2> QED
    BY <1>1, <2>1, <2>2, <2>3, CalmMove
<1> QED
  BY <1>2, <1>3, WalkFacts

LEMMA IteratorNumbered ==
  ASSUME TypeOK, IteratorInv, NEW c \in Context, IncrementIndex(c)
  PROVE  IteratorInv'
<1>1. /\ jobs' = jobs /\ jobIndex' = jobIndex + 1 /\ it' = it /\ proc' = proc /\ pID' = pID
      /\ pc' = [pc EXCEPT ![c] = "push"]
  BY DEF IncrementIndex, IndexFrom, Step, Goto, locals
<1>2. \A d \in Context : it[d] \in Nat /\ it[d] <= jobIndex /\ jobIndex \in Nat
  BY DEF TypeOK, IteratorInv
<1>3. \A d \in Context : it'[d] < jobIndex' /\ it'[d] <= jobIndex'
  BY <1>1, <1>2
<1>4. \A d \in Context : pc'[d] \in {"erase", "fg_erase"} => pc'[d] = pc[d]
  BY <1>1 DEF TypeOK
<1>5. "main" \in Context
  BY DEF Context
<1> QED
  BY <1>1, <1>3, <1>4, <1>5 DEF IteratorInv, Over

LEMMA IteratorPushed ==
  ASSUME TypeOK, IteratorInv, NEW c \in Context, PushJob(c)
  PROVE  IteratorInv'
<1>1. /\ pc[c] = "push"
      /\ jobs' = Append(jobs, NewJob(c)) /\ jobIndex' = jobIndex /\ proc' = proc
      /\ NewJob(c).jobid = jobIndex
      /\ \E l \in {"prompt", "send"} : pc' = [pc EXCEPT ![c] = l]
      /\ it' = it \/ it' = [it EXCEPT !["main"] = 0]
  BY DEF PushJob, At, NewJob, Prompt, Goto
<1>2. \A d \in Context : /\ it[d] \in Nat /\ it[d] < jobIndex /\ jobIndex \in Nat
                         /\ it'[d] \in {0, it[d]}
  BY <1>1 DEF TypeOK, IteratorInv
<1>3. \A d \in Context : it'[d] < jobIndex' /\ it'[d] <= jobIndex'
  BY <1>1, <1>2
<1>4. ASSUME NEW d \in Context, pc'[d] \in {"push", "erase"}
      PROVE  pc'[d] = pc[d] /\ it'[d] = it[d]
  <2>1. d # c /\ pc'[d] = pc[d]
    BY <1>1, <1>4 DEF TypeOK
  <2>2. CASE c = "main"
    BY <1>1, <2>1, <2>2 DEF TypeOK
  <2>3. CASE c # "main"
    BY <2>1, <2>3 DEF PushJob
  <2> QED
    BY <2>1, <2>2, <2>3
<1>5. ASSUME pc'["main"] = "fg_erase"
      PROVE  pc["main"] = "fg_erase" /\ it'["main"] = it["main"] /\ pID' = pID
  <2>1. "main" \in Context
    BY DEF Context
  <2>2. c # "main" /\ pc'["main"] = pc["main"]
    BY <1>1, <1>5, <2>1 DEF TypeOK
  <2> QED
    BY <1>5, <2>2 DEF PushJob, locals
<1>6. ASSUME NEW d \in Context, NEW i \in DOMAIN jobs', jobs'[i].jobid = it'[d]
      PROVE  \E k \in DOMAIN jobs : jobs'[i] = jobs[k]
  <2>1. jobs'[i].jobid # NewJob(c).jobid
    BY <1>1, <1>3, <1>6, <1>2
  <2> QED
    BY <1>1, <2>1, Pushed
<1>7. ASSUME NEW d \in Context, NEW i \in DOMAIN jobs', pc'[d] = "erase",
             jobs'[i].jobid = it'[d]
      PROVE  jobs'[i].pid \notin Pid \/ proc'[jobs'[i].pid] \in {"zombie", "reaped"}
  <2>1. PICK k \in DOMAIN jobs : jobs'[i] = jobs[k]
    BY <1>6, <1>7
  <2>2. Over(jobs[k].pid)
    BY <2>1, <1>4, <1>7 DEF IteratorInv
  <2> QED
    BY <2>1, <2>2, <1>1 DEF Over
<1>8. ASSUME NEW i \in DOMAIN jobs', pc'["main"] = "fg_erase", jobs'[i].jobid = it'["main"]
      PROVE  jobs'[i].pid = pID'
  <2>1. PICK k \in DOMAIN jobs : jobs'[i] = jobs[k]
    BY <1>6, <1>8 DEF Context
  <2> QED
    BY <2>1, <1>5, <1>8 DEF IteratorInv
<1> QED
  BY <1>3, <1>7, <1>8 DEF IteratorInv, Over

(* No step makes an iterator unsound. *)
LEMMA IteratorStep ==
  ASSUME TypeOK, Control, AddInv, JobIdsIncrease, IteratorInv, [Next]_vars
  PROVE  IteratorInv'
<1> USE DEF locals, list, foreground, history
<1>1. OverStays
  BY OverStep
<1>2. ASSUME Calm, jobs' = jobs
      PROVE  IteratorInv'
  BY <1>1, <1>2, SameList, IteratorsKept
<1>3. \A c \in Context, id \in {0} \cup Ids :
        Advance(c, id) /\ jobIndex' = jobIndex /\ pID' = pID => Calm
  BY CalmAdvance
<1>4. "main" \in Context /\ Handler \subseteq Context
  BY DEF Context
<1> DEFINE Plain == Labels \ {"push", "erase", "fg_erase"}
<1>5. /\ {"prune", "next", "index", "fork", "flag", "set_pid", "wait", "unflag", "count",
          "fg_cont", "bg_cont", "kill_mark", "quit_read", "quit_poll", "quit_next",
          "send", "dispatch", "test_fg", "jobs", "fg", "bg", "kill", "quit kill",
          "prompt", "idle"} \subseteq Plain
  BY DEF Labels, Derefs
<1>6. \A c \in Context, l \in Plain :
        /\ Goto(c, l) /\ jobIndex' = jobIndex /\ (c = "main" \/ pID' = pID)
        /\ it' = it \/ \E id \in {0} \cup Ids : it' = [it EXCEPT ![c] = id]
        => Calm
  BY CalmMove
<1> HIDE DEF Plain
<1>7. ASSUME NEW c \in Context, BeginPrune(c) \/ KeepJob(c)
      PROVE  IteratorInv'
  BY <1>2, <1>3, <1>7, FirstOrNone, AfterOrNone DEF BeginPrune, KeepJob, Deref
<1>8. ASSUME NEW c \in Context, TestJob(c)
      PROVE  IteratorInv'
  BY <1>1, <1>8, IteratorTested
<1>9. ASSUME NEW c \in Context, EraseJob(c)
      PROVE  IteratorInv'
  <2>1. Position(it[c]) \in 1..Len(jobs) /\ jobs' = RemoveAt(jobs, Position(it[c]))
    BY <1>9, NodeType DEF EraseJob, EraseTo
  <2>2. Calm
    BY <1>3, <1>9, AfterOrNone DEF EraseJob, EraseTo, Deref
  <2> QED
    BY <1>1, <2>1, <2>2, Erased, IteratorsKept
<1>10. ASSUME NEW c \in Context, CountJobs(c)
      PROVE  IteratorInv'
  <2>1. CASE Goto(c, "index") /\ UNCHANGED <<active, it, locals, refused>>
    BY <1>2, <1>5, <1>6, <1>10, <2>1 DEF CountJobs, CountFor
  <2>2. CASE c = "main" /\ Prompt
    BY <1>2, <1>10, <2>2, CalmPrompt DEF CountJobs, CountFor
  <2>3. CASE c \in Handler /\ Return(c) /\ UNCHANGED <<it, locals>>
    BY <1>2, <1>10, <2>3, CalmReturn DEF CountJobs, CountFor
  <2> QED
    BY <1>10, <2>1, <2>2, <2>3 DEF CountJobs, CountFor, Context
<1>11. ASSUME NEW c \in Context, IncrementIndex(c)
      PROVE  IteratorInv'
  BY <1>11, IteratorNumbered
<1>12. ASSUME NEW c \in Context, PushJob(c)
      PROVE  IteratorInv'
  BY <1>12, IteratorPushed
<1>13. ASSUME ReadLine
      PROVE  IteratorInv'
  BY <1>2, <1>4, <1>5, <1>6, <1>13 DEF ReadLine, Step
<1>14. ASSUME ExeCmd
      PROVE  IteratorInv'
  <2>1. PICK c \in Command :
          \/ UNCHANGED <<pc, it, locals>>
          \/ Prompt
          \/ /\ c.op \notin {"quit", "other"}
             /\ Goto("main", IF c.op \in {"external", "background"} THEN "fork" ELSE c.op)
             /\ UNCHANGED <<shell, it, pID, time_wasted>>
    BY <1>14 DEF ExeCmd
  <2>2. c.op \notin {"quit", "other"} =>
          (IF c.op \in {"external", "background"} THEN "fork" ELSE c.op) \in Plain
    BY <1>5, CommandOp DEF Op
  <2>3. Calm
    <3>1. CASE UNCHANGED <<pc, it, locals>>
      BY <1>14, <3>1, CalmStill DEF ExeCmd
    <3>2. CASE Prompt
      BY <1>14, <3>2, CalmPrompt DEF ExeCmd
    <3>3. CASE ~UNCHANGED <<pc, it, locals>> /\ ~Prompt
      <4>1. /\ Goto("main", IF c.op \in {"external", "background"} THEN "fork" ELSE c.op)
            /\ c.op \notin {"quit", "other"} /\ it' = it
        BY <2>1, <3>3
      <4> QED
        BY <1>4, <1>6, <1>14, <2>2, <4>1 DEF ExeCmd
    <3> QED
      BY <3>1, <3>2, <3>3
  <2> QED
    BY <1>2, <1>14, <2>3 DEF ExeCmd
<1>15. ASSUME Fork
      PROVE  IteratorInv'
  <2>1. PICK l \in {"flag", "count"} : Goto("main", l)
    BY <1>15 DEF Fork
  <2> QED
    BY <1>2, <1>4, <1>5, <1>6, <1>15, <2>1 DEF Fork
<1>16. ASSUME ForkFails \/ ClearFlag
      PROVE  IteratorInv'
  BY <1>2, <1>16, CalmPrompt DEF ForkFails, ClearFlag
<1>17. ASSUME SetFlag \/ SetPid \/ Wait
      PROVE  IteratorInv'
  BY <1>2, <1>4, <1>5, <1>6, <1>17 DEF SetFlag, SetPid, Wait, WaitFor, Step
<1>18. ASSUME Walk
      PROVE  IteratorInv'
  <2>1. CASE WalkEnds
    BY <1>18, <2>1, IteratorRead
  <2>2. CASE ~WalkEnds
    BY <1>2, <1>18, <2>2, WalkFacts, CalmWalk
  <2> QED
    BY <2>1, <2>2
<1>20. ASSUME FgErase
      PROVE  IteratorInv'
  <2>1. /\ Position(it["main"]) \in 1..Len(jobs)
        /\ jobs' = RemoveAt(jobs, Position(it["main"]))
    BY <1>4, <1>20, NodeType DEF FgErase
  <2>2. Calm
    BY <1>4, <1>5, <1>6, <1>20 DEF FgErase, Step
  <2> QED
    BY <1>1, <2>1, <2>2, Erased, IteratorsKept
<1>21. ASSUME Resume("fg_cont", "flag")
      PROVE  IteratorInv'
  BY <1>2, <1>4, <1>5, <1>6, <1>21 DEF Resume, Step
<1>22. ASSUME BgMark
      PROVE  IteratorInv'
  <2>1. Calm
    BY <1>4, <1>5, <1>6, <1>22 DEF BgMark, Step
  <2> QED
    BY <1>1, <1>22, <2>1, MainMarks, Marked, IteratorsKept
<1>23. ASSUME BgResume
      PROVE  IteratorInv'
  BY <1>2, <1>23, CalmPrompt DEF BgResume
<1>24. ASSUME KillSend
      PROVE  IteratorInv'
  <2>1. CASE Prompt
    BY <1>2, <1>24, <2>1, CalmPrompt DEF KillSend
  <2>2. CASE Goto("main", "kill_mark") /\ UNCHANGED <<it, locals>>
    BY <1>2, <1>4, <1>5, <1>6, <1>24, <2>2 DEF KillSend
  <2> QED
    BY <1>24, <2>1, <2>2 DEF KillSend
<1>25. ASSUME KillMark
      PROVE  IteratorInv'
  <2>1. Calm
    BY <1>25, CalmPrompt DEF KillMark
  <2> QED
    BY <1>1, <1>25, <2>1, MainMarks, Marked, IteratorsKept
<1>26. ASSUME NEW id \in {0} \cup Ids, QuitNext(id), jobs' = jobs, jobIndex' = jobIndex,
             pID' = pID
      PROVE  IteratorInv'
  <2>1. CASE pc' = pc /\ it' = it
    BY <1>2, <1>26, <2>1, CalmStill
  <2>2. CASE Goto("main", "quit_read") /\ it' = [it EXCEPT !["main"] = id]
    BY <1>2, <1>4, <1>5, <1>6, <1>26, <2>2
  <2> QED
    BY <1>26, <2>1, <2>2 DEF QuitNext
<1>27. ASSUME QuitBegin \/ QuitStep
      PROVE  IteratorInv'
  BY <1>26, <1>27, FirstOrNone, AfterOrNone DEF QuitBegin, QuitStep, Deref
<1>28. ASSUME QuitTerm
      PROVE  IteratorInv'
  <2>1. CASE Prompt
    BY <1>2, <1>28, <2>1, CalmPrompt DEF QuitTerm
  <2>2. CASE Goto("main", "quit_poll") /\ UNCHANGED it
    BY <1>2, <1>4, <1>5, <1>6, <1>28, <2>2 DEF QuitTerm
  <2> QED
    BY <1>28, <2>1, <2>2 DEF QuitTerm
<1>29. ASSUME QuitPoll
      PROVE  IteratorInv'
  <2>1. jobs' = jobs /\ jobIndex' = jobIndex
    BY <1>29 DEF QuitPoll, PollUntil
  <2>2. CASE Prompt
    BY <1>2, <2>1, <2>2, CalmPrompt
  <2>3. CASE Goto("main", "quit_next") /\ UNCHANGED it
    BY <1>2, <1>4, <1>5, <1>6, <2>1, <2>3
  <2>4. CASE UNCHANGED <<pc, it, locals>>
    BY <1>2, <2>1, <2>4, CalmStill
  <2> QED
    BY <1>29, <2>2, <2>3, <2>4 DEF QuitPoll, PollUntil
<1>30. ASSUME NEW h \in Handler, TestForeground(h)
      PROVE  IteratorInv'
  <2>1. jobs' = jobs /\ jobIndex' = jobIndex /\ it' = it /\ pID' = pID
    BY <1>30 DEF TestForeground, TestFlag
  <2>2. CASE Return(h)
    BY <1>2, <2>1, <2>2, CalmReturn
  <2>3. CASE Goto(h, "count") \/ Goto(h, "send")
    BY <1>2, <1>4, <1>5, <1>6, <2>1, <2>3
  <2> QED
    BY <1>30, <2>2, <2>3 DEF TestForeground, TestFlag
<1>31. ASSUME NEW h \in Handler, NEW sig, NEW itself, Send(h, sig, itself)
      PROVE  IteratorInv'
  BY <1>2, <1>31, CalmReturn DEF Send
<1>32. ASSUME NEW h \in Handler, Signal(h)
      PROVE  IteratorInv'
  <2>1. /\ jobs' = jobs /\ jobIndex' = jobIndex /\ it' = it /\ pID' = pID
        /\ \A c \in Context : pc'[c] \in {"push", "erase", "fg_erase"} => pc'[c] = pc[c]
    BY <1>32 DEF Signal, TypeOK
  <2>2. Calm
    BY <1>4, <2>1 DEF Calm
  <2> QED
    BY <1>2, <2>1, <2>2
<1>33. ASSUME Tick \/ (\E c \in Context : Dangling(c)) \/ (\E p \in Pid : End(p))
               \/ (\E p \in Pid, sig \in {SIGSTOP, SIGCONT} : Outside(p, sig))
               \/ UNCHANGED vars
      PROVE  IteratorInv'
  <2>1. jobs' = jobs /\ jobIndex' = jobIndex /\ pc' = pc /\ it' = it /\ pID' = pID
    BY <1>33 DEF Tick, Dangling, End, Outside, vars
  <2> QED
    BY <1>2, <2>1, CalmStill
<1> QED
  <2>1. CASE UNCHANGED vars
    BY <1>33, <2>1
  <2>2. CASE \E c \in Context : remove_finished_jobs(c)
    BY <1>7, <1>8, <1>9, <2>2 DEF remove_finished_jobs
  <2>3. CASE \E c \in Context : add_job_to_jobs_list(c)
    BY <1>10, <1>11, <1>12, <2>3 DEF add_job_to_jobs_list
  <2>4. CASE Fork \/ ForkFails \/ SetFlag \/ SetPid \/ Wait \/ ClearFlag
    BY <1>15, <1>16, <1>17, <2>4
  <2>5. CASE fg
    BY <1>18, <1>20, <1>21, <2>5 DEF fg, Walk
  <2>6. CASE bg
    BY <1>18, <1>22, <1>23, <2>6 DEF bg, Walk
  <2>7. CASE kill
    BY <1>18, <1>24, <1>25, <2>7 DEF kill, Walk
  <2>8. CASE quit
    BY <1>18, <1>27, <1>28, <1>29, <2>8 DEF quit, Walk
  <2>9. CASE \/ \E h \in Handler : TestForeground(h) \/ Signal(h)
             \/ \E h \in Handler, sig \in {SIGKILL, SIGSTOP}, itself \in {"killed", "halted"} :
                  Send(h, sig, itself)
    BY <1>30, <1>31, <1>32, <2>9
  <2> QED
    BY <1>4, <1>13, <1>14, <1>18, <1>33, <2>1, <2>2, <2>3, <2>4, <2>5, <2>6, <2>7, <2>8, <2>9
       DEF Next, Run, main, ExeExternal, Walk, ctrlCFunction, ctrlZFunction, Handler

-----------------------------------------------------------------------------
(* Main and the process in the foreground *)

(* No step makes main and the handlers disagree on who is in the foreground*)
LEMMA ForegroundStep ==
  ASSUME TypeOK, Control, ForegroundInv, [Next]_vars
  PROVE  ForegroundInv'
<1> USE DEF locals, list, foreground, history
<1>1. ASSUME pc'["main"] = pc["main"], cmd' = cmd, pID' = pID,
             waite_for_fg' = waite_for_fg, fg_pid' = fg_pid
      PROVE  ForegroundInv'
  BY <1>1 DEF ForegroundInv
<1> DEFINE Held == {"set_pid", "wait", "unflag", "fg", "fg_last", "fg_find", "fg_erase",
                    "fg_cont"}
<1>2. ASSUME pc'["main"] \notin Held
      PROVE  ForegroundInv'
  BY <1>2 DEF ForegroundInv
<1>3. "main" \in Context /\ Handler \subseteq Context /\ "main" \notin Handler
  BY DEF Context, Handler
<1>4. \A l : Goto("main", l) => pc'["main"] = l
  BY <1>3 DEF TypeOK, Goto
<1>5. \A h \in Handler : \A l : Goto(h, l) => pc'["main"] = pc["main"]
  BY <1>3 DEF TypeOK, Goto
<1>6. ASSUME Prompt
      PROVE  ForegroundInv'
  BY <1>2, <1>4, <1>6 DEF Prompt
<1>7. ASSUME NEW h \in Handler, NEW l, Goto(h, l), cmd' = cmd, pID' = pID,
             waite_for_fg' = waite_for_fg, fg_pid' = fg_pid
      PROVE  ForegroundInv'
  BY <1>1, <1>5, <1>7
<1>8. ASSUME NEW c \in Context, remove_finished_jobs(c)
      PROVE  ForegroundInv'
  <2>1. /\ UNCHANGED <<locals, foreground>>
        /\ \E l \in {"test", "dispatch", "test_fg", "erase", "next"} : Goto(c, l)
    BY <1>8 DEF remove_finished_jobs, BeginPrune, TestJob, TestFor, EraseJob, EraseTo, KeepJob,
       Advance, AfterPrune, Context, Handler
  <2> QED
    BY <1>2, <1>4, <1>7, <2>1 DEF Context
<1>9. ASSUME NEW c \in Context, add_job_to_jobs_list(c)
      PROVE  ForegroundInv'
  <2>1. UNCHANGED foreground
    BY <1>9 DEF add_job_to_jobs_list, CountJobs, CountFor, IncrementIndex, IndexFrom, PushJob
  <2>2. CASE c = "main"
    <3>1. Prompt \/ \E l \in {"index", "push"} : Goto("main", l)
      BY <1>9, <2>2 DEF add_job_to_jobs_list, CountJobs, CountFor, IncrementIndex, IndexFrom,
         PushJob, Step
    <3> QED
      BY <1>2, <1>4, <1>6, <3>1
  <2>3. CASE c # "main"
    <3>1. UNCHANGED locals /\ \E l : Goto(c, l)
      BY <1>9, <2>3 DEF add_job_to_jobs_list, CountJobs, CountFor, IncrementIndex, IndexFrom,
         PushJob, Step, Return
    <3> QED
      BY <1>7, <2>1, <2>3, <3>1 DEF Context
  <2> QED
    BY <2>2, <2>3
<1>10. ASSUME ExeCmd
      PROVE  ForegroundInv'
  <2>1. PICK c \in Command :
          \/ UNCHANGED <<pc, it, locals>>
          \/ Prompt
          \/ /\ c.op \notin {"quit", "other"} /\ cmd' = c
             /\ Goto("main", IF c.op \in {"external", "background"} THEN "fork" ELSE c.op)
    BY <1>10 DEF ExeCmd
  <2>2. UNCHANGED foreground
    BY <1>10 DEF ExeCmd
  <2>3. CASE UNCHANGED <<pc, it, locals>>
    BY <1>1, <2>2, <2>3
  <2>4. CASE /\ c.op \notin {"quit", "other"} /\ cmd' = c
             /\ Goto("main", IF c.op \in {"external", "background"} THEN "fork" ELSE c.op)
    <3>1. CASE c.op = "fg"
      BY <1>4, <2>4, <3>1 DEF ForegroundInv
    <3>2. CASE c.op # "fg"
      <4>1. (IF c.op \in {"external", "background"} THEN "fork" ELSE c.op) \notin Held
        BY <3>2, CommandOp DEF Op
      <4> QED
        BY <1>2, <1>4, <2>4, <4>1
    <3> QED
      BY <3>1, <3>2
  <2> QED
    BY <1>6, <2>1, <2>3, <2>4
<1>11. ASSUME ReadLine \/ Fork \/ ForkFails \/ ClearFlag
      PROVE  ForegroundInv'
  <2>1. Prompt \/ \E l \in {"prune", "flag", "count"} : Goto("main", l)
    BY <1>11 DEF ReadLine, Step, Fork, ForkFails, ClearFlag
  <2> QED
    BY <1>2, <1>4, <1>6, <2>1
<1>12. ASSUME SetFlag
      PROVE  ForegroundInv'
  BY <1>4, <1>12 DEF SetFlag, Step, ForegroundInv
<1>13. ASSUME SetPid
      PROVE  ForegroundInv'
  BY <1>4, <1>13 DEF SetPid, Step, At, ForegroundInv
<1>14. ASSUME Wait
      PROVE  ForegroundInv'
  BY <1>4, <1>14 DEF Wait, WaitFor, Step, At, ForegroundInv
<1>15. ASSUME Walk
      PROVE  ForegroundInv'
  <2>1. CASE Prompt
    BY <1>6, <2>1
  <2>2. CASE ~Prompt
    <3>1. cmd' = cmd
      BY <1>15, <2>2, WalkFacts
    <3>2. pc'["main"] \in WalkTo
      BY <1>4, <1>15, WalkGoes
    <3>3. pc'["main"] \in {"fg_last", "fg_find", "fg_erase"} => cmd.op = "fg"
      BY <1>15, WalkFacts DEF ForegroundInv
    <3> QED
      BY <3>1, <3>2, <3>3 DEF ForegroundInv, WalkTo
  <2> QED
    BY <2>1, <2>2
<1>16. ASSUME FgErase
      PROVE  ForegroundInv'
  BY <1>4, <1>16 DEF FgErase, Step, At, ForegroundInv
<1>17. ASSUME Resume("fg_cont", "flag")
      PROVE  ForegroundInv'
  BY <1>2, <1>4, <1>17 DEF Resume, Step
<1>18. ASSUME BgMark \/ BgResume \/ KillSend \/ KillMark
      PROVE  ForegroundInv'
  <2>1. Prompt \/ \E l \in {"bg_cont", "kill_mark"} : Goto("main", l)
    BY <1>18 DEF BgMark, BgResume, KillSend, KillMark, Step
  <2> QED
    BY <1>2, <1>4, <1>6, <2>1
<1>19. ASSUME QuitBegin \/ QuitTerm \/ QuitPoll \/ QuitStep
      PROVE  ForegroundInv'
  <2>1. \/ Prompt
        \/ \E l \in {"quit_read", "quit_poll", "quit_next"} : Goto("main", l)
        \/ pc' = pc /\ UNCHANGED <<locals, foreground>>
    BY <1>19 DEF QuitBegin, QuitTerm, QuitPoll, PollUntil, QuitStep, QuitNext
  <2> QED
    BY <1>1, <1>2, <1>4, <1>6, <2>1
<1>20. ASSUME NEW h \in Handler,
             TestForeground(h) \/ \E sig, itself : Send(h, sig, itself)
      PROVE  ForegroundInv'
  <2>1. UNCHANGED <<locals, foreground>> /\ \E l : Goto(h, l)
    BY <1>20 DEF TestForeground, TestFlag, Send, Return
  <2> QED
    BY <1>7, <2>1
<1>21. ASSUME NEW h \in Handler, Signal(h)
      PROVE  ForegroundInv'
  <2>1. UNCHANGED <<locals, foreground>>
    BY <1>21 DEF Signal
  <2>2. h \in Context /\ h # "main" /\ pc \in [Context -> Labels]
    BY <1>3 DEF TypeOK
  <2>3. CASE pc' = [pc EXCEPT ![h] = "prune"]
    BY <1>1, <1>3, <2>1, <2>2, <2>3
  <2>4. CASE pc["main"] = "wait" /\ pc' = [pc EXCEPT ![h] = "prune", !["main"] = "unflag"]
    <3>1. pc'["main"] = "unflag"
      BY <1>3, <2>2, <2>4
    <3> QED
      BY <2>1, <2>4, <3>1 DEF ForegroundInv
  <2> QED
    BY <1>21, <2>3, <2>4 DEF Signal, At
<1>22. ASSUME Tick \/ (\E c \in Context : Dangling(c)) \/ (\E p \in Pid : End(p))
               \/ (\E p \in Pid, sig \in {SIGSTOP, SIGCONT} : Outside(p, sig))
               \/ UNCHANGED vars
      PROVE  ForegroundInv'
  BY <1>1, <1>22 DEF Tick, Dangling, End, Outside, vars
<1> HIDE DEF Held
<1> QED
  BY <1>3, <1>8, <1>9, <1>10, <1>11, <1>12, <1>13, <1>14, <1>15, <1>16, <1>17, <1>18,
     <1>19, <1>20, <1>21, <1>22
     DEF Next, Run, main, ExeExternal, Walk, fg, bg, kill, quit, ctrlCFunction, ctrlZFunction,
     Handler

-----------------------------------------------------------------------------
(* Where a living child is to be found *)

(* The entries of living processes stay in the list. *)
LEMMA ListedStays ==
  ASSUME NodesStay, NEW p \in Listed
  PROVE  p \in Listed'
<1>1. PICK j \in DOMAIN jobs : jobs[j].pid = p
  BY DEF Listed
<1>2. PICK i \in DOMAIN jobs' : SameNode(jobs'[i], jobs[j])
  BY DEF NodesStay
<1> QED
  BY <1>1, <1>2 DEF Listed, SameNode

LEMMA ListedErased ==
  ASSUME TypeOK, IteratorInv, NEW c \in Context, EraseJob(c),
         NEW p \in Listed \cap Pid, proc[p] \in Alive
  PROVE  p \in Listed'
<1>1. /\ pc[c] = "erase" /\ jobs' = RemoveAt(jobs, Position(it[c]))
      /\ Position(it[c]) \in 1..Len(jobs)
  BY NodeType DEF EraseJob, EraseTo, At
<1>2. Position(it[c]) \in DOMAIN jobs /\ jobs[Position(it[c])].jobid = it[c]
  BY PositionFacts DEF EraseJob, EraseTo, Deref, TypeOK
<1>3. Over(jobs[Position(it[c])].pid)
  BY <1>1, <1>2 DEF IteratorInv
<1>4. PICK j \in DOMAIN jobs : jobs[j].pid = p
  BY DEF Listed
<1>5. j # Position(it[c])
  BY <1>3, <1>4 DEF Over, Alive, Running
<1>6. PICK i \in DOMAIN jobs' : SameNode(jobs'[i], jobs[j])
  BY <1>1, <1>4, <1>5, Erased
<1> QED
  BY <1>4, <1>6 DEF Listed, SameNode

(* A step of main that has nobody in hand, before it and after             *)
LEMMA MainAside ==
  ASSUME NEW p \in Pid, ChildInv(p),
         pc["main"] \notin Holding, pc'["main"] \notin Holding,
         pc'["ctrlZ"] = pc["ctrlZ"], fg_pid' = fg_pid,
         refused' = refused, outside' = outside,
         proc'[p] \in Alive =>
           /\ proc[p] \in Alive
           /\ proc'[p] = proc[p] \/ proc'[p] \in Running \/ Found(p)
           /\ p \in Listed => p \in Listed'
           /\ pc'["main"] = "kill_send" /\ pID' = p => p \in Listed'
  PROVE  ChildInv(p)'
BY DEF ChildInv, InHand, Found, Refused, Holding

(* A step of somebody else *)
LEMMA MainWaits ==
  ASSUME NEW p \in Pid, ChildInv(p),
         pc'["main"] = pc["main"], pID' = pID, cmd' = cmd, fg_pid' = fg_pid,
         refused \subseteq refused', outside \subseteq outside',
         proc'[p] \in Alive =>
           /\ proc[p] \in Alive
           /\ proc'[p] = proc[p] \/ Found(p)'
           /\ p \in Listed => p \in Listed'
           /\ pc'["ctrlZ"] = "send" /\ fg_pid = p => pc["ctrlZ"] = "send" \/ p \in Listed'
           /\ pc["main"] = "unflag" /\ pID = p /\ HandlerToAct =>
                HandlerToAct' \/ Found(p)' \/ Refused(p)'
  PROVE  ChildInv(p)'
BY DEF ChildInv, InHand, Found, Refused

(* A step of main while it has somebody in hand *)
LEMMA MainHolds ==
  ASSUME TypeOK, StackInv, NEW p \in Pid, ChildInv(p), Current = "main",
         NEW l \in {"flag", "set_pid", "wait", "unflag", "fg_cont", "count", "index", "push",
                    "prompt"},
         Goto("main", l),
         proc'[p] \in Alive =>
           /\ Found(p)' \/ p \in InHand' \/ Refused(p)'
           /\ pID' = p =>
                /\ proc'[p] = "stopped" /\ l \notin {"prompt", "fg_cont"} => Found(p)'
                /\ proc'[p] = "continued" /\ cmd'.op = "external"
                     /\ l \in {"flag", "set_pid", "wait"} => Found(p)'
                /\ l = "unflag" => Found(p)' \/ Refused(p)'
  PROVE  ChildInv(p)'
<1>1. pc["ctrlZ"] = "idle"
  BY Runs DEF Context
<1>2. pc'["main"] = l /\ pc'["ctrlZ"] = "idle"
  BY <1>1 DEF Goto, TypeOK, Context, Handler
<1>3. SUFFICES ASSUME proc'[p] \in Alive
               PROVE  /\ Found(p)' \/ p \in InHand' \/ Refused(p)'
                      /\ pc'["ctrlZ"] = "send" /\ fg_pid' = p => p \in Listed'
                      /\ pID' = p =>
                           /\ proc'[p] = "stopped" /\ pc'["main"] \in Holding \ {"fg_cont"} =>
                                Found(p)'
                           /\ proc'[p] = "continued" /\ cmd'.op = "external"
                                /\ pc'["main"] \in {"flag", "set_pid", "wait"} => Found(p)'
                           /\ pc'["main"] = "unflag" =>
                                Found(p)' \/ Refused(p)' \/ HandlerToAct'
                           /\ pc'["main"] = "kill_send" => Found(p)'
  BY DEF ChildInv
<1>4. pc'["main"] \in Holding \ {"fg_cont"} => l \notin {"prompt", "fg_cont"}
  BY <1>2 DEF Holding
<1> QED
  BY <1>2, <1>3, <1>4

(* Handlers that prune the list *)
LEMMA PruneKeeps ==
  ASSUME TypeOK, Control, IteratorInv, NEW p \in Pid, ChildInv(p),
         NEW c \in Context, remove_finished_jobs(c)
  PROVE  ChildInv(p)'
<1> USE DEF locals, list, foreground, history
<1>1. /\ UNCHANGED <<cmd, pID, fg_pid, refused, outside>>
      /\ Current = c /\ pc[c] \in {"prune", "test", "erase", "next"}
  BY DEF remove_finished_jobs, BeginPrune, TestJob, TestFor, EraseJob, EraseTo, KeepJob, At
<1>2. PICK l \in {"test", "dispatch", "test_fg", "erase", "next"} :
        Goto(c, l) /\ (l = "dispatch" => c = "main")
  BY DEF remove_finished_jobs, BeginPrune, TestJob, TestFor, EraseJob, EraseTo, KeepJob,
     Advance, AfterPrune, Context, Handler
<1>3. pc'[c] = l /\ \A d \in Context : d # c => pc'[d] = pc[d]
  BY <1>2 DEF TypeOK, Goto
<1>4. proc'[p] \in Alive => proc'[p] = proc[p]
  <2>1. proc' = proc \/ \E q : Reap(q)
    BY DEF remove_finished_jobs, BeginPrune, TestJob, TestFor, EraseJob, EraseTo, KeepJob
  <2> QED
    BY <2>1, ReapFacts DEF TypeOK
<1>5. proc[p] \in Alive /\ p \in Listed => p \in Listed'
  <2>1. CASE EraseJob(c)
    BY <2>1, ListedErased
  <2>2. CASE ~EraseJob(c)
    <3>1. jobs' = jobs
      BY <2>2 DEF remove_finished_jobs, BeginPrune, TestJob, TestFor, KeepJob
    <3> QED
      BY <3>1, SameList, ListedStays
  <2> QED
    BY <2>1, <2>2
<1>6. CASE c = "main"
  <2>1. pc["main"] \notin Holding /\ pc'["main"] \notin Holding
    BY <1>1, <1>3, <1>6 DEF Holding
  <2>2. pc'["ctrlZ"] = pc["ctrlZ"]
    BY <1>3, <1>6 DEF Context, Handler
  <2>3. pc'["main"] # "kill_send"
    BY <1>3, <1>6
  <2> QED
    BY <1>1, <1>4, <1>5, <2>1, <2>2, <2>3, MainAside
<1>7. CASE c # "main"
  <2>1. pc'["main"] = pc["main"] /\ c \in Handler
    BY <1>3, <1>7 DEF Context
  <2>2. pc'["ctrlZ"] = "send" => pc["ctrlZ"] = "send"
    BY <1>2, <1>3 DEF Context, Handler
  <2>3. HandlerToAct'
    BY <1>2, <1>3, <2>1, <1>7 DEF HandlerToAct, Handler
  <2> QED
    BY <1>1, <1>4, <1>5, <2>1, <2>2, <2>3, MainWaits
<1> QED
  BY <1>6, <1>7

(* Main adds a background job, or says that it cannot. *)
LEMMA MainAdds ==
  ASSUME TypeOK, Control, NEW p \in Pid, ChildInv(p), add_job_to_jobs_list("main")
  PROVE  ChildInv(p)'
<1> USE DEF locals, list, foreground, history
<1>1. /\ Current = "main" /\ pc["main"] \in {"count", "index", "push"}
      /\ StackInv /\ proc' = proc /\ outside' = outside /\ refused \subseteq refused'
  BY DEF add_job_to_jobs_list, CountJobs, CountFor, IncrementIndex, IndexFrom, PushJob, At,
     Step, Control
<1>2. NodesStay
  BY SameList, Pushed
     DEF add_job_to_jobs_list, CountJobs, CountFor, IncrementIndex, IndexFrom, PushJob
<1>3. p \in Listed => p \in Listed'
  BY <1>2, ListedStays
<1>4. CASE \E l \in {"index", "push"} : Goto("main", l) /\ UNCHANGED <<cmd, pID>>
  <2>1. PICK l \in {"index", "push"} : Goto("main", l) /\ UNCHANGED <<cmd, pID>>
    BY <1>4
  <2>2. pc'["main"] = l
    BY <2>1 DEF TypeOK, Goto, Context
  <2>3. InHand' = InHand
    BY <1>1, <2>1, <2>2 DEF InHand, Holding
  <2>4. Found(p) => Found(p)'
    BY <1>1, <1>3 DEF Found
  <2>5. Refused(p) => Refused(p)'
    BY <1>1 DEF Refused
  <2>6. proc[p] \in Alive => Found(p)' \/ p \in InHand' \/ Refused(p)'
    BY <2>3, <2>4, <2>5 DEF ChildInv
  <2>7. proc[p] = "stopped" /\ pID = p => Found(p)'
    BY <1>1, <2>4 DEF ChildInv, Holding, Alive
  <2> QED
    BY <1>1, <2>1, <2>6, <2>7, MainHolds DEF Found
<1>5. CASE Prompt
  <2>1. Goto("main", "prompt") /\ pID' = 0
    BY <1>5 DEF Prompt
  <2>2. Found(p) => Found(p)'
    BY <1>1, <1>3 DEF Found
  <2>3. Refused(p) => Refused(p)'
    BY <1>1 DEF Refused
  <2>4. p # 0
    BY BoundAssumption DEF Pid
  <2>5. proc[p] \in Alive /\ pID = p => Found(p)' \/ Refused(p)'
    <3>1. CASE PushJob("main")
      <4>1. \E i \in DOMAIN jobs' : jobs'[i] = NewJob("main")
        BY <3>1, Pushed DEF PushJob
      <4>2. NewJob("main").pid = pID
        BY DEF NewJob
      <4> QED
        BY <4>1, <4>2 DEF Found, Listed
    <3>2. CASE CountJobs("main")
      <4>1. pc["main"] = "count" /\ pc'["main"] = "prompt"
        BY <3>2, <2>1 DEF CountJobs, CountFor, At, TypeOK, Goto, Context
      <4>2. refused' = refused \cup ({pID} \cap Pid)
        <5>1. ~Goto("main", "index")
          BY <4>1 DEF TypeOK, Goto, Context
        <5> QED
          BY <3>2, <5>1 DEF CountJobs, CountFor, NewPid
      <4>3. proc[p] = "stopped" /\ pID = p => Found(p)
        BY <4>1 DEF ChildInv, Holding, Alive
      <4> QED
        BY <1>1, <2>2, <4>2, <4>3 DEF Refused, Alive
    <3>3. ~IncrementIndex("main")
      BY <2>1 DEF IncrementIndex, IndexFrom, Step, TypeOK, Goto, Context
    <3> QED
      BY <3>1, <3>2, <3>3 DEF add_job_to_jobs_list
  <2>6. proc[p] \in Alive => Found(p)' \/ Refused(p)'
    BY <2>2, <2>3, <2>5 DEF ChildInv, InHand
  <2> QED
    BY <1>1, <2>1, <2>4, <2>6, MainHolds DEF Found
<1> QED
  BY <1>4, <1>5
     DEF add_job_to_jobs_list, CountJobs, CountFor, IncrementIndex, IndexFrom, PushJob, Step
-----------------------------------------------------------------------------
(* The handlers and a child *)

LEMMA HandlerLists ==
  ASSUME TypeOK, Control, ForegroundInv, NEW p \in Pid, ChildInv(p),
         add_job_to_jobs_list("ctrlZ")
  PROVE  ChildInv(p)'
<1> USE DEF locals, list, foreground, history
<1>1. /\ UNCHANGED <<cmd, pID, fg_pid, proc, outside>> /\ refused \subseteq refused'
      /\ pc["ctrlZ"] \in {"count", "index", "push"}
  BY DEF add_job_to_jobs_list, CountJobs, CountFor, IncrementIndex, IndexFrom, PushJob, At, Step
<1>2. PICK l \in {"index", "push", "send", "idle"} : Goto("ctrlZ", l)
  BY DEF add_job_to_jobs_list, CountJobs, CountFor, IncrementIndex, IndexFrom, PushJob, Step,
     Return
<1>3. pc'["ctrlZ"] = l /\ pc'["main"] = pc["main"] /\ pc'["ctrlC"] = pc["ctrlC"]
  BY <1>2 DEF TypeOK, Goto, Context, Handler
<1>4. NodesStay
  BY SameList, Pushed
     DEF add_job_to_jobs_list, CountJobs, CountFor, IncrementIndex, IndexFrom, PushJob
<1>5. p \in Listed => p \in Listed'
  BY <1>4, ListedStays
<1>6. pc["main"] = "unflag" /\ pID = p => fg_pid = p
  BY DEF ForegroundInv
<1>7. CASE l \in {"index", "push"}
  BY <1>1, <1>3, <1>5, <1>7, MainWaits DEF HandlerToAct
<1>8. CASE l = "send"
  <2>1. PushJob("ctrlZ")
    BY <1>2, <1>3, <1>8
       DEF add_job_to_jobs_list, CountJobs, CountFor, IncrementIndex, IndexFrom, Step, Return,
       TypeOK, Goto, Context, Handler
  <2>2. \E i \in DOMAIN jobs' : jobs'[i] = NewJob("ctrlZ")
    BY <2>1, Pushed DEF PushJob
  <2>3. NewJob("ctrlZ").pid = fg_pid
    BY DEF NewJob
  <2>4. fg_pid \in Listed'
    BY <2>2, <2>3 DEF Listed
  <2>5. pc["main"] = "unflag" /\ pID = p => Found(p)'
    BY <1>6, <2>4 DEF Found
  <2> QED
    BY <1>1, <1>3, <1>5, <1>8, <2>4, <2>5, MainWaits
<1>9. CASE l = "idle"
  <2>1. CountJobs("ctrlZ") /\ ~Goto("ctrlZ", "index")
    BY <1>2, <1>3, <1>9
       DEF add_job_to_jobs_list, IncrementIndex, IndexFrom, PushJob, Step,
       TypeOK, Goto, Context, Handler
  <2>2. refused' = refused \cup ({fg_pid} \cap Pid)
    BY <2>1 DEF CountJobs, CountFor, NewPid
  <2>3. ASSUME pc["main"] = "unflag", pID = p, proc[p] \in Alive
        PROVE  Found(p)' \/ Refused(p)'
    <3>1. p \in refused'
      BY <1>6, <2>2, <2>3
    <3>2. proc[p] = "stopped" => Found(p)
      BY <2>3 DEF ChildInv, Holding
    <3>3. Found(p) => Found(p)'
      BY <1>1, <1>5 DEF Found
    <3> QED
      BY <1>1, <2>3, <3>1, <3>2, <3>3 DEF Refused, Alive
  <2> QED
    BY <1>1, <1>3, <1>5, <1>9, <2>3, MainWaits
<1> QED
  BY <1>7, <1>8, <1>9

LEMMA HandlerTests ==
  ASSUME TypeOK, Control, ForegroundInv, NEW p \in Pid, ChildInv(p), NEW h \in Handler,
         TestForeground(h)
  PROVE  ChildInv(p)'
<1> USE DEF locals, list, foreground, history
<1>1. /\ UNCHANGED <<cmd, pID, fg_pid, proc, refused, outside, jobs>>
      /\ Goto(h, IF h = "ctrlZ" THEN "count" ELSE "send") \/ (~waite_for_fg /\ Goto(h, "idle"))
  BY DEF TestForeground, TestFlag, Return
<1>2. p \in Listed => p \in Listed'
  BY <1>1, SameList, ListedStays
<1>3. pc'["main"] = pc["main"]
  BY <1>1 DEF TypeOK, Goto, Context, Handler
<1>4. pc'["ctrlZ"] = "send" => pc["ctrlZ"] = "send"
  BY <1>1 DEF TypeOK, Goto, Context, Handler
<1>5. pc["main"] = "unflag" => HandlerToAct'
  <2>1. pc["main"] = "unflag" => waite_for_fg
    BY DEF ForegroundInv
  <2>2. Goto(h, IF h = "ctrlZ" THEN "count" ELSE "send") => HandlerToAct'
    BY DEF TypeOK, Goto, Context, Handler, HandlerToAct
  <2> QED
    BY <1>1, <2>1, <2>2
<1> QED
  BY <1>1, <1>2, <1>3, <1>4, <1>5, MainWaits

(* The handlers send their signals: that of ctrl-C leaves nobody, that of  *)
(* ctrl-Z has listed the one it stops.                                     *)
LEMMA HandlerSends ==
  ASSUME TypeOK, Control, ForegroundInv, NEW p \in Pid, ChildInv(p),
         Send("ctrlC", SIGKILL, "killed") \/ Send("ctrlZ", SIGSTOP, "halted")
  PROVE  ChildInv(p)'
<1> USE DEF locals, list, foreground, history
<1>1. /\ UNCHANGED <<cmd, pID, fg_pid, refused, outside, jobs>>
      /\ \E h \in Handler : Goto(h, "idle")
  BY DEF Send, Return, Handler
<1>2. p \in Listed => p \in Listed'
  BY <1>1, SameList, ListedStays
<1>3. pc'["main"] = pc["main"] /\ (pc'["ctrlZ"] = "send" => pc["ctrlZ"] = "send")
  BY <1>1 DEF TypeOK, Goto, Context, Handler
<1>4. pc["main"] = "unflag" /\ pID = p => fg_pid = p
  BY DEF ForegroundInv
<1>5. CASE fg_pid # p
  <2>1. proc'[p] = proc[p]
    <3>1. CASE fg_pid \in Pid /\ \E sig : Deliver(fg_pid, sig)
      BY <1>5, <3>1, DeliverFacts DEF TypeOK
    <3>2. CASE proc' = proc
      BY <3>2
    <3> QED
      BY <3>1, <3>2 DEF Send, Killable
  <2> QED
    BY <1>1, <1>2, <1>3, <1>4, <1>5, <2>1, MainWaits
<1>6. CASE fg_pid = p /\ Send("ctrlC", SIGKILL, "killed")
  <2>1. p # 0
    BY BoundAssumption DEF Pid
  <2>2. proc'[p] \notin Alive
    <3>1. CASE Deliver(p, SIGKILL)
      BY <3>1, DeliverFacts DEF TypeOK
    <3>2. CASE ~Killable(p) /\ proc' = proc
      BY <3>2 DEF Killable
    <3> QED
      BY <1>6, <2>1, <3>1, <3>2 DEF Send
  <2> QED
    BY <2>2 DEF ChildInv
<1>7. CASE fg_pid = p /\ Send("ctrlZ", SIGSTOP, "halted")
  <2>1. proc'[p] \in Alive => proc[p] \in Alive
    <3>1. CASE Deliver(p, SIGSTOP)
      BY <3>1, DeliverFacts DEF TypeOK
    <3>2. CASE proc' = proc
      BY <3>2
    <3> QED
      BY <1>7, <3>1, <3>2 DEF Send
  <2>2. proc[p] \in Alive => p \in Listed
    BY <1>7 DEF Send, At, ChildInv
  <2>3. proc'[p] \in Alive => Found(p)'
    BY <1>2, <2>1, <2>2 DEF Found
  <2> QED
    BY <1>1, <1>2, <1>3, <2>1, <2>3, MainWaits
<1> QED
  BY <1>5, <1>6, <1>7

(* A handler begins, and may end main's waitpid. *)
LEMMA HandlerBegins ==
  ASSUME TypeOK, Control, NEW p \in Pid, ChildInv(p), NEW h \in Handler, Signal(h)
  PROVE  ChildInv(p)'
<1> USE DEF locals, list, foreground, history
<1>1. /\ UNCHANGED <<cmd, pID, fg_pid, proc, refused, outside, jobs>>
  BY DEF Signal
<1>2. p \in Listed => p \in Listed'
  BY <1>1, SameList, ListedStays
<1>3. /\ pc'[h] = "prune"
      /\ \A g \in Handler \ {h} : pc'[g] = pc[g]
      /\ \/ pc'["main"] = pc["main"]
         \/ pc["main"] = "wait" /\ pc'["main"] = "unflag"
  <2>1. pc \in [Context -> Labels] /\ h \in Context /\ h # "main" /\ Handler \subseteq Context
    BY DEF TypeOK, Context, Handler
  <2>2. CASE pc' = [pc EXCEPT ![h] = "prune"]
    BY <2>1, <2>2 DEF Context
  <2>3. CASE pc["main"] = "wait" /\ pc' = [pc EXCEPT ![h] = "prune", !["main"] = "unflag"]
    BY <2>1, <2>3 DEF Context, Handler
  <2> QED
    BY <2>2, <2>3 DEF Signal, At
<1>4. HandlerToAct' /\ (pc'["ctrlZ"] = "send" => pc["ctrlZ"] = "send")
  BY <1>3 DEF HandlerToAct, Handler
<1>5. CASE pc'["main"] = pc["main"]
  BY <1>1, <1>2, <1>4, <1>5, MainWaits
<1>6. CASE pc["main"] = "wait" /\ pc'["main"] = "unflag"
  <2>1. InHand' = InHand
    BY <1>1, <1>6 DEF InHand, Holding
  <2>2. /\ Found(p) => Found(p)'
        /\ Refused(p) => Refused(p)'
    BY <1>1, <1>2 DEF Found, Refused
  <2>3. pID = p /\ proc[p] = "stopped" => Found(p)
    BY <1>6 DEF ChildInv, Holding, Alive
  <2> QED
    BY <1>1, <1>2, <1>4, <1>6, <2>1, <2>2, <2>3 DEF ChildInv
<1> QED
  BY <1>3, <1>5, <1>6

(* The processes, time, and the end of all that is defined *)
LEMMA OthersKeep ==
  ASSUME TypeOK, NEW p \in Pid, ChildInv(p),
         Tick \/ (\E c \in Context : Dangling(c)) \/ (\E q \in Pid : End(q))
           \/ (\E q \in Pid, sig \in {SIGSTOP, SIGCONT} : Outside(q, sig)) \/ UNCHANGED vars
  PROVE  ChildInv(p)'
<1> USE DEF vars, locals, list, foreground, history
<1>1. UNCHANGED <<pc, cmd, pID, fg_pid, refused, jobs>> /\ outside \subseteq outside'
  BY DEF Tick, Dangling, End, Outside
<1>2. p \in Listed => p \in Listed'
  BY <1>1, SameList, ListedStays
<1>3. HandlerToAct => HandlerToAct'
  BY <1>1 DEF HandlerToAct
<1>4. proc'[p] \in Alive => proc[p] \in Alive /\ (proc'[p] = proc[p] \/ Found(p)')
  <2>1. CASE proc' = proc
    BY <2>1
  <2>2. ASSUME NEW q \in Pid, End(q)
        PROVE  proc'[p] \in Alive => proc'[p] = proc[p]
    BY <2>2 DEF End, TypeOK, Alive, Running
  <2>3. ASSUME NEW q \in Pid, NEW sig, Outside(q, sig)
        PROVE  proc'[p] \in Alive => proc[p] \in Alive /\ (proc'[p] = proc[p] \/ Found(p)')
    BY <2>3, DeliverFacts DEF Outside, TypeOK, Found
  <2> QED
    BY <2>1, <2>2, <2>3 DEF Tick, Dangling
<1> QED
  BY <1>1, <1>2, <1>3, <1>4, MainWaits

-----------------------------------------------------------------------------
(* Main and a child *)

Elsewhere == Labels \ Holding

(* A step of main, with nobody in hand, that leaves the entries            *)
LEMMA MainPasses ==
  ASSUME TypeOK, NEW p \in Pid, ChildInv(p), pc["main"] \notin Holding,
         NEW l \in Elsewhere, pc' = pc \/ Goto("main", l),
         NodesStay, fg_pid' = fg_pid, refused' = refused, outside' = outside,
         proc'[p] \in Alive =>
           /\ proc[p] \in Alive
           /\ proc'[p] = proc[p] \/ proc'[p] \in Running \/ Found(p),
         pc'["main"] = "kill_send" /\ pID' = p => p \in Listed
  PROVE  ChildInv(p)'
<1>1. pc'["main"] \notin Holding /\ pc'["ctrlZ"] = pc["ctrlZ"]
  BY DEF TypeOK, Goto, Context, Handler, Elsewhere
<1>2. p \in Listed => p \in Listed'
  BY ListedStays
<1> QED
  BY <1>1, <1>2, MainAside

LEMMA MainWalks ==
  ASSUME TypeOK, NEW p \in Pid, ChildInv(p), Walk
  PROVE  ChildInv(p)'
<1> USE DEF locals, list, foreground, history
<1>1. UNCHANGED <<jobs, fg_pid, refused, outside, proc>> /\ pc["main"] \notin Holding
  BY WalkFacts DEF WalkFrom, Holding
<1>2. WalkTo \subseteq Elsewhere
  BY DEF WalkTo, Elsewhere, Labels, Derefs, DerefsBehind, Holding
<1>3. pc'["main"] = "kill_send" => pID' \in Listed
  <2>1. \A l : Goto("main", l) => pc'["main"] = l
    BY DEF Goto, TypeOK, Context
  <2>2. CASE WalkEnds
    BY <2>2, NodeType DEF WalkEnds, Node, Listed, Context
  <2>3. CASE ~WalkEnds
    BY <2>1, <2>3, WalkFacts DEF Prompt, WalkOn, WalkBack
  <2> QED
    BY <2>2, <2>3
<1> QED
  BY <1>1, <1>2, <1>3, WalkGoes, SameList, MainPasses

LEMMA MainLooks ==
  ASSUME TypeOK, NEW p \in Pid, ChildInv(p),
         ReadLine \/ ExeCmd \/ ForkFails \/ QuitBegin \/ QuitStep
  PROVE  ChildInv(p)'
<1> USE DEF locals, list, foreground, history
<1>1. UNCHANGED <<jobs, fg_pid, refused, outside, proc>>
  BY DEF ReadLine, ExeCmd, ForkFails, QuitBegin, QuitStep
<1>2. pc["main"] \in {"prompt", "dispatch", "fork", "quit kill", "quit_next"}
  BY DEF ReadLine, ExeCmd, ForkFails, QuitBegin, QuitStep, Step, At
<1> DEFINE L == {"prune", "prompt", "fork", "jobs", "fg", "bg", "kill", "quit kill",
                 "quit_read"}
<1>3. \E l \in L : pc' = pc \/ Goto("main", l)
  <2>1. CASE ReadLine \/ ForkFails \/ QuitBegin \/ QuitStep
    BY <2>1 DEF ReadLine, ForkFails, QuitBegin, QuitStep, QuitNext, Step, Prompt
  <2>2. CASE ExeCmd
    <3>1. PICK c \in Command :
            CASE c.op = "quit" -> shell' = "exited" /\ UNCHANGED <<pc, it, locals>>
              [] c.op = "other" -> Prompt /\ UNCHANGED shell
              [] OTHER ->
                   /\ Goto("main", IF c.op \in {"external", "background"} THEN "fork" ELSE c.op)
                   /\ cmd' = c
                   /\ UNCHANGED <<shell, it, pID, time_wasted>>
      BY <2>2 DEF ExeCmd
    <3>2. c.op \in Op
      BY CommandOp
    <3> QED
      BY <3>1, <3>2 DEF Op, Prompt
  <2> QED
    BY <2>1, <2>2
<1>4. L \subseteq Elsewhere
  BY DEF Elsewhere, Labels, Derefs, Holding
<1>5. pc'["main"] # "kill_send"
  BY <1>2, <1>3 DEF Goto, TypeOK, Context
<1> QED
  BY <1>1, <1>2, <1>3, <1>4, <1>5, SameList, MainPasses DEF Holding

(* bg, kill and quit kill: who gets a signal that may stop it is listed.   *)
LEMMA MainSignals ==
  ASSUME TypeOK, NEW p \in Pid, ChildInv(p),
         BgMark \/ BgResume \/ KillSend \/ KillMark \/ QuitTerm \/ QuitPoll
  PROVE  ChildInv(p)'
<1> USE DEF locals, list, foreground, history
<1>1. UNCHANGED <<fg_pid, refused, outside>>
  BY DEF BgMark, BgResume, KillSend, KillMark, QuitTerm, QuitPoll, PollUntil
<1>2. pc["main"] \in {"bg_mark", "bg_cont", "kill_send", "kill_mark", "quit_term", "quit_poll"}
  BY DEF BgMark, BgResume, KillSend, KillMark, QuitTerm, QuitPoll, PollUntil, Step, At
<1>3. \E l \in {"prompt", "bg_cont", "kill_mark", "quit_poll", "quit_next"} :
        (pc' = pc /\ QuitPoll) \/ Goto("main", l)
  BY DEF BgMark, BgResume, KillSend, KillMark, QuitTerm, QuitPoll, PollUntil, Step, Prompt
<1>4. {"prompt", "bg_cont", "kill_mark", "quit_poll", "quit_next"} \subseteq Elsewhere
  BY DEF Elsewhere, Labels, Derefs, Holding
<1>5. pc'["main"] # "kill_send"
  <2>1. QuitPoll => pc["main"] = "quit_poll"
    BY DEF QuitPoll, PollUntil, At
  <2> QED
    BY <1>3, <2>1 DEF Goto, TypeOK, Context
<1>6. NodesStay
  <2>1. CASE BgMark \/ KillMark
    BY <2>1, MainMarks, Marked
  <2>2. CASE jobs' = jobs
    BY <2>2, SameList
  <2> QED
    BY <2>1, <2>2 DEF BgResume, KillSend, QuitTerm, QuitPoll, PollUntil
<1>7. ASSUME proc'[p] \in Alive
      PROVE  /\ proc[p] \in Alive
             /\ proc'[p] = proc[p] \/ proc'[p] \in Running \/ Found(p)
  <2>1. proc \in [Pid -> ProcState]
    BY DEF TypeOK
  <2>2. CASE proc' = proc
    BY <1>7, <2>2
  <2>3. ASSUME NEW q \in Pid, NEW sig, Deliver(q, sig)
        PROVE  /\ proc[p] \in Alive
               /\ \/ proc'[p] = proc[p]
                  \/ proc'[p] \in Running
                  \/ q = p /\ sig \notin {SIGCONT, SIGTERM}
    BY <1>7, <2>1, <2>3, DeliverFacts
  <2>4. CASE KillSend
    <3>1. proc' = proc \/ (pID \in Pid /\ Deliver(pID, cmd.sig))
      BY <2>4 DEF KillSend, Killable
    <3>2. proc[p] \in Alive /\ pID = p => Found(p)
      BY <2>4 DEF KillSend, At, ChildInv
    <3> QED
      BY <2>2, <2>3, <3>1, <3>2
  <2>5. CASE BgResume
    <3>1. proc' = proc \/ (pID \in Pid /\ Deliver(pID, SIGCONT))
      BY <2>5 DEF BgResume, Killable
    <3> QED
      BY <2>2, <2>3, <3>1
  <2>6. CASE QuitTerm
    <3>1. proc' = proc \/ (pID \in Pid /\ Deliver(pID, SIGTERM))
      BY <2>6 DEF QuitTerm, Killable
    <3> QED
      BY <2>2, <2>3, <3>1
  <2>7. CASE QuitPoll
    <3>1. Reap(pID)
      BY <2>7 DEF QuitPoll, PollUntil
    <3> QED
      BY <1>7, <2>1, <3>1, ReapFacts
  <2> QED
    BY <2>2, <2>4, <2>5, <2>6, <2>7 DEF BgMark, KillMark
<1> QED
  BY <1>1, <1>2, <1>3, <1>4, <1>5, <1>6, <1>7, MainPasses DEF Holding

(* A new process, in main's hands *)
LEMMA MainForks ==
  ASSUME TypeOK, Control, NEW p \in Pid, ChildInv(p), Fork
  PROVE  ChildInv(p)'
<1> USE DEF locals, list, foreground, history
<1>1. PICK q \in Pid : proc' = [proc EXCEPT ![q] = "running"] /\ pID' = q
  BY DEF Fork
<1>2. PICK l \in {"flag", "count"} : Goto("main", l)
  BY DEF Fork
<1>3. /\ Current = "main" /\ pc["main"] = "fork" /\ StackInv
      /\ UNCHANGED <<jobs, refused, outside>>
  BY DEF Fork, At, Control
<1>4. pc'["main"] = l
  BY <1>2 DEF TypeOK, Goto, Context
<1>5. CASE p = q
  <2>1. proc'[p] = "running"
    BY <1>1, <1>5 DEF TypeOK
  <2>2. p \in InHand'
    BY <1>1, <1>4, <1>5 DEF InHand, Holding
  <2> QED
    BY <1>2, <1>3, <2>1, <2>2, MainHolds
<1>6. CASE p # q
  <2>1. proc'[p] = proc[p] /\ pID' # p
    BY <1>1, <1>6 DEF TypeOK
  <2>2. p \in Listed => p \in Listed'
    BY <1>3, SameList, ListedStays
  <2>3. proc[p] \in Alive => Found(p)' \/ Refused(p)'
    BY <1>3, <2>1, <2>2 DEF ChildInv, InHand, Holding, Found, Refused
  <2> QED
    BY <1>2, <1>3, <2>1, <2>3, MainHolds
<1> QED
  BY <1>5, <1>6

(* Main prepares to wait. *)
LEMMA MainPrepares ==
  ASSUME TypeOK, Control, NEW p \in Pid, ChildInv(p), SetFlag \/ SetPid
  PROVE  ChildInv(p)'
<1> USE DEF locals, list, foreground, history
<1>1. /\ Current = "main" /\ pc["main"] \in {"flag", "set_pid"} /\ StackInv
      /\ UNCHANGED <<jobs, refused, outside, proc, pID, cmd>>
  BY DEF SetFlag, SetPid, Step, At, Control
<1>2. PICK l \in {"set_pid", "wait"} : Goto("main", l)
  BY DEF SetFlag, SetPid, Step
<1>3. pc'["main"] = l
  BY <1>2 DEF TypeOK, Goto, Context
<1>4. p \in Listed => p \in Listed'
  BY <1>1, SameList, ListedStays
<1>5. /\ Found(p) => Found(p)'
      /\ Refused(p) => Refused(p)'
      /\ InHand' = InHand
  BY <1>1, <1>3, <1>4 DEF Found, Refused, InHand, Holding
<1>6. ASSUME proc'[p] \in Alive
      PROVE  /\ Found(p)' \/ p \in InHand' \/ Refused(p)'
             /\ pID' = p =>
                  /\ proc'[p] = "stopped" => Found(p)'
                  /\ proc'[p] = "continued" /\ cmd'.op = "external" => Found(p)'
  BY <1>1, <1>5, <1>6 DEF ChildInv, Holding
<1> QED
  BY <1>1, <1>2, <1>6, MainHolds

(* waitpid returns: whom it leaves alive without a handler, is known.      *)
LEMMA MainWaited ==
  ASSUME TypeOK, Control, NEW p \in Pid, ChildInv(p), Wait
  PROVE  ChildInv(p)'
<1> USE DEF locals, list, foreground, history
<1>1. /\ Current = "main" /\ pc["main"] = "wait" /\ StackInv /\ Goto("main", "unflag")
      /\ UNCHANGED <<jobs, refused, outside, pID, cmd>> /\ Reported(pID)
  BY DEF Wait, WaitFor, Step, At, Control
<1>2. p \in Listed => p \in Listed'
  BY <1>1, SameList, ListedStays
<1>3. Found(p) => Found(p)'
  BY <1>1, <1>2 DEF Found
<1>4. proc \in [Pid -> ProcState]
  BY DEF TypeOK
<1>5. CASE pID # p
  <2>1. proc'[p] \in Alive => proc'[p] = proc[p]
    BY <1>4, <1>5, WaitFacts
  <2>2. proc'[p] \in Alive => Found(p)' \/ Refused(p)'
    BY <1>1, <1>3, <1>5, <2>1 DEF ChildInv, InHand, Holding, Refused
  <2> QED
    BY <1>1, <1>5, <2>2, MainHolds
<1>6. CASE pID = p
  <2>1. proc'[p] \in Alive => proc[p] \in {"stopped", "continued"}
    <3>1. Over(p) => Over(p)'
      BY WaitFacts, <1>4 DEF OverStays
    <3> QED
      BY <1>1, <1>6, <3>1 DEF Reported, Over, Alive, Running
  <2>2. proc[p] = "stopped" => Found(p)
    BY <1>1, <1>6 DEF ChildInv, Holding, Alive
  <2>3. ASSUME proc[p] = "continued"
        PROVE  Found(p)
    <3>1. cmd.op = "external"
      BY <1>1, <1>6, <2>3 DEF Reported, Over
    <3> QED
      BY <1>1, <1>6, <2>3, <3>1 DEF ChildInv, Alive, Running
  <2>4. proc'[p] \in Alive => Found(p)'
    BY <1>3, <2>1, <2>2, <2>3
  <2> QED
    BY <1>1, <2>4, MainHolds
<1> QED
  BY <1>5, <1>6

(* Main lets go of the one in the foreground when no handler has to act.   *)
LEMMA MainLetsGo ==
  ASSUME TypeOK, Control, NEW p \in Pid, ChildInv(p), ClearFlag
  PROVE  ChildInv(p)'
<1> USE DEF locals, list, foreground, history
<1>1. /\ Current = "main" /\ pc["main"] = "unflag" /\ StackInv /\ Prompt
      /\ UNCHANGED <<jobs, refused, outside, proc>>
  BY DEF ClearFlag, At, Control
<1>2. Goto("main", "prompt") /\ pID' = 0
  BY <1>1 DEF Prompt
<1>3. p # 0
  BY BoundAssumption DEF Pid
<1>4. p \in Listed => p \in Listed'
  BY <1>1, SameList, ListedStays
<1>5. /\ Found(p) => Found(p)'
      /\ Refused(p) => Refused(p)'
  BY <1>1, <1>4 DEF Found, Refused
<1>6. ~HandlerToAct
  BY <1>1, Runs DEF HandlerToAct, Context
<1>7. proc[p] \in Alive => Found(p) \/ Refused(p)
  BY <1>1, <1>6 DEF ChildInv, InHand
<1> QED
  BY <1>1, <1>2, <1>3, <1>5, <1>7, MainHolds

(* fg takes an entry into its hands, *)
LEMMA MainTakes ==
  ASSUME TypeOK, Control, IteratorInv, NEW p \in Pid, ChildInv(p), FgErase
  PROVE  ChildInv(p)'
<1> USE DEF locals, list, foreground, history
<1>1. /\ Current = "main" /\ pc["main"] = "fg_erase" /\ StackInv /\ Goto("main", "fg_cont")
      /\ UNCHANGED <<refused, outside, proc, pID>>
      /\ Deref("main") /\ jobs' = RemoveAt(jobs, Position(it["main"]))
  BY DEF FgErase, Step, At, Control
<1>2. /\ Position(it["main"]) \in 1..Len(jobs) /\ Position(it["main"]) \in DOMAIN jobs
      /\ jobs[Position(it["main"])].jobid = it["main"]
  BY <1>1, PositionFacts DEF Deref, TypeOK
<1>3. jobs[Position(it["main"])].pid = pID
  BY <1>1, <1>2 DEF IteratorInv
<1>4. pc'["main"] = "fg_cont"
  BY <1>1 DEF TypeOK, Goto, Context
<1>5. InHand' = {pID}
  BY <1>1, <1>4 DEF InHand, Holding
<1>6. ASSUME p \in Listed
      PROVE  p \in Listed' \/ p = pID
  <2>1. PICK j \in DOMAIN jobs : jobs[j].pid = p
    BY <1>6 DEF Listed
  <2>2. CASE j = Position(it["main"])
    BY <2>1, <2>2, <1>3
  <2>3. CASE j # Position(it["main"])
    <3>1. PICK i \in DOMAIN jobs' : SameNode(jobs'[i], jobs[j])
      BY <1>1, <1>2, <2>1, <2>3, Erased
    <3> QED
      BY <2>1, <3>1 DEF Listed, SameNode
  <2> QED
    BY <2>2, <2>3
<1>7. proc[p] \in Alive => Found(p)' \/ p \in InHand' \/ Refused(p)'
  BY <1>1, <1>5, <1>6 DEF ChildInv, InHand, Holding, Found, Refused
<1> QED
  BY <1>1, <1>7, MainHolds

(* and resumes it. *)
LEMMA MainResumes ==
  ASSUME TypeOK, Control, ForegroundInv, NEW p \in Pid, ChildInv(p),
         Resume("fg_cont", "flag")
  PROVE  ChildInv(p)'
<1> USE DEF locals, list, foreground, history
<1>1. /\ Current = "main" /\ pc["main"] = "fg_cont" /\ StackInv /\ Goto("main", "flag")
      /\ UNCHANGED <<jobs, refused, outside, pID, cmd>>
      /\ IF Killable(pID) THEN Deliver(pID, SIGCONT) ELSE proc' = proc
  BY DEF Resume, Step, At, Control
<1>2. cmd.op # "external"
  BY <1>1 DEF ForegroundInv
<1>3. pc'["main"] = "flag"
  BY <1>1 DEF TypeOK, Goto, Context
<1>4. p \in Listed => p \in Listed'
  BY <1>1, SameList, ListedStays
<1>5. Found(p) => Found(p)'
  BY <1>1, <1>4 DEF Found
<1>6. CASE pID # p
  <2>1. proc'[p] = proc[p]
    BY <1>1, <1>6, DeliverFacts DEF Killable, TypeOK
  <2>2. proc[p] \in Alive => Found(p)' \/ Refused(p)'
    BY <1>1, <1>5, <1>6, <2>1 DEF ChildInv, InHand, Holding, Refused
  <2> QED
    BY <1>1, <1>6, <2>1, <2>2, MainHolds
<1>7. CASE pID = p
  <2>1. p \in InHand'
    BY <1>1, <1>3, <1>7 DEF InHand, Holding
  <2>2. proc'[p] \in Alive => proc'[p] \in Running
    <3>1. CASE Deliver(p, SIGCONT)
      BY <3>1, DeliverFacts DEF TypeOK
    <3>2. CASE ~Killable(p) /\ proc' = proc
      BY <3>2 DEF Killable
    <3> QED
      BY <1>1, <1>7, <3>1, <3>2
  <2>3. "stopped" \notin Running
    BY DEF Running
  <2> QED
    BY <1>1, <1>2, <2>1, <2>2, <2>3, MainHolds
<1> QED
  BY <1>6, <1>7

(* No step loses a living child. *)
LEMMA ChildStep ==
  ASSUME TypeOK, Control, IteratorInv, ForegroundInv, NEW p \in Pid, ChildInv(p), [Next]_vars
  PROVE  ChildInv(p)'
<1>1. CASE \E c \in Context : remove_finished_jobs(c)
  BY <1>1, PruneKeeps
<1>2. CASE add_job_to_jobs_list("main")
  BY <1>2, MainAdds
<1>3. CASE add_job_to_jobs_list("ctrlZ")
  BY <1>3, HandlerLists
<1>4. CASE \E h \in Handler : TestForeground(h)
  BY <1>4, HandlerTests
<1>5. CASE Send("ctrlC", SIGKILL, "killed") \/ Send("ctrlZ", SIGSTOP, "halted")
  BY <1>5, HandlerSends
<1>6. CASE \E h \in Handler : Signal(h)
  BY <1>6, HandlerBegins
<1>7. CASE Tick \/ (\E c \in Context : Dangling(c)) \/ (\E q \in Pid : End(q))
             \/ (\E q \in Pid, sig \in {SIGSTOP, SIGCONT} : Outside(q, sig)) \/ UNCHANGED vars
  BY <1>7, OthersKeep
<1>8. CASE ReadLine \/ ExeCmd \/ ForkFails \/ QuitBegin \/ QuitStep \/ Walk
  BY <1>8, MainLooks, MainWalks
<1>9. CASE BgMark \/ BgResume \/ KillSend \/ KillMark \/ QuitTerm \/ QuitPoll
  BY <1>9, MainSignals
<1>10. CASE Fork
  BY <1>10, MainForks
<1>11. CASE SetFlag \/ SetPid
  BY <1>11, MainPrepares
<1>12. CASE Wait
  BY <1>12, MainWaited
<1>13. CASE ClearFlag
  BY <1>13, MainLetsGo
<1>14. CASE FgErase
  BY <1>14, MainTakes
<1>15. CASE Resume("fg_cont", "flag")
  BY <1>15, MainResumes
<1>16. {"main", "ctrlC", "ctrlZ"} \subseteq Context /\ {"ctrlC", "ctrlZ"} \subseteq Handler
  BY DEF Context, Handler
<1> QED
  BY <1>1, <1>2, <1>3, <1>4, <1>5, <1>6, <1>7, <1>8, <1>9, <1>10, <1>11, <1>12, <1>13,
     <1>14, <1>15, <1>16
     DEF Next, Run, main, ctrlCFunction, ctrlZFunction, ExeExternal, Walk, fg, bg, kill, quit

-----------------------------------------------------------------------------
(* What leaves the list *)

LEMMA OnlyFinishedStep ==
  ASSUME TypeOK, IteratorInv, [Next]_vars, NEW i \in DOMAIN jobs
  PROVE  \/ \E j \in DOMAIN jobs' : jobs'[j].jobid = jobs[i].jobid
         \/ Over(jobs[i].pid)
         \/ pc["main"] = "fg_erase" /\ Current = "main"
<1> USE DEF vars, locals, list, foreground, history
<1>1. CASE jobs' = jobs
  BY <1>1
<1>2. ASSUME NEW c \in Context, EraseJob(c)
      PROVE  Over(jobs[i].pid) \/ \E j \in DOMAIN jobs' : jobs'[j].jobid = jobs[i].jobid
  <2>1. /\ Deref(c) /\ pc[c] = "erase" /\ jobs' = RemoveAt(jobs, Position(it[c]))
    BY <1>2 DEF EraseJob, EraseTo, At
  <2>2. /\ Position(it[c]) \in 1..Len(jobs)
        /\ jobs[Position(it[c])].jobid = it[c]
    BY <2>1, PositionFacts DEF Deref, TypeOK
  <2>3. CASE i = Position(it[c])
    BY <2>1, <2>2, <2>3 DEF IteratorInv
  <2>4. CASE i # Position(it[c])
    <3>1. \E j \in DOMAIN jobs' : SameNode(jobs'[j], jobs[i])
      BY <2>1, <2>2, <2>4, Erased
    <3> QED
      BY <3>1 DEF SameNode
  <2> QED
    BY <2>3, <2>4
<1>3. CASE NodesStay
  BY <1>3 DEF NodesStay, SameNode
<1>4. ASSUME NEW c \in Context, PushJob(c)
      PROVE  NodesStay
  BY <1>4, Pushed DEF PushJob
<1>5. CASE BgMark \/ KillMark
  BY <1>3, <1>5, MainMarks, Marked
<1>6. CASE FgErase
  BY <1>6 DEF FgErase, Step, At
<1>7. ASSUME NEW c \in Context, BeginPrune(c) \/ TestJob(c) \/ KeepJob(c) \/ CountJobs(c)
               \/ IncrementIndex(c) \/ Dangling(c)
      PROVE  jobs' = jobs
  BY <1>7 DEF BeginPrune, TestJob, TestFor, KeepJob, CountJobs, CountFor,
     IncrementIndex, IndexFrom, Dangling
<1>8. ASSUME ReadLine \/ ExeCmd \/ Fork \/ ForkFails \/ SetFlag \/ SetPid \/ Wait \/ ClearFlag
               \/ Resume("fg_cont", "flag") \/ BgResume \/ KillSend
      PROVE  jobs' = jobs
  BY <1>8 DEF ReadLine, ExeCmd, Fork, ForkFails, SetFlag, SetPid, Wait, WaitFor, ClearFlag,
     Resume, BgResume, KillSend
<1>9. ASSUME Walk \/ QuitBegin \/ QuitTerm \/ QuitPoll \/ QuitStep \/ Tick
      PROVE  jobs' = jobs
  BY <1>9, WalkFacts DEF QuitBegin, QuitTerm, QuitPoll, PollUntil, QuitStep, Tick
<1>10. ASSUME NEW h \in Handler,
              TestForeground(h) \/ Signal(h) \/ \E sig, itself : Send(h, sig, itself)
       PROVE  jobs' = jobs
  BY <1>10 DEF TestForeground, TestFlag, Signal, Send
<1>11. ASSUME NEW p \in Pid, End(p) \/ \E sig \in {SIGSTOP, SIGCONT} : Outside(p, sig)
       PROVE  jobs' = jobs
  BY <1>11 DEF End, Outside
<1>12. {"main", "ctrlC", "ctrlZ"} \subseteq Context /\ {"ctrlC", "ctrlZ"} \subseteq Handler
  BY DEF Context, Handler
<1> QED
  BY <1>1, <1>2, <1>3, <1>4, <1>5, <1>6, <1>7, <1>8, <1>9, <1>10, <1>11, <1>12
     DEF Next, Run, main, ctrlCFunction, ctrlZFunction, remove_finished_jobs,
     add_job_to_jobs_list, ExeExternal, Walk, fg, bg, kill, quit

-----------------------------------------------------------------------------
(* What an iterator in use refers to *)

(* A step after which every iterator in use is where it was, or at an      *)
(* entry                                                                   *)
Anchored ==
  \A c \in Context :
    pc'[c] \in Visiting => it'[c] \in Ids \/ (pc[c] \in Visiting /\ it'[c] = it[c])

LEMMA AnchoredMove ==
  ASSUME TypeOK, NEW c \in Context, NEW l, Goto(c, l),
         \/ it' = it /\ (l \in Visiting => pc[c] \in Visiting)
         \/ \E id \in {0} \cup Ids : /\ it' = [it EXCEPT ![c] = id]
                                     /\ l \in Visiting => id \in Ids
  PROVE  Anchored
<1>1. pc'[c] = l /\ \A d \in Context : d # c => pc'[d] = pc[d]
  BY DEF TypeOK, Goto
<1>2. /\ \/ it'[c] = it[c] /\ (l \in Visiting => pc[c] \in Visiting)
         \/ l \in Visiting => it'[c] \in Ids
      /\ \A d \in Context : d # c => it'[d] = it[d]
  BY DEF TypeOK
<1> QED
  BY <1>1, <1>2 DEF Anchored

LEMMA AnchoredStill ==
  ASSUME pc' = pc, it' = it
  PROVE  Anchored
BY DEF Anchored

LEMMA AnchoredPrompt ==
  ASSUME TypeOK, Prompt
  PROVE  Anchored
<1>1. "prompt" \notin Visiting /\ "main" \in Context
  BY DEF Visiting, Derefs, Context
<1> QED
  BY <1>1, AnchoredMove DEF Prompt

LEMMA AnchoredReturn ==
  ASSUME TypeOK, NEW h \in Handler, Return(h), it' = it
  PROVE  Anchored
<1>1. "idle" \notin Visiting /\ h \in Context
  BY DEF Visiting, Derefs, Context
<1> QED
  BY <1>1, AnchoredMove DEF Return

LEMMA AnchoredAdvance ==
  ASSUME TypeOK, NEW c \in Context, NEW id \in {0} \cup Ids, Advance(c, id)
  PROVE  Anchored
<1>1. AfterPrune[c] \notin Visiting
  BY DEF AfterPrune, Visiting, Derefs, Context, Handler
<1>2. CASE id = 0
  <2>1. Goto(c, AfterPrune[c])
    BY <1>2 DEF Advance
  <2> QED
    BY <1>1, <2>1, AnchoredMove DEF Advance
<1>3. CASE id # 0
  <2>1. Goto(c, "test")
    BY <1>3 DEF Advance
  <2> QED
    BY <1>3, <2>1, AnchoredMove DEF Advance
<1> QED
  BY <1>2, <1>3

(* Entries that stay keep their ids. *)
LEMMA IdsStay ==
  ASSUME NodesStay
  PROVE  Ids \subseteq Ids'
BY DEF NodesStay, SameNode, Ids

(* An iterator whose own node is gone                                      *)
Ahead(c) == pc[c] \in Visiting /\ ~Deref(c)

(* Such a step leaves nobody's iterator without its node, if entries stay. *)
LEMMA NobodyDetached ==
  ASSUME Anchored, Ids \subseteq Ids', NEW c \in Context, ~Ahead(c)
  PROVE  ~Ahead(c)'
BY DEF Anchored, Ahead, Deref

(* Two kinds of steps take entries off the list; all others are such.      *)
LEMMA AnchoredStep ==
  ASSUME TypeOK, [Next]_vars, ~FgErase, \A c \in Context : ~EraseJob(c)
  PROVE  Anchored /\ Ids \subseteq Ids'
<1> USE DEF vars, locals, list, foreground, history
<1> DEFINE Goal == Anchored /\ Ids \subseteq Ids'
<1>1. ASSUME Anchored, jobs' = jobs
      PROVE  Goal
  BY <1>1, SameList, IdsStay
<1>2. "main" \in Context /\ Handler \subseteq Context
  BY DEF Context
<1>3. /\ {"erase", "next", "test", "fg_find", "kill_find", "kill_send", "kill_mark",
          "quit_read", "quit_term", "quit_poll", "quit_next"} \subseteq Visiting
      /\ {"idle", "prune", "index", "push", "fork", "flag", "set_pid", "wait", "unflag",
          "count", "jobs", "fg", "fg_cont", "fg_last", "bg", "bg_find", "bg_next",
          "bg_test", "bg_pid", "bg_mark", "bg_cont", "kill", "quit kill", "send",
          "prompt"} \cap Visiting = {}
  BY DEF Visiting, Derefs
<1>4. \A l : \A c \in Context : Goto(c, l) /\ it' = it /\ l \notin Visiting => Anchored
  BY AnchoredMove
<1>5. \A l : \A c \in Context : Goto(c, l) /\ it' = it /\ pc[c] \in Visiting => Anchored
  BY AnchoredMove
<1>6. ASSUME NEW c \in Context, BeginPrune(c) \/ KeepJob(c)
      PROVE  Goal
  <2>1. PICK id \in {0} \cup Ids : Advance(c, id)
    BY <1>6, FirstOrNone, AfterOrNone DEF BeginPrune, KeepJob, Deref
  <2> QED
    BY <1>1, <1>6, <2>1, AnchoredAdvance DEF BeginPrune, KeepJob
<1>7. ASSUME NEW c \in Context, TestJob(c)
      PROVE  Goal
  BY <1>1, <1>3, <1>5, <1>7 DEF TestJob, TestFor, At
<1>8. ASSUME NEW c \in Context, CountJobs(c)
      PROVE  Goal
  <2>1. CASE Goto(c, "index") /\ UNCHANGED <<active, it, locals, refused>>
    BY <1>1, <1>3, <1>4, <1>8, <2>1 DEF CountJobs, CountFor
  <2>2. CASE c = "main" /\ Prompt
    BY <1>1, <1>8, <2>2, AnchoredPrompt DEF CountJobs, CountFor
  <2>3. CASE c \in Handler /\ Return(c) /\ UNCHANGED <<it, locals>>
    BY <1>1, <1>8, <2>3, AnchoredReturn DEF CountJobs, CountFor
  <2> QED
    BY <1>8, <2>1, <2>2, <2>3 DEF CountJobs, CountFor, Context
<1>9. ASSUME NEW c \in Context, IncrementIndex(c)
      PROVE  Goal
  BY <1>1, <1>3, <1>4, <1>9 DEF IncrementIndex, IndexFrom, Step
<1>10. ASSUME NEW c \in Context, PushJob(c)
       PROVE  Goal
  <2>1. NodesStay
    BY <1>10, Pushed DEF PushJob
  <2>2. CASE Prompt
    BY <2>1, <2>2, IdsStay, AnchoredPrompt
  <2>3. CASE Goto(c, "send") /\ it' = it
    BY <1>3, <1>4, <2>1, <2>3, IdsStay
  <2> QED
    BY <1>10, <2>2, <2>3 DEF PushJob
<1>11. ASSUME ReadLine \/ SetFlag \/ SetPid \/ Wait \/ Resume("fg_cont", "flag")
       PROVE  Goal
  <2>1. \E l \in {"prune", "set_pid", "wait", "unflag", "flag"} :
          Goto("main", l) /\ it' = it /\ jobs' = jobs
    BY <1>11 DEF ReadLine, SetFlag, SetPid, Wait, WaitFor, Resume, Step
  <2> QED
    BY <1>1, <1>2, <1>3, <1>4, <2>1
<1>12. ASSUME Fork
       PROVE  Goal
  <2>1. PICK l \in {"flag", "count"} : Goto("main", l)
    BY <1>12 DEF Fork
  <2> QED
    BY <1>1, <1>2, <1>3, <1>4, <1>12, <2>1 DEF Fork
<1>13. ASSUME ForkFails \/ ClearFlag \/ BgResume
       PROVE  Goal
  BY <1>1, <1>13, AnchoredPrompt DEF ForkFails, ClearFlag, BgResume
<1>14. ASSUME ExeCmd
       PROVE  Goal
  <2>1. PICK c \in Command :
          \/ UNCHANGED <<pc, it, locals>>
          \/ Prompt
          \/ /\ c.op \notin {"quit", "other"}
             /\ Goto("main", IF c.op \in {"external", "background"} THEN "fork" ELSE c.op)
             /\ UNCHANGED <<shell, it, pID, time_wasted>>
    BY <1>14 DEF ExeCmd
  <2>2. c.op \notin {"quit", "other"} =>
          (IF c.op \in {"external", "background"} THEN "fork" ELSE c.op) \notin Visiting
    BY <1>3, CommandOp DEF Op
  <2>3. Anchored
    <3>1. CASE UNCHANGED <<pc, it, locals>>
      BY <3>1, AnchoredStill
    <3>2. CASE Prompt
      BY <3>2, AnchoredPrompt
    <3>3. CASE ~UNCHANGED <<pc, it, locals>> /\ ~Prompt
      BY <1>2, <1>4, <2>1, <2>2, <3>3
    <3> QED
      BY <3>1, <3>2, <3>3
  <2> QED
    BY <1>1, <1>14, <2>3 DEF ExeCmd
<1>15. ASSUME Walk
       PROVE  Goal
  <2>1. jobs' = jobs
    BY <1>15, WalkFacts
  <2>2. CASE Prompt
    BY <1>1, <2>1, <2>2, AnchoredPrompt
  <2>3. CASE WalkOn
    BY <1>1, <1>2, <2>1, <2>3, AnchoredMove DEF WalkOn
  <2>4. CASE WalkBack
    <3>1. PICK l \in {"fg_last", "bg_find", "bg_next", "bg_test", "bg_pid", "bg_mark"} :
            Goto("main", l)
      BY <2>4 DEF WalkBack
    <3>2. it' = it \/ \E id \in {0} \cup Ids : it' = [it EXCEPT !["main"] = id]
      BY <2>4, BehindType DEF WalkBack
    <3>3. l \notin Visiting
      BY <1>3
    <3> QED
      BY <1>1, <1>2, <2>1, <3>1, <3>2, <3>3, AnchoredMove
  <2>5. CASE WalkEnds
    <3>1. PICK l : Goto("main", l)
      BY <2>5 DEF WalkEnds
    <3>2. it' = it /\ pc["main"] \in Visiting
      BY <1>3, <2>5 DEF WalkEnds
    <3> QED
      BY <1>1, <1>2, <1>5, <2>1, <3>1, <3>2
  <2> QED
    BY <1>15, <2>2, <2>3, <2>4, <2>5, WalkFacts
<1>17. ASSUME BgMark
       PROVE  Goal
  <2>1. NodesStay
    BY <1>17, MainMarks, Marked
  <2>2. Goto("main", "bg_cont") /\ it' = [it EXCEPT !["main"] = 0]
    BY <1>17 DEF BgMark, Step
  <2>3. "bg_cont" \notin Visiting
    BY <1>3
  <2> QED
    BY <1>2, <2>1, <2>2, <2>3, IdsStay, AnchoredMove
<1>18. ASSUME KillMark
       PROVE  Goal
  BY <1>18, MainMarks, Marked, IdsStay, AnchoredPrompt DEF KillMark
<1>19. ASSUME KillSend \/ QuitTerm \/ QuitPoll
       PROVE  Goal
  <2>1. jobs' = jobs /\ pc["main"] \in Visiting
    BY <1>3, <1>19 DEF KillSend, QuitTerm, QuitPoll, PollUntil, At
  <2>2. \/ Prompt
        \/ it' = it /\ \E l : Goto("main", l)
        \/ pc' = pc /\ it' = it
    BY <1>19 DEF KillSend, QuitTerm, QuitPoll, PollUntil
  <2> QED
    BY <1>1, <1>2, <1>5, <2>1, <2>2, AnchoredPrompt, AnchoredStill
<1>20. ASSUME QuitBegin \/ QuitStep
       PROVE  Goal
  <2>1. PICK id \in {0} \cup Ids : QuitNext(id)
    BY <1>20, FirstOrNone, AfterOrNone DEF QuitBegin, QuitStep, Deref
  <2>2. CASE id = 0
    BY <1>1, <1>20, <2>1, <2>2, AnchoredStill DEF QuitNext, QuitBegin, QuitStep
  <2>3. CASE id # 0
    BY <1>1, <1>2, <1>20, <2>1, <2>3, AnchoredMove DEF QuitNext, QuitBegin, QuitStep
  <2> QED
    BY <2>2, <2>3
<1>21. ASSUME NEW h \in Handler, TestForeground(h)
       PROVE  Goal
  <2>1. jobs' = jobs /\ it' = it
    BY <1>21 DEF TestForeground, TestFlag
  <2>2. CASE Return(h)
    BY <1>1, <2>1, <2>2, AnchoredReturn
  <2>3. CASE Goto(h, "count") \/ Goto(h, "send")
    BY <1>1, <1>2, <1>3, <1>4, <2>1, <2>3
  <2> QED
    BY <1>21, <2>2, <2>3 DEF TestForeground, TestFlag
<1>22. ASSUME NEW h \in Handler, NEW sig, NEW itself, Send(h, sig, itself)
       PROVE  Goal
  BY <1>1, <1>22, AnchoredReturn DEF Send
<1>23. ASSUME NEW h \in Handler, Signal(h)
       PROVE  Goal
  <2>1. /\ jobs' = jobs /\ it' = it
        /\ \A c \in Context : pc'[c] \in {"prune", "unflag"} \/ pc'[c] = pc[c]
    BY <1>23 DEF Signal, TypeOK
  <2>2. Anchored
    BY <1>3, <2>1 DEF Anchored
  <2> QED
    BY <1>1, <2>1, <2>2
<1>24. ASSUME Tick \/ (\E c \in Context : Dangling(c)) \/ (\E p \in Pid : End(p))
               \/ (\E p \in Pid, sig \in {SIGSTOP, SIGCONT} : Outside(p, sig))
               \/ UNCHANGED vars
       PROVE  Goal
  <2>1. jobs' = jobs /\ pc' = pc /\ it' = it
    BY <1>24 DEF Tick, Dangling, End, Outside
  <2> QED
    BY <1>1, <2>1, AnchoredStill
<1> QED
  <2>1. CASE \E c \in Context : remove_finished_jobs(c)
    BY <1>6, <1>7, <2>1 DEF remove_finished_jobs
  <2>2. CASE \E c \in Context : add_job_to_jobs_list(c)
    BY <1>8, <1>9, <1>10, <2>2 DEF add_job_to_jobs_list
  <2>3. CASE fg
    BY <1>11, <1>15, <2>3 DEF fg, Walk
  <2>4. CASE bg
    BY <1>13, <1>15, <1>17, <2>4 DEF bg, Walk
  <2>5. CASE kill
    BY <1>15, <1>18, <1>19, <2>5 DEF kill, Walk
  <2>6. CASE quit
    BY <1>15, <1>19, <1>20, <2>6 DEF quit, Walk
  <2>7. CASE \/ \E h \in Handler : TestForeground(h) \/ Signal(h)
             \/ \E h \in Handler, sig \in {SIGKILL, SIGSTOP}, itself \in {"killed", "halted"} :
                  Send(h, sig, itself)
    BY <1>21, <1>22, <1>23, <2>7
  <2> QED
    BY <1>2, <1>11, <1>12, <1>13, <1>14, <1>15, <1>24, <2>1, <2>2, <2>3, <2>4, <2>5, <2>6, <2>7
       DEF Next, Run, main, ExeExternal, ctrlCFunction, ctrlZFunction, Handler, Walk

(* Who erases its own node goes on to one that is left.                    *)
LEMMA ErasedGoesOn ==
  ASSUME TypeOK, NEW c \in Context, EraseJob(c)
  PROVE  /\ Ids \ {it[c]} \subseteq Ids'
         /\ ~Ahead(c)'
<1>1. /\ Deref(c) /\ jobs' = RemoveAt(jobs, Position(it[c])) /\ Advance(c, After(it[c]))
  BY DEF EraseJob, EraseTo
<1>2. /\ Position(it[c]) \in 1..Len(jobs) /\ Position(it[c]) \in DOMAIN jobs
      /\ jobs[Position(it[c])].jobid = it[c]
      /\ Len(jobs) \in Nat /\ DOMAIN jobs = 1..Len(jobs)
  BY <1>1, PositionFacts DEF Deref, TypeOK
<1>3. \A j \in DOMAIN jobs :
        j # Position(it[c]) => \E i \in DOMAIN jobs' : jobs'[i].jobid = jobs[j].jobid
  BY <1>1, <1>2, Erased DEF SameNode
<1>4. Ids \ {it[c]} \subseteq Ids'
  BY <1>2, <1>3 DEF Ids
<1>5. CASE After(it[c]) = 0
  <2>1. pc'[c] = AfterPrune[c]
    BY <1>1, <1>5 DEF Advance, Goto, TypeOK
  <2>2. AfterPrune[c] \notin Visiting
    BY DEF AfterPrune, Visiting, Derefs, Context, Handler
  <2> QED
    BY <1>4, <2>1, <2>2 DEF Ahead, Visiting, Derefs
<1>6. CASE After(it[c]) # 0
  <2>1. /\ Position(it[c]) # Len(jobs)
        /\ After(it[c]) = jobs[Position(it[c]) + 1].jobid
    BY <1>6 DEF After
  <2>2. Position(it[c]) + 1 \in DOMAIN jobs /\ Position(it[c]) + 1 # Position(it[c])
    BY <1>2, <2>1
  <2>3. \E i \in DOMAIN jobs' : jobs'[i].jobid = After(it[c])
    BY <1>3, <2>1, <2>2
  <2>4. it'[c] = After(it[c])
    BY <1>1 DEF Advance, TypeOK
  <2>5. it'[c] \in Ids'
    BY <2>3, <2>4 DEF Ids
  <2> QED
    BY <1>4, <2>5 DEF Ahead, Deref
<1> QED
  BY <1>4, <1>5, <1>6

(* Only a handler's erasure leaves the iterator of another without a node. *)
LEMMA AheadStep ==
  ASSUME TypeOK, Control, [Next]_vars,
         NEW c \in Context, ~Ahead(c), Ahead(c)'
  PROVE  \E h \in Handler \ {c} : At(h, "erase") /\ it[h] = it[c]
<1>1. ASSUME Current = "main", pc' = [pc EXCEPT !["main"] = pc'["main"]], ~Ahead("main")'
      PROVE  FALSE
  <2>1. c \in Handler /\ pc[c] = "idle"
    BY <1>1, Runs DEF Control, Context, Handler
  <2>2. pc'[c] = "idle"
    BY <1>1, <2>1 DEF TypeOK, Context, Handler
  <2> QED
    BY <2>2 DEF Ahead, Visiting, Derefs
<1>2. ASSUME FgErase
      PROVE  FALSE
  <2>1. Current = "main" /\ Goto("main", "fg_cont")
    BY <1>2 DEF FgErase, Step, At
  <2>2. pc'["main"] = "fg_cont"
    BY <2>1 DEF Goto, TypeOK, Context
  <2> QED
    BY <1>1, <2>1, <2>2 DEF Goto, Ahead, Visiting, Derefs
<1>3. ASSUME NEW d \in Context, EraseJob(d)
      PROVE  \E h \in Handler \ {c} : At(h, "erase") /\ it[h] = it[c]
  <2>1. /\ At(d, "erase") /\ Current = d
        /\ pc' = [pc EXCEPT ![d] = pc'[d]] /\ it' = [it EXCEPT ![d] = it'[d]]
    <3>1. At(d, "erase") /\ Advance(d, After(it[d]))
      BY <1>3 DEF EraseJob, EraseTo
    <3>2. PICK l, id : pc' = [pc EXCEPT ![d] = l] /\ it' = [it EXCEPT ![d] = id]
      BY <3>1 DEF Advance, Goto
    <3> QED
      BY <3>1, <3>2 DEF At, TypeOK
  <2>2. /\ Ids \ {it[d]} \subseteq Ids'
        /\ ~Ahead(d)' /\ c # d
    BY <1>3, ErasedGoesOn
  <2>3. d \in Handler
    BY <1>1, <2>1, <2>2 DEF Context
  <2>4. pc'[c] = pc[c] /\ it'[c] = it[c]
    BY <2>1, <2>2 DEF TypeOK
  <2>5. it[c] \in Ids /\ it[c] \notin Ids'
    BY <2>4 DEF Ahead, Deref
  <2> QED
    BY <2>1, <2>2, <2>3, <2>5
<1>4. CASE ~FgErase /\ \A d \in Context : ~EraseJob(d)
  BY <1>4, AnchoredStep, NobodyDetached
<1> QED
  BY <1>2, <1>3, <1>4

(* Main's iterator and the list stay as they are while main looks at the   *)
(* node before it, but in its walk and when an entry is erased.            *)
LEMMA BackKept ==
  ASSUME TypeOK, Control, [Next]_vars, ~Walk, \A d \in Context : ~EraseJob(d),
         pc'["main"] \in DerefsBehind
  PROVE  pc'["main"] = pc["main"] /\ it'["main"] = it["main"] /\ jobs' = jobs
<1> USE DEF vars, locals, list, foreground, history
<1> DEFINE Goal == pc'["main"] = pc["main"] /\ it'["main"] = it["main"] /\ jobs' = jobs
<1>1. ASSUME NEW l, l \notin DerefsBehind, Goto("main", l)
      PROVE  FALSE
  BY <1>1 DEF Goto, TypeOK, Context
<1>2. "prompt" \notin DerefsBehind
  BY DEF DerefsBehind
<1>3. ASSUME Prompt
      PROVE  FALSE
  BY <1>1, <1>2, <1>3 DEF Prompt
<1>4. ASSUME NEW h \in Handler, NEW l, Goto(h, l), it'["main"] = it["main"], jobs' = jobs
      PROVE  Goal
  BY <1>4 DEF Goto, TypeOK, Context, Handler
<1>5. \A c \in Context : c = "main" \/ c \in Handler
  BY DEF Context
<1>6. ASSUME NEW c \in Context, BeginPrune(c) \/ KeepJob(c)
      PROVE  Goal
  <2>1. jobs' = jobs /\ \E id : Advance(c, id)
    BY <1>6 DEF BeginPrune, KeepJob
  <2>2. PICK id : Advance(c, id)
    BY <2>1
  <2>3. CASE c = "main"
    <3>1. \E l \in {"dispatch", "test"} : Goto("main", l)
      BY <2>2, <2>3 DEF Advance, AfterPrune
    <3> QED
      BY <1>1, <3>1 DEF DerefsBehind
  <2>4. CASE c \in Handler
    <3>1. it'["main"] = it["main"] /\ \E l : Goto(c, l)
      BY <2>2, <2>4 DEF Advance, TypeOK, Handler, Context
    <3> QED
      BY <1>4, <2>1, <2>4, <3>1
  <2> QED
    BY <1>5, <2>3, <2>4
<1>7. ASSUME NEW c \in Context, TestJob(c) \/ IncrementIndex(c)
      PROVE  Goal
  <2>1. it' = it /\ jobs' = jobs /\ \E l \in {"erase", "next", "push"} : Goto(c, l)
    BY <1>7 DEF TestJob, TestFor, IncrementIndex, IndexFrom, Step
  <2>2. {"erase", "next", "push"} \cap DerefsBehind = {}
    BY DEF DerefsBehind
  <2> QED
    BY <1>1, <1>4, <1>5, <2>1, <2>2
<1>8. ASSUME NEW c \in Context, CountJobs(c)
      PROVE  Goal
  <2>1. jobs' = jobs /\ (Prompt \/ (it' = it /\ \E l \in {"index", "idle"} : Goto(c, l)))
    BY <1>8 DEF CountJobs, CountFor, Return
  <2>2. {"index", "idle"} \cap DerefsBehind = {}
    BY DEF DerefsBehind
  <2> QED
    BY <1>1, <1>3, <1>4, <1>5, <2>1, <2>2
<1>9. ASSUME NEW c \in Context, PushJob(c)
      PROVE  FALSE
  <2>1. pc[c] = "push" /\ (Prompt \/ (c # "main" /\ Goto(c, "send")))
    BY <1>9 DEF PushJob, At
  <2>2. c = "main" \/ c = "ctrlZ"
    BY <2>1 DEF Control, LabelInv, Context, Handler
  <2>3. CASE c = "ctrlZ"
    <3>1. pc["main"] \in {"set_pid", "wait", "unflag"}
      BY <2>1, <2>3 DEF Control, FlagInv
    <3>2. Prompt \/ pc'["main"] = pc["main"]
      BY <2>1, <2>3 DEF Goto, TypeOK, Context, Handler
    <3> QED
      BY <1>3, <3>1, <3>2 DEF DerefsBehind
  <2> QED
    BY <1>3, <2>1, <2>2, <2>3
<1>10. ASSUME ReadLine \/ SetFlag \/ SetPid \/ Wait \/ Resume("fg_cont", "flag") \/ Fork
                \/ FgErase \/ BgMark
       PROVE  FALSE
  <2>1. \E l \in {"prune", "set_pid", "wait", "unflag", "flag", "count", "fg_cont", "bg_cont"} :
          Goto("main", l)
    BY <1>10 DEF ReadLine, SetFlag, SetPid, Wait, WaitFor, Resume, Fork, FgErase, BgMark, Step
  <2> QED
    BY <1>1, <2>1 DEF DerefsBehind
<1>11. ASSUME ForkFails \/ ClearFlag \/ BgResume \/ KillMark
       PROVE  FALSE
  BY <1>3, <1>11 DEF ForkFails, ClearFlag, BgResume, KillMark
<1>12. ASSUME ExeCmd
       PROVE  FALSE
  <2>1. PICK c \in Command :
          \/ UNCHANGED pc
          \/ Prompt
          \/ Goto("main", IF c.op \in {"external", "background"} THEN "fork" ELSE c.op)
    BY <1>12 DEF ExeCmd
  <2>2. (IF c.op \in {"external", "background"} THEN "fork" ELSE c.op) \notin DerefsBehind
    BY CommandOp DEF Op, DerefsBehind
  <2>3. pc["main"] = "dispatch"
    BY <1>12 DEF ExeCmd, At
  <2>4. CASE UNCHANGED pc
    BY <2>3, <2>4 DEF DerefsBehind
  <2> QED
    BY <1>1, <1>3, <2>1, <2>2, <2>4
<1>13. ASSUME KillSend \/ QuitBegin \/ QuitTerm \/ QuitPoll \/ QuitStep
       PROVE  FALSE
  <2>1. pc["main"] \in {"kill_send", "quit kill", "quit_term", "quit_poll", "quit_next"}
    BY <1>13 DEF KillSend, QuitBegin, QuitTerm, QuitPoll, PollUntil, QuitStep, At
  <2>2. \/ Prompt \/ UNCHANGED pc
        \/ \E l \in {"kill_mark", "quit_read", "quit_poll", "quit_next"} : Goto("main", l)
    BY <1>13 DEF KillSend, QuitBegin, QuitTerm, QuitPoll, PollUntil, QuitStep, QuitNext
  <2>3. CASE UNCHANGED pc
    BY <2>1, <2>3 DEF DerefsBehind
  <2>4. {"kill_mark", "quit_read", "quit_poll", "quit_next"} \cap DerefsBehind = {}
    BY DEF DerefsBehind
  <2> QED
    BY <1>1, <1>3, <2>2, <2>3, <2>4
<1>14. ASSUME NEW h \in Handler, TestForeground(h) \/ \E sig, itself : Send(h, sig, itself)
       PROVE  Goal
  <2>1. it' = it /\ jobs' = jobs /\ \E l : Goto(h, l)
    BY <1>14 DEF TestForeground, TestFlag, Send, Return
  <2> QED
    BY <1>4, <2>1
<1>15. ASSUME NEW h \in Handler, Signal(h)
       PROVE  Goal
  <2>1. /\ jobs' = jobs /\ it' = it
        /\ pc'["main"] = "unflag" \/ pc'["main"] = pc["main"]
    BY <1>15 DEF Signal, TypeOK, Context, Handler
  <2> QED
    BY <2>1 DEF DerefsBehind
<1>16. ASSUME Tick \/ (\E c \in Context : Dangling(c)) \/ (\E p \in Pid : End(p))
               \/ (\E p \in Pid, sig \in {SIGSTOP, SIGCONT} : Outside(p, sig))
               \/ UNCHANGED vars
       PROVE  Goal
  BY <1>16 DEF Tick, Dangling, End, Outside
<1>17. {"main", "ctrlC", "ctrlZ"} \subseteq Context /\ {"ctrlC", "ctrlZ"} \subseteq Handler
  BY DEF Context, Handler
<1> QED
  <2>1. CASE \E c \in Context : remove_finished_jobs(c) \/ add_job_to_jobs_list(c)
    BY <1>6, <1>7, <1>8, <1>9, <2>1 DEF remove_finished_jobs, add_job_to_jobs_list
  <2>2. CASE fg \/ bg \/ kill \/ quit \/ ShowJobs
    BY <1>10, <1>11, <1>13, <2>2 DEF fg, bg, kill, quit, Walk
  <2>3. CASE ctrlCFunction \/ ctrlZFunction
    BY <1>14, <1>17, <2>1, <2>3 DEF ctrlCFunction, ctrlZFunction
  <2> QED
    BY <1>10, <1>11, <1>12, <1>15, <1>16, <1>17, <2>1, <2>2, <2>3
       DEF Next, Run, main, ExeExternal

(* Where the node before an iterator is, in this state                     *)
LEMMA BehindIs ==
  ASSUME TypeOK, JobIdsIncrease, NEW k \in DOMAIN jobs
  PROVE  Position(jobs[k].jobid) = k
<1>1. jobs[k].jobid \in Ids
  BY DEF Ids
<1>2. /\ Position(jobs[k].jobid) \in DOMAIN jobs
      /\ jobs[Position(jobs[k].jobid)].jobid = jobs[k].jobid
  BY <1>1, PositionFacts DEF TypeOK
<1> QED
  BY <1>2, OneNode

(* A step of main's walk backwards ends at a node that is there.           *)
LEMMA BackWalk ==
  ASSUME TypeOK, JobIdsIncrease, WalkBack, jobs' = jobs
  PROVE  DerefBehind'
<1>1. Len(jobs) \in Nat /\ DOMAIN jobs = 1..Len(jobs) /\ (jobs # <<>> => Len(jobs) >= 1)
  BY DEF TypeOK
<1>2. \A id : Behind(id)' = Behind(id)
  BY DEF Behind, Position, Ids
<1>3. DerefBehind' <=> Behind(it'["main"]) \in DOMAIN jobs
  BY DEF DerefBehind, Behind, Position, Ids
<1>4. ASSUME it' = [it EXCEPT !["main"] = 0], jobs # <<>>
      PROVE  DerefBehind'
  <2>1. it'["main"] = 0
    BY <1>4 DEF TypeOK, Context
  <2>2. Behind(it'["main"]) = Len(jobs)
    BY <1>1, <2>1 DEF Behind
  <2> QED
    BY <1>1, <1>3, <1>4, <2>2
<1>5. ASSUME DerefBehind, Behind(it["main"]) # 1, it' = [it EXCEPT !["main"] = NodeBehind.jobid]
      PROVE  DerefBehind'
  <2>1. PICK b \in DOMAIN jobs : b = Behind(it["main"])
    BY <1>5 DEF DerefBehind
  <2>2. it'["main"] = jobs[b].jobid
    BY <1>5, <2>1 DEF TypeOK, Context, NodeBehind
  <2>3. Position(jobs[b].jobid) = b
    BY <2>1, BehindIs
  <2>4. Behind(it'["main"]) = Len(jobs) \/ Behind(it'["main"]) = b - 1
    <3>1. CASE it'["main"] = 0
      BY <1>1, <3>1 DEF Behind
    <3>2. CASE it'["main"] # 0
      <4>1. Position(it'["main"]) = b
        BY <2>2, <2>3
      <4> QED
        BY <3>2, <4>1 DEF Behind
    <3> QED
      BY <3>1, <3>2
  <2> QED
    BY <1>1, <1>3, <1>5, <2>1, <2>4
<1>6. ASSUME DerefBehind, it' = it
      PROVE  DerefBehind'
  BY <1>3, <1>6 DEF DerefBehind
<1> QED
  BY <1>4, <1>5, <1>6 DEF WalkBack

(* The job that main looks at goes, or the one after it: main is left      *)
(* without a node if there is none before, or by the latter.               *)
LEMMA BackErased ==
  ASSUME TypeOK, JobIdsIncrease, pc["main"] \in DerefsBehind, DerefBehind,
         NEW h \in Handler, Deref(h), jobs' = RemoveAt(jobs, Position(it[h])),
         it'["main"] = it["main"], ~Needs("main", it[h])
  PROVE  DerefBehind'
<1>1. PICK k \in 1..Len(jobs) : k = Position(it[h]) /\ jobs[k].jobid = it[h]
  BY PositionFacts DEF Deref, TypeOK
<1>2. /\ Len(jobs) \in Nat /\ DOMAIN jobs = 1..Len(jobs) /\ jobs # <<>>
      /\ Len(jobs') = Len(jobs) - 1 /\ DOMAIN jobs' = 1..Len(jobs) - 1
      /\ \A i \in 1..Len(jobs) - 1 : jobs'[i] = IF i < k THEN jobs[i] ELSE jobs[i + 1]
  BY <1>1, RemoveAtFacts DEF TypeOK
<1>3. PICK b \in 1..Len(jobs) : b = Behind(it["main"])
  BY <1>2 DEF DerefBehind
<1>4. it[h] # it["main"] /\ (b = 1 => k # 1)
  BY <1>1, <1>2, <1>3 DEF Needs, First
<1>5. CASE it["main"] = 0
  <2>1. b = Len(jobs)
    BY <1>2, <1>3, <1>5 DEF Behind
  <2>2. Len(jobs) # 1
    BY <1>1, <1>4, <2>1
  <2>3. Behind(it["main"])' = Len(jobs) - 1
    BY <1>2, <1>5 DEF Behind
  <2> QED
    BY <1>2, <2>2, <2>3 DEF DerefBehind
<1>6. CASE it["main"] # 0
  <2>1. PICK n \in 1..Len(jobs) : n = b + 1 /\ jobs[n].jobid = it["main"]
    <3>1. Position(it["main"]) = b + 1
      <4>1. Position(it["main"]) \in Int
        BY <1>2 DEF Position, Ids
      <4> QED
        BY <1>2, <1>3, <1>6, <4>1 DEF Behind
    <3>2. it["main"] \in Ids
      BY <1>3, <3>1 DEF Position
    <3> QED
      BY <3>1, <3>2, PositionFacts DEF TypeOK
  <2>2. n # k
    BY <1>1, <1>4, <2>1
  <2>3. PICK m \in 1..Len(jobs) - 1 :
          m = (IF k < n THEN n - 1 ELSE n) /\ jobs'[m].jobid = it["main"]
    <3>1. CASE k < n
      <4>1. n - 1 \in 1..Len(jobs) - 1 /\ ~(n - 1 < k) /\ n - 1 + 1 = n
        BY <1>2, <3>1
      <4>2. jobs'[n - 1] = jobs[n]
        BY <1>2, <4>1
      <4> QED
        BY <2>1, <3>1, <4>1, <4>2
    <3>2. CASE n < k
      <4>1. n \in 1..Len(jobs) - 1 /\ ~(k < n)
        BY <1>2, <3>2
      <4>2. jobs'[n] = jobs[n]
        BY <1>2, <3>2, <4>1
      <4> QED
        BY <2>1, <4>1, <4>2
    <3> QED
      BY <1>2, <2>2, <3>1, <3>2
  <2>4. ASSUME NEW i \in 1..Len(jobs) - 1, jobs'[i].jobid = it["main"]
        PROVE  i = m
    <3>1. CASE i < k
      <4>1. i \in DOMAIN jobs /\ jobs[i].jobid = jobs[n].jobid /\ n \in DOMAIN jobs
        BY <1>2, <2>1, <2>4, <3>1
      <4>2. i = n
        BY <4>1, OneNode
      <4> QED
        BY <2>3, <3>1, <4>2
    <3>2. CASE ~(i < k)
      <4>1. i + 1 \in DOMAIN jobs /\ jobs[i + 1].jobid = jobs[n].jobid /\ n \in DOMAIN jobs
        BY <1>2, <2>1, <2>4, <3>2
      <4>2. i + 1 = n
        BY <4>1, OneNode
      <4> QED
        BY <1>2, <2>3, <3>2, <4>2
    <3> QED
      BY <3>1, <3>2
  <2>5. Position(it["main"])' = m
    <3>1. \E i \in DOMAIN jobs' : jobs'[i].jobid = it'["main"]
      BY <1>2, <2>3
    <3>2. it'["main"] \in Ids'
      BY <3>1 DEF Ids
    <3>3. Position(it["main"])' = CHOOSE i \in DOMAIN jobs' : jobs'[i].jobid = it'["main"]
      BY <3>2 DEF Position
    <3>4. /\ Position(it["main"])' \in DOMAIN jobs'
          /\ jobs'[Position(it["main"])'].jobid = it'["main"]
      BY <3>1, <3>3
    <3> QED
      BY <1>2, <2>4, <3>4
  <2>6. Behind(it["main"])' = m - 1
    BY <1>6, <2>5 DEF Behind
  <2>7. m - 1 \in 1..Len(jobs) - 1
    BY <1>1, <1>2, <1>4, <2>1, <2>3
  <2> QED
    BY <1>2, <2>6, <2>7 DEF DerefBehind
<1> QED
  BY <1>5, <1>6

(* Only a handler's erasure leaves main without the node before its own.   *)
LEMMA BackStep ==
  ASSUME TypeOK, Control, JobIdsIncrease, [Next]_vars,
         pc["main"] \in DerefsBehind => DerefBehind,
         pc'["main"] \in DerefsBehind, ~DerefBehind'
  PROVE  \E h \in Handler : At(h, "erase") /\ Needs("main", it[h])
<1>1. CASE Walk
  <2>1. jobs' = jobs /\ (Prompt \/ WalkOn \/ WalkBack \/ WalkEnds)
    BY <1>1, WalkFacts DEF list
  <2>2. \A l : Goto("main", l) => l \in DerefsBehind
    BY DEF Goto, TypeOK, Context
  <2>3. ~Prompt /\ ~WalkOn /\ ~WalkEnds
    BY <2>2 DEF Prompt, WalkOn, WalkEnds, DerefsBehind
  <2> QED
    BY <2>1, <2>3, BackWalk
<1>2. ASSUME NEW d \in Context, EraseJob(d)
      PROVE  \E h \in Handler : At(h, "erase") /\ Needs("main", it[h])
  <2>1. /\ At(d, "erase") /\ Deref(d) /\ jobs' = RemoveAt(jobs, Position(it[d]))
        /\ Advance(d, After(it[d]))
    BY <1>2 DEF EraseJob, EraseTo
  <2>2. d \in Handler
    <3>1. d = "main" => pc'["main"] \in {"dispatch", "test"}
      BY <2>1 DEF Advance, Goto, AfterPrune, TypeOK, Context
    <3> QED
      BY <3>1 DEF DerefsBehind, Context
  <2>3. pc'["main"] = pc["main"] /\ it'["main"] = it["main"]
    BY <2>1, <2>2 DEF Advance, Goto, TypeOK, Context, Handler
  <2>4. Needs("main", it[d])
    BY <2>1, <2>2, <2>3, BackErased
  <2> QED
    BY <2>1, <2>2, <2>4
<1>3. CASE ~Walk /\ \A d \in Context : ~EraseJob(d)
  <2>1. pc'["main"] = pc["main"] /\ it'["main"] = it["main"] /\ jobs' = jobs
    BY <1>3, BackKept
  <2>2. DerefBehind' <=> DerefBehind
    BY <2>1 DEF DerefBehind, Behind, Position, Ids
  <2> QED
    BY <2>1, <2>2
<1> QED
  BY <1>1, <1>2, <1>3

(* Together: whoever loses what it needs loses it to a handler.            *)
LEMMA DangleStep ==
  ASSUME TypeOK, Control, Control', JobIdsIncrease, [Next]_vars,
         NEW c \in Context, ~Dangles(c), Dangles(c)'
  PROVE  \E h \in Handler \ {c} : At(h, "erase") /\ Needs(c, it[h])
<1>1. CASE Ahead(c)'
  <2>1. ~Ahead(c)
    BY DEF Ahead, Dangles
  <2> QED
    BY <1>1, <2>1, AheadStep DEF Needs
<1>2. CASE ~Ahead(c)'
  <2>1. pc'[c] \in DerefsBehind /\ ~DerefBehind'
    BY <1>2 DEF Ahead, Dangles
  <2>2. c = "main" /\ c \notin Handler
    BY <2>1 DEF Control, LabelInv, DerefsBehind, Context, Handler
  <2>3. pc["main"] \in DerefsBehind => DerefBehind
    BY <2>2 DEF Dangles
  <2> QED
    BY <2>1, <2>2, <2>3, BackStep
<1> QED
  BY <1>1, <1>2

-----------------------------------------------------------------------------
(* The table of jobs that the shell implements *)

(* A system call or a process on its own ends at most one process.         *)
LEMMA EndsOne ==
  ASSUME TypeOK,
         \/ proc' = proc
         \/ \E q : Reap(q)
         \/ \E q \in Pid : \E sig : Deliver(q, sig)
         \/ \E q \in Pid : proc' = [proc EXCEPT ![q] = "zombie"]
  PROVE  Ended' = Ended \/ \E p \in Pid : Ended' = Ended \cup {p}
<1>1. proc \in [Pid -> ProcState]
  BY DEF TypeOK
<1>2. CASE proc' = proc
  BY <1>2 DEF Ended, Over
<1>3. ASSUME NEW q, Reap(q)
      PROVE  Ended' = Ended
  <2>1. \A p \in Pid : proc'[p] = proc[p] \/ (proc[p] = "zombie" /\ proc'[p] = "reaped")
    BY <1>1, <1>3 DEF Reap
  <2> QED
    BY <2>1 DEF Ended, Over
<1>4. ASSUME NEW q \in Pid, \A p \in Pid : p # q => proc'[p] = proc[p], OverStays
      PROVE  Ended' = Ended \/ Ended' = Ended \cup {q}
  BY <1>4 DEF OverStays, Ended, Over
<1>5. ASSUME NEW q \in Pid, NEW sig, Deliver(q, sig)
      PROVE  Ended' = Ended \/ Ended' = Ended \cup {q}
  BY <1>1, <1>4, <1>5, DeliverFacts
<1>6. ASSUME NEW q \in Pid, proc' = [proc EXCEPT ![q] = "zombie"]
      PROVE  Ended' = Ended \/ Ended' = Ended \cup {q}
  <2>1. \A p \in Pid : proc'[p] = IF p = q THEN "zombie" ELSE proc[p]
    BY <1>1, <1>6
  <2> QED
    BY <2>1, <1>4 DEF OverStays, Over
<1> QED
  BY <1>2, <1>3, <1>5, <1>6

(* A step that leaves list and numbers alone, and at most ends a process   *)
(* or lets one go                                                          *)
LEMMA TableKept ==
  ASSUME jobs' = jobs, Given' = Given,
         \/ InHand' = InHand /\ (Ended' = Ended \/ \E p \in Pid : Ended' = Ended \cup {p})
         \/ InHand' = {} /\ Ended' = Ended
  PROVE  [Table!Next]_(Table!vars)
<1>1. CASE InHand' = InHand /\ Ended' = Ended
  BY <1>1 DEF Table!vars
<1>2. CASE InHand' = InHand /\ \E p \in Pid : Ended' = Ended \cup {p}
  BY <1>2 DEF Table!Next, Table!End
<1>3. CASE InHand' = {} /\ Ended' = Ended
  BY <1>3 DEF Table!Next, Table!LetGo
<1> QED
  BY <1>1, <1>2, <1>3

(* Such is a step of one context that gives no number and lists nothing,   *)
(* if main takes nothing into its hands by it.                             *)
LEMMA TablePasses ==
  ASSUME TypeOK, NEW c \in Context, NEW l, Goto(c, l), l # "push", pc[c] # "push",
         jobs' = jobs, jobIndex' = jobIndex,
         \/ c \in Handler /\ pID' = pID
         \/ c = "main" /\ l \notin Holding /\ pc["main"] \notin Holding
         \/ c = "main" /\ l \in Holding /\ pc["main"] \in Holding /\ pID' = pID
         \/ c = "main" /\ l \notin Holding /\ proc' = proc,
         Ended' = Ended \/ \E p \in Pid : Ended' = Ended \cup {p}
  PROVE  [Table!Next]_(Table!vars)
<1>1. pc'[c] = l /\ \A d \in Context : d # c => pc'[d] = pc[d]
  BY DEF TypeOK, Goto
<1>2. Given' = Given
  BY <1>1 DEF Given, Context, Handler
<1>3. proc' = proc => Ended' = Ended
  BY DEF Ended, Over
<1>4. CASE c \in Handler
  <2>1. InHand' = InHand
    BY <1>1, <1>4 DEF InHand, Context, Handler
  <2> QED
    BY <1>2, <2>1, TableKept
<1>5. CASE c = "main"
  <2>1. l \notin Holding => InHand' = {}
    BY <1>1, <1>5 DEF InHand, Holding
  <2>2. pc["main"] \notin Holding => InHand = {}
    BY DEF InHand, Holding
  <2>3. l \in Holding /\ pc["main"] \in Holding /\ pID' = pID => InHand' = InHand
    BY <1>1, <1>5 DEF InHand, Holding
  <2> QED
    BY <1>2, <1>3, <1>5, <2>1, <2>2, <2>3, TableKept DEF Handler
<1> QED
  BY <1>4, <1>5 DEF Context

LEMMA TableStill ==
  ASSUME jobs' = jobs, jobIndex' = jobIndex, pc' = pc, pID' = pID,
         Ended' = Ended \/ \E p \in Pid : Ended' = Ended \cup {p}
  PROVE  [Table!Next]_(Table!vars)
<1>1. Given' = Given /\ InHand' = InHand
  BY DEF Given, InHand, Holding
<1> QED
  BY <1>1, TableKept

(* Main goes back to the prompt with a process in its hands or without.    *)
LEMMA TablePrompt ==
  ASSUME TypeOK, Prompt, jobs' = jobs, jobIndex' = jobIndex, pc["main"] # "push",
         proc' = proc \/ pc["main"] \notin Holding,
         Ended' = Ended \/ \E p \in Pid : Ended' = Ended \cup {p}
  PROVE  [Table!Next]_(Table!vars)
<1>1. "main" \in Context /\ "prompt" \notin Holding
  BY DEF Context, Holding
<1> QED
  BY <1>1, TablePasses DEF Prompt

LEMMA TableReturn ==
  ASSUME TypeOK, NEW h \in Handler, Return(h), jobs' = jobs, jobIndex' = jobIndex,
         pID' = pID, pc[h] # "push",
         Ended' = Ended \/ \E p \in Pid : Ended' = Ended \cup {p}
  PROVE  [Table!Next]_(Table!vars)
<1>1. h \in Context
  BY DEF Context
<1> QED
  BY <1>1, TablePasses DEF Return

(* An entry whose process is over leaves the table. *)
LEMMA TableErases ==
  ASSUME TypeOK, IteratorInv, NEW c \in Context, EraseJob(c)
  PROVE  Table!Next
<1> USE DEF locals, list, foreground, history
<1>1. /\ Deref(c) /\ pc[c] = "erase" /\ jobs' = RemoveAt(jobs, Position(it[c]))
      /\ Advance(c, After(it[c])) /\ jobIndex' = jobIndex /\ pID' = pID /\ proc' = proc
  BY DEF EraseJob, EraseTo, At
<1> DEFINE i == Position(it[c])
<1>2. i \in DOMAIN jobs /\ jobs[i].jobid = it[c]
  BY <1>1, PositionFacts DEF Deref, TypeOK
<1>3. Over(jobs[i].pid)
  BY <1>1, <1>2 DEF IteratorInv
<1>4. PICK l \in {"dispatch", "test_fg", "test"} : Goto(c, l)
  BY <1>1 DEF Advance, AfterPrune, Context, Handler
<1>5. pc'[c] = l /\ \A d \in Context : d # c => pc'[d] = pc[d]
  BY <1>4 DEF TypeOK, Goto
<1>6. Given' = Given /\ InHand' = InHand
  BY <1>1, <1>5 DEF Given, InHand, Holding, Context, Handler
<1>7. Ended' = Ended
  BY <1>1 DEF Ended, Over
<1>8. jobs[i].pid \in Ended \/ jobs[i].pid \notin Pid
  BY <1>3 DEF Ended
<1>9. Table!Leave(i)
  BY <1>1, <1>6, <1>7, <1>8 DEF Table!Leave, Table!RemoveAt, RemoveAt
<1> QED
  BY <1>2, <1>9 DEF Table!Next

(* fg takes an entry off the table and its process into its hands.         *)
LEMMA TableTakes ==
  ASSUME TypeOK, Control, IteratorInv, FgErase
  PROVE  Table!Next
<1> USE DEF locals, list, foreground, history
<1>1. /\ Deref("main") /\ pc["main"] = "fg_erase" /\ Goto("main", "fg_cont")
      /\ jobs' = RemoveAt(jobs, Position(it["main"]))
      /\ jobIndex' = jobIndex /\ pID' = pID /\ proc' = proc
  BY DEF FgErase, Step, At
<1> DEFINE i == Position(it["main"])
<1>2. i \in DOMAIN jobs /\ jobs[i].jobid = it["main"]
  BY <1>1, PositionFacts DEF Deref, TypeOK
<1>3. jobs[i].pid = pID
  BY <1>1, <1>2 DEF IteratorInv
<1>4. pc'["main"] = "fg_cont" /\ pc'["ctrlZ"] = pc["ctrlZ"]
  BY <1>1 DEF TypeOK, Goto, Context, Handler
<1>5. Given' = Given /\ InHand = {} /\ InHand' = {pID}
  BY <1>1, <1>4 DEF Given, InHand, Holding
<1>6. Ended' = Ended
  BY <1>1 DEF Ended, Over
<1>7. Table!Take(i)
  BY <1>1, <1>3, <1>5, <1>6 DEF Table!Take, Table!RemoveAt, RemoveAt
<1> QED
  BY <1>2, <1>7 DEF Table!Next

(* The status of an entry changes. *)
LEMMA TableMarks ==
  ASSUME TypeOK, NEW k \in DOMAIN jobs, NEW status \in JobStatus, SetStatus(k, status),
         NEW l \in Labels, l \notin Holding, pc["main"] \notin Holding, Goto("main", l),
         jobIndex' = jobIndex, proc' = proc
  PROVE  Table!Next
<1>1. pc'["main"] = l /\ pc'["ctrlZ"] = pc["ctrlZ"]
  BY DEF TypeOK, Goto, Context, Handler
<1>2. Given' = Given /\ InHand' = InHand
  BY <1>1 DEF Given, InHand, Holding
<1>3. Ended' = Ended
  BY DEF Ended, Over
<1>4. Table!Mark(k, status)
  BY <1>2, <1>3 DEF Table!Mark, SetStatus
<1> QED
  BY <1>4 DEF Table!Next

(* A number is given, which counts when the job is entered. *)
LEMMA TableNumbers ==
  ASSUME TypeOK, Control, NEW c \in Context, IncrementIndex(c)
  PROVE  [Table!Next]_(Table!vars)
<1> USE DEF locals, list, foreground, history
<1>1. /\ Current = c /\ pc[c] = "index" /\ Goto(c, "push")
      /\ jobs' = jobs /\ jobIndex' = jobIndex + 1 /\ proc' = proc /\ pID' = pID
  BY DEF IncrementIndex, IndexFrom, Step, At
<1>2. c \in {"main", "ctrlZ"}
  BY <1>1 DEF Control, LabelInv, Context, Handler
<1>3. pc["main"] # "push" /\ pc["ctrlZ"] # "push"
  <2>1. CASE c = "main"
    BY <1>1, <2>1, Runs DEF Control
  <2>2. CASE c = "ctrlZ"
    BY <1>1, <2>2 DEF Control, FlagInv
  <2> QED
    BY <1>2, <2>1, <2>2
<1>4. pc'[c] = "push" /\ \A d \in Context : d # c => pc'[d] = pc[d]
  BY <1>1 DEF TypeOK, Goto
<1>5. Given' = Given
  <2>1. Given = jobIndex /\ jobIndex \in Nat
    BY <1>3 DEF Given, TypeOK
  <2>2. Given' = jobIndex' - 1
    BY <1>2, <1>4 DEF Given
  <2> QED
    BY <1>1, <2>1, <2>2
<1>6. InHand' = InHand
  BY <1>1, <1>2, <1>4 DEF InHand, Holding, Context
<1>7. Ended' = Ended
  BY <1>1 DEF Ended, Over
<1> QED
  BY <1>1, <1>5, <1>6, <1>7, TableKept

(* The job is entered, with the next number, where there is room. *)
LEMMA TableEnters ==
  ASSUME TypeOK, Control, AddInv, NEW c \in Context, PushJob(c)
  PROVE  Table!Next
<1> USE DEF locals, list, foreground, history
<1>1. /\ Current = c /\ pc[c] = "push" /\ jobs' = Append(jobs, NewJob(c))
      /\ jobIndex' = jobIndex /\ proc' = proc
      /\ IF c = "main" THEN Prompt ELSE Goto(c, "send") /\ pID' = pID
  BY DEF PushJob, At
<1>2. Len(jobs) < MaxJobs /\ jobIndex \in Nat /\ Given = jobIndex - 1
      /\ jobIndex = Given + 1
  <2>1. c \in {"main", "ctrlZ"}
    BY <1>1 DEF Control, LabelInv, Context, Handler
  <2> QED
    BY <1>1, <2>1 DEF AddInv, TypeOK, Given
<1>3. Ended' = Ended
  BY <1>1 DEF Ended, Over
<1>4. CASE c = "main"
  <2>1. pc'["main"] = "prompt" /\ pc'["ctrlZ"] = pc["ctrlZ"] /\ pc["ctrlZ"] = "idle"
    BY <1>1, <1>4, Runs DEF Prompt, Goto, TypeOK, Context, Handler, Control
  <2>2. Given' = Given + 1
    BY <1>1, <1>2, <2>1 DEF Given
  <2>3. InHand = {pID} /\ InHand' = {}
    BY <1>1, <1>4, <2>1 DEF InHand, Holding
  <2>4. NewJob(c) = [jobid |-> Given + 1, pid |-> pID, status |-> "BACKGROUND"]
    BY <1>2, <1>4 DEF NewJob
  <2>5. Table!Background(pID)
    BY <1>1, <1>2, <1>3, <2>2, <2>3, <2>4 DEF Table!Background, Table!Enter
  <2> QED
    BY <2>5 DEF Table!Next, TypeOK
<1>5. CASE c # "main"
  <2>1. c = "ctrlZ" /\ pc["main"] \in {"set_pid", "wait", "unflag"}
    BY <1>1, <1>5 DEF Control, LabelInv, FlagInv, Context, Handler
  <2>2. pc'["ctrlZ"] = "send" /\ pc'["main"] = pc["main"] /\ pID' = pID
    BY <1>1, <2>1 DEF Goto, TypeOK, Context, Handler
  <2>3. Given' = Given + 1
    BY <1>1, <1>2, <2>1, <2>2 DEF Given
  <2>4. InHand = {pID} /\ InHand' = InHand
    BY <2>1, <2>2 DEF InHand, Holding
  <2>5. NewJob(c) = [jobid |-> Given + 1, pid |-> fg_pid, status |-> "STOPPED"]
    BY <1>2, <1>5 DEF NewJob
  <2>6. Table!Suspend(fg_pid)
    BY <1>1, <1>2, <1>3, <2>3, <2>4, <2>5 DEF Table!Suspend, Table!Enter
  <2> QED
    BY <2>6 DEF Table!Next, TypeOK
<1> QED
  BY <1>4, <1>5

(* A new process comes into the hands of the shell. *)
LEMMA TableStarts ==
  ASSUME TypeOK, Fork
  PROVE  Table!Next
<1> USE DEF locals, list, foreground, history
<1>1. PICK p \in Pid : /\ proc[p] = "none" /\ pID' = p
                       /\ proc' = [proc EXCEPT ![p] = "running"]
  BY DEF Fork
<1>2. PICK l \in {"flag", "count"} : Goto("main", l)
  BY DEF Fork
<1>3. pc["main"] = "fork" /\ jobs' = jobs /\ jobIndex' = jobIndex
  BY DEF Fork, At
<1>4. pc'["main"] = l /\ pc'["ctrlZ"] = pc["ctrlZ"]
  BY <1>2 DEF TypeOK, Goto, Context, Handler
<1>5. Given' = Given /\ InHand = {} /\ InHand' = {p}
  BY <1>1, <1>3, <1>4 DEF Given, InHand, Holding
<1>6. Ended' = Ended /\ p \notin Ended
  <2>1. \A q \in Pid : proc'[q] = IF q = p THEN "running" ELSE proc[q]
    BY <1>1 DEF TypeOK
  <2> QED
    BY <1>1, <2>1 DEF Ended, Over
<1>7. Table!Start(p)
  BY <1>3, <1>5, <1>6 DEF Table!Start
<1> QED
  BY <1>7 DEF Table!Next

(* Every step of the shell is one of the table, or none. *)
LEMMA TableStep ==
  ASSUME TypeOK, Control, AddInv, IteratorInv, [Next]_vars
  PROVE  [Table!Next]_(Table!vars)
<1> USE DEF vars, locals, list, foreground, history
<1> DEFINE Goal == [Table!Next]_(Table!vars)
           OneEnds == Ended' = Ended \/ \E p \in Pid : Ended' = Ended \cup {p}
<1>1. proc' = proc => OneEnds
  BY EndsOne
<1>2. "main" \in Context /\ Handler \subseteq Context
  BY DEF Context
<1>3. \A q : Reap(q) => OneEnds
  BY EndsOne
<1>4. \A sig : \A q \in Pid : Deliver(q, sig) => OneEnds
  BY EndsOne
<1> HIDE DEF OneEnds
<1>6. ASSUME NEW c \in Context, NEW l, Goto(c, l), l # "push", pc[c] # "push",
             jobs' = jobs, jobIndex' = jobIndex, OneEnds,
             \/ pID' = pID /\ (c = "main" => l \notin Holding /\ pc["main"] \notin Holding)
             \/ pID' = pID /\ (c = "main" => l \in Holding /\ pc["main"] \in Holding)
             \/ c = "main" /\ l \notin Holding /\ pc["main"] \notin Holding
      PROVE  Goal
  BY <1>6, TablePasses DEF Context, OneEnds
<1>7. ASSUME Prompt, jobs' = jobs, jobIndex' = jobIndex, pc["main"] # "push",
             proc' = proc \/ pc["main"] \notin Holding, OneEnds
      PROVE  Goal
  BY <1>7, TablePrompt DEF OneEnds
<1>8. ASSUME NEW h \in Handler, Return(h), jobs' = jobs, jobIndex' = jobIndex,
             pID' = pID, pc[h] # "push", OneEnds
      PROVE  Goal
  BY <1>8, TableReturn DEF OneEnds
<1>9. ASSUME jobs' = jobs, jobIndex' = jobIndex, pc' = pc, pID' = pID, OneEnds
      PROVE  Goal
  BY <1>9, TableStill DEF OneEnds
<1> HIDE DEF Goal
<1>10. ASSUME NEW c \in Context, BeginPrune(c) \/ KeepJob(c)
       PROVE  Goal
  <2>1. \E l \in {"dispatch", "test_fg", "test"} : Goto(c, l)
    BY <1>10 DEF BeginPrune, KeepJob, Advance, AfterPrune, Context, Handler
  <2>2. /\ pc[c] \in {"prune", "next"} /\ jobs' = jobs /\ jobIndex' = jobIndex
        /\ pID' = pID /\ proc' = proc
    BY <1>10 DEF BeginPrune, KeepJob, At
  <2> QED
    BY <1>1, <1>6, <2>1, <2>2 DEF Holding
<1>11. ASSUME NEW c \in Context, TestJob(c)
       PROVE  Goal
  <2>1. /\ pc[c] = "test" /\ jobs' = jobs /\ jobIndex' = jobIndex /\ pID' = pID
        /\ \/ Goto(c, "erase") /\ Reap(Node(c).pid)
           \/ Goto(c, "next") /\ proc' = proc
    BY <1>11 DEF TestJob, TestFor, At
  <2> QED
    BY <1>1, <1>3, <1>6, <2>1 DEF Holding
<1>12. ASSUME NEW c \in Context, CountJobs(c)
       PROVE  Goal
  <2>1. pc[c] = "count" /\ jobs' = jobs /\ jobIndex' = jobIndex /\ proc' = proc
    BY <1>12 DEF CountJobs, CountFor, At
  <2>2. CASE Goto(c, "index") /\ UNCHANGED <<active, it, locals, refused>>
    BY <1>1, <1>6, <2>1, <2>2 DEF Holding
  <2>3. CASE c = "main" /\ Prompt
    BY <1>1, <1>7, <2>1, <2>3
  <2>4. CASE c \in Handler /\ Return(c) /\ UNCHANGED <<it, locals>>
    BY <1>1, <1>8, <2>1, <2>4
  <2> QED
    BY <1>12, <2>2, <2>3, <2>4 DEF CountJobs, CountFor, Context
<1>13. ASSUME NEW c \in Context, EraseJob(c) \/ IncrementIndex(c) \/ PushJob(c)
       PROVE  Goal
  BY <1>13, TableErases, TableNumbers, TableEnters DEF Goal
<1>14. ASSUME Fork \/ FgErase
       PROVE  Goal
  BY <1>14, TableStarts, TableTakes DEF Goal
<1>15. ASSUME ReadLine
       PROVE  Goal
  BY <1>1, <1>2, <1>6, <1>15 DEF ReadLine, Step, At, Holding
<1>16. ASSUME ExeCmd
       PROVE  Goal
  <2>1. /\ pc["main"] = "dispatch" /\ jobs' = jobs /\ jobIndex' = jobIndex /\ proc' = proc
    BY <1>16 DEF ExeCmd, At
  <2>2. PICK c \in Command :
          \/ UNCHANGED <<pc, it, locals>>
          \/ Prompt
          \/ /\ c.op \notin {"quit", "other"}
             /\ Goto("main", IF c.op \in {"external", "background"} THEN "fork" ELSE c.op)
             /\ UNCHANGED <<shell, it, pID, time_wasted>>
    BY <1>16 DEF ExeCmd
  <2>3. c.op \notin {"quit", "other"} =>
          (IF c.op \in {"external", "background"} THEN "fork" ELSE c.op)
            \notin Holding \cup {"push"}
    BY CommandOp DEF Op, Holding
  <2>4. CASE UNCHANGED <<pc, it, locals>>
    BY <1>1, <1>9, <2>1, <2>4
  <2>5. CASE Prompt
    BY <1>1, <1>7, <2>1, <2>5
  <2>6. CASE ~UNCHANGED <<pc, it, locals>> /\ ~Prompt
    BY <1>1, <1>2, <1>6, <2>1, <2>2, <2>3, <2>6 DEF Holding
  <2> QED
    BY <2>4, <2>5, <2>6
<1>17. ASSUME ForkFails \/ ClearFlag
       PROVE  Goal
  BY <1>1, <1>7, <1>17 DEF ForkFails, ClearFlag, At
<1>18. ASSUME SetFlag \/ SetPid
       PROVE  Goal
  BY <1>1, <1>2, <1>6, <1>18 DEF SetFlag, SetPid, Step, At, Holding
<1>19. ASSUME Wait
       PROVE  Goal
  <2>1. /\ pc["main"] = "wait" /\ Goto("main", "unflag") /\ jobs' = jobs
        /\ jobIndex' = jobIndex /\ pID' = pID
    BY <1>19 DEF Wait, WaitFor, Step, At
  <2>2. OneEnds
    <3>1. OverStays
      BY <1>19, WaitFacts DEF TypeOK
    <3>2. \A p \in Pid : Over(p)' => Over(p)
      <4>1. CASE ~Over(pID) /\ proc[pID] = "continued"
        <5>1. proc' = [proc EXCEPT ![pID] = "running"]
          BY <1>19, <4>1 DEF Wait, WaitFor
        <5>2. \A p \in Pid : proc'[p] = IF p = pID THEN "running" ELSE proc[p]
          BY <5>1 DEF TypeOK
        <5> QED
          BY <5>2 DEF Over
      <4>2. CASE ~(~Over(pID) /\ proc[pID] = "continued")
        <5>1. Reap(pID)
          BY <1>19, <4>2 DEF Wait, WaitFor
        <5>2. \A p \in Pid : proc'[p] = proc[p] \/ proc[p] = "zombie"
          BY <5>1 DEF Reap
        <5> QED
          BY <5>2 DEF Over
      <4> QED
        BY <4>1, <4>2
    <3>3. Ended' = Ended
      BY <3>1, <3>2 DEF OverStays, Ended
    <3> QED
      BY <3>3 DEF OneEnds
  <2> QED
    BY <1>2, <1>6, <2>1, <2>2 DEF Holding
<1>20. ASSUME Walk
       PROVE  Goal
  <2>1. PICK l \in WalkTo : Goto("main", l)
    BY <1>20, WalkGoes
  <2>2. /\ pc["main"] \notin Holding \cup {"push"} /\ jobs' = jobs
        /\ jobIndex' = jobIndex /\ proc' = proc
    BY <1>20, WalkFacts DEF WalkFrom, Holding
  <2>3. l \notin Holding \cup {"push"}
    BY DEF WalkTo, Holding
  <2> QED
    BY <1>1, <1>2, <1>6, <2>1, <2>2, <2>3
<1>22. ASSUME Resume("fg_cont", "flag")
       PROVE  Goal
  <2>1. OneEnds
    BY <1>1, <1>4, <1>22 DEF Resume, Killable
  <2> QED
    BY <1>2, <1>6, <1>22, <2>1 DEF Resume, Step, At, Holding
<1>23. ASSUME BgMark \/ KillMark
       PROVE  Goal
  <2>1. PICK k \in DOMAIN jobs, status \in JobStatus : SetStatus(k, status)
    BY <1>23, MainMarks
  <2>2. /\ pc["main"] \in {"bg_mark", "kill_mark"} /\ jobIndex' = jobIndex /\ proc' = proc
        /\ \E l \in {"bg_cont", "prompt"} : Goto("main", l)
    BY <1>23 DEF BgMark, KillMark, Prompt, Step, At
  <2>3. {"bg_cont", "prompt"} \subseteq Labels
    BY DEF Labels
  <2> QED
    BY <2>1, <2>2, <2>3, TableMarks DEF Goal, Holding
<1>25. ASSUME BgResume
       PROVE  Goal
  <2>1. OneEnds
    BY <1>1, <1>4, <1>25 DEF BgResume, Killable
  <2> QED
    BY <1>7, <1>25, <2>1 DEF BgResume, At, Holding
<1>26. ASSUME KillSend
       PROVE  Goal
  <2>1. /\ pc["main"] = "kill_send" /\ jobs' = jobs /\ jobIndex' = jobIndex
        /\ Prompt \/ (Goto("main", "kill_mark") /\ pID' = pID)
    BY <1>26 DEF KillSend, At
  <2>2. OneEnds
    BY <1>1, <1>4, <1>26 DEF KillSend, Killable
  <2> QED
    BY <1>2, <1>6, <1>7, <2>1, <2>2 DEF Holding
<1>27. ASSUME QuitTerm
       PROVE  Goal
  <2>1. /\ pc["main"] = "quit_term" /\ jobs' = jobs /\ jobIndex' = jobIndex
        /\ Prompt \/ Goto("main", "quit_poll")
    BY <1>27 DEF QuitTerm, At
  <2>2. OneEnds
    BY <1>1, <1>4, <1>27 DEF QuitTerm, Killable
  <2> QED
    BY <1>2, <1>6, <1>7, <2>1, <2>2 DEF Holding
<1>28. ASSUME QuitPoll
       PROVE  Goal
  <2>1. /\ pc["main"] = "quit_poll" /\ jobs' = jobs /\ jobIndex' = jobIndex /\ OneEnds
        /\ \/ Goto("main", "quit_next") /\ pID' = pID
           \/ Prompt
           \/ pc' = pc /\ pID' = pID
    BY <1>3, <1>28 DEF QuitPoll, PollUntil, At
  <2> QED
    BY <1>2, <1>6, <1>7, <1>9, <2>1 DEF Holding
<1>29. ASSUME QuitBegin \/ QuitStep
       PROVE  Goal
  <2>1. /\ pc["main"] \in {"quit kill", "quit_next"} /\ jobs' = jobs
        /\ jobIndex' = jobIndex /\ proc' = proc /\ pID' = pID
        /\ pc' = pc \/ Goto("main", "quit_read")
    BY <1>29 DEF QuitBegin, QuitStep, QuitNext, At
  <2> QED
    BY <1>1, <1>2, <1>6, <1>9, <2>1 DEF Holding
<1>30. ASSUME NEW h \in Handler, TestForeground(h)
       PROVE  Goal
  <2>1. /\ pc[h] = "test_fg" /\ jobs' = jobs /\ jobIndex' = jobIndex
        /\ proc' = proc /\ pID' = pID
        /\ Return(h) \/ Goto(h, "count") \/ Goto(h, "send")
    BY <1>30 DEF TestForeground, TestFlag, At
  <2>2. h \in Context /\ h # "main"
    BY DEF Context, Handler
  <2> QED
    BY <1>1, <1>6, <1>8, <2>1, <2>2
<1>31. ASSUME NEW h \in Handler, NEW sig, NEW itself, Send(h, sig, itself)
       PROVE  Goal
  <2>1. /\ pc[h] = "send" /\ Return(h) /\ jobs' = jobs /\ jobIndex' = jobIndex /\ pID' = pID
    BY <1>31 DEF Send, At
  <2>2. OneEnds
    BY <1>1, <1>4, <1>31 DEF Send, Killable
  <2> QED
    BY <1>8, <2>1, <2>2
<1>32. ASSUME NEW h \in Handler, Signal(h)
       PROVE  Goal
  <2>1. jobs' = jobs /\ jobIndex' = jobIndex /\ proc' = proc /\ pID' = pID
    BY <1>32 DEF Signal
  <2>2. /\ \/ pc'["ctrlZ"] = pc["ctrlZ"]
           \/ pc["ctrlZ"] = "idle" /\ pc'["ctrlZ"] = "prune"
        /\ \/ pc'["main"] = pc["main"]
           \/ pc["main"] = "wait" /\ pc'["main"] = "unflag"
    <3>1. pc \in [Context -> Labels] /\ pc[h] = "idle" /\ h # "main"
      BY <1>32 DEF Signal, TypeOK, Handler
    <3>2. CASE pc' = [pc EXCEPT ![h] = "prune"]
      BY <3>1, <3>2 DEF Context, Handler
    <3>3. CASE pc["main"] = "wait" /\ pc' = [pc EXCEPT ![h] = "prune", !["main"] = "unflag"]
      BY <3>1, <3>3 DEF Context, Handler
    <3> QED
      BY <1>32, <3>2, <3>3 DEF Signal, At
  <2>3. Given' = Given /\ InHand' = InHand /\ Ended' = Ended
    BY <2>1, <2>2 DEF Given, InHand, Holding, Ended, Over
  <2> QED
    BY <2>1, <2>3, TableKept DEF Goal
<1>33. ASSUME Tick \/ (\E c \in Context : Dangling(c)) \/ UNCHANGED vars
       PROVE  Goal
  <2>1. jobs' = jobs /\ jobIndex' = jobIndex /\ proc' = proc /\ pID' = pID /\ pc' = pc
    BY <1>33 DEF Tick, Dangling
  <2> QED
    BY <1>1, <1>9, <2>1
<1>34. ASSUME NEW p \in Pid, End(p) \/ \E sig \in {SIGSTOP, SIGCONT} : Outside(p, sig)
       PROVE  Goal
  <2>1. jobs' = jobs /\ jobIndex' = jobIndex /\ pID' = pID /\ pc' = pc
    BY <1>34 DEF End, Outside
  <2>2. OneEnds
    <3>1. End(p) => OneEnds
      BY EndsOne DEF End, OneEnds
    <3> QED
      BY <1>4, <1>34, <3>1 DEF Outside
  <2> QED
    BY <1>9, <2>1, <2>2
<1>35. Goal
  <2>1. CASE \E c \in Context : remove_finished_jobs(c) \/ add_job_to_jobs_list(c)
    BY <1>10, <1>11, <1>12, <1>13, <2>1 DEF remove_finished_jobs, add_job_to_jobs_list
  <2>2. CASE fg
    BY <1>14, <1>20, <1>22, <2>2 DEF fg, Walk
  <2>3. CASE bg
    BY <1>20, <1>23, <1>25, <2>3 DEF bg, Walk
  <2>4. CASE kill
    BY <1>20, <1>23, <1>26, <2>4 DEF kill, Walk
  <2>5. CASE quit
    BY <1>20, <1>27, <1>28, <1>29, <2>5 DEF quit, Walk
  <2>6. CASE ctrlCFunction \/ ctrlZFunction
    BY <1>2, <1>30, <1>31, <2>1, <2>6 DEF ctrlCFunction, ctrlZFunction, Handler
  <2> QED
    BY <1>2, <1>14, <1>15, <1>16, <1>17, <1>18, <1>19, <1>20, <1>32, <1>33, <1>34,
       <2>1, <2>2, <2>3, <2>4, <2>5, <2>6 DEF Next, Run, main, ExeExternal, Walk
<1> QED
  BY <1>35 DEF Goal

-----------------------------------------------------------------------------
(* The theorems *)

LEMMA LossInitially ==
  ASSUME Init
  PROVE  LossInv
<1>1. IteratorInv /\ ForegroundInv
  BY DEF Init, IteratorInv, ForegroundInv, Context, Handler
<1>2. \A p \in Pid : ChildInv(p)
  BY DEF Init, ChildInv, Alive, Running
<1> QED
  BY <1>1, <1>2 DEF LossInv

(* An iterator whose node is there refers to the node it was set to, main  *)
(* waits for what the handlers take for the foreground, and every living   *)
(* child is somewhere to be found.                                         *)
THEOREM LossInvHolds == Spec => [](IInv /\ LossInv)
<1>1. Init => IInv /\ LossInv
  BY Initially, LossInitially, BoundAssumption
<1>2. IInv /\ IInv' /\ LossInv /\ [Next]_vars => LossInv'
  <2> SUFFICES ASSUME IInv, LossInv, [Next]_vars
               PROVE  LossInv'
    OBVIOUS
  <2>1. TypeOK /\ Control /\ AddInv /\ JobIdsIncrease
    BY DEF IInv, Control
  <2>2. IteratorInv /\ ForegroundInv /\ \A p \in Pid : ChildInv(p)
    BY DEF LossInv
  <2>3. IteratorInv'
    BY <2>1, <2>2, IteratorStep
  <2>4. ForegroundInv'
    BY <2>1, <2>2, ForegroundStep
  <2>5. \A p \in Pid : ChildInv(p)'
    BY <2>1, <2>2, ChildStep
  <2> QED
    BY <2>3, <2>4, <2>5 DEF LossInv
<1> QED
  BY <1>1, <1>2, Inductive, PTL DEF Spec

(* No child is lost in silence, wherever ctrl-C and ctrl-Z interrupt main  *)
(* and each other.                                                         *)
THEOREM NoSilentLossHolds == Spec => []NoSilentLoss
<1>1. LossInv => NoSilentLoss
  <2> SUFFICES ASSUME LossInv, NEW p \in Pid, proc[p] \in Alive
               PROVE  p \in Listed \cup InHand \cup outside \/ (p \in refused /\ proc[p] \in Running)
    BY DEF NoSilentLoss
  <2>1. ChildInv(p)
    BY DEF LossInv
  <2> QED
    BY <2>1 DEF ChildInv, Found, Refused
<1> QED
  BY <1>1, LossInvHolds, PTL

(* Nothing but fg takes an entry off the list whose process is not over,   *)
(* however many contexts walk the list at once.                            *)
THEOREM OnlyFinishedRemovedHolds == Spec => OnlyFinishedRemoved
<1>1. IInv /\ LossInv /\ [Next]_vars =>
        [ \A i \in DOMAIN jobs :
            \/ \E j \in DOMAIN jobs' : jobs'[j].jobid = jobs[i].jobid
            \/ Over(jobs[i].pid)
            \/ pc["main"] = "fg_erase" /\ Current = "main" ]_vars
  BY OnlyFinishedStep DEF IInv, LossInv
<1> QED
  BY <1>1, LossInvHolds, PTL DEF Spec, OnlyFinishedRemoved

(* However many contexts walk the list, an iterator loses the node it      *)
(* needs only to a handler that erases it while its owner is interrupted.  *)
(* For the reverse_iterator of bg that is the node after the job it looks  *)
(* at, or the first job when it is the one looked at.                      *)
THEOREM OnlyHandlersDangleHolds == Spec => OnlyHandlersDangle
<1>1. IInv /\ IInv' /\ [Next]_vars =>
        [ \A c \in Context :
            ~Dangles(c) /\ Dangles(c)' =>
              \E h \in Handler \ {c} : At(h, "erase") /\ Needs(c, it[h]) ]_vars
  BY DangleStep DEF IInv, Control
<1> QED
  BY <1>1, Inductive, BoundAssumption, PTL DEF Spec, OnlyHandlersDangle

(* The count of signals does not go back.                                  *)
LEMMA SignalsStep ==
  ASSUME TypeOK, [Next]_vars, signals' = 0
  PROVE  signals = 0 /\ \A h \in Handler : ~Signal(h)
<1> USE DEF vars, locals, list, foreground, history
<1>1. signals \in Nat
  BY BoundAssumption DEF TypeOK
<1>2. /\ \A h \in Handler : Signal(h) => signals' = signals + 1
      /\ \A p \in Pid, sig \in {SIGSTOP, SIGCONT} : Outside(p, sig) => signals' = signals + 1
  BY DEF Signal, Outside
<1>3. CASE signals' = signals
  BY <1>1, <1>2, <1>3
<1>4. ASSUME NEW c \in Context, remove_finished_jobs(c) \/ add_job_to_jobs_list(c) \/ Dangling(c)
      PROVE  signals' = signals
  BY <1>4 DEF remove_finished_jobs, BeginPrune, TestJob, TestFor, EraseJob, EraseTo, KeepJob,
     add_job_to_jobs_list, CountJobs, CountFor, IncrementIndex, IndexFrom, PushJob, Dangling
<1>5. ASSUME ReadLine \/ ExeCmd \/ Fork \/ ForkFails \/ SetFlag \/ SetPid \/ Wait \/ ClearFlag
      PROVE  signals' = signals
  BY <1>5 DEF ReadLine, ExeCmd, Fork, ForkFails, SetFlag, SetPid, Wait, WaitFor, ClearFlag
<1>6. ASSUME Walk \/ fg \/ bg \/ kill \/ quit \/ Tick
      PROVE  signals' = signals
  <2>1. CASE Walk
    BY <2>1, WalkFacts
  <2>2. CASE ~Walk
    BY <1>6, <2>2 DEF Walk, fg, FgErase, Resume, bg, BgMark, BgResume, kill, KillSend, KillMark,
       quit, QuitBegin, QuitTerm, QuitPoll, PollUntil, QuitStep, Tick
  <2> QED
    BY <2>1, <2>2
<1>7. ASSUME NEW h \in Handler, TestForeground(h) \/ \E sig, itself : Send(h, sig, itself)
      PROVE  signals' = signals
  BY <1>7 DEF TestForeground, TestFlag, Send
<1>8. ASSUME NEW p \in Pid, End(p)
      PROVE  signals' = signals
  BY <1>8 DEF End
<1>9. {"main", "ctrlC", "ctrlZ"} \subseteq Context /\ {"ctrlC", "ctrlZ"} \subseteq Handler
  BY DEF Context, Handler
<1> QED
  BY <1>1, <1>2, <1>3, <1>4, <1>5, <1>6, <1>7, <1>8, <1>9
     DEF Next, Run, main, ctrlCFunction, ctrlZFunction, ExeExternal, Walk

(* While no handler runs, main goes on undefined only by an iterator that  *)
(* dangles, and only a signal makes a handler run.                         *)
LEMMA AloneStep ==
  ASSUME TypeOK, active = <<>>, [Next]_vars, \A h \in Handler : ~Signal(h)
  PROVE  /\ active' = <<>>
         /\ shell' = "undefined" => shell = "undefined" \/ Dangling("main")
<1> USE DEF vars, locals, list, foreground, history
<1> DEFINE Goal == active' = active /\ (shell' = "undefined" => shell = "undefined")
<1>1. Current = "main" /\ "main" \notin Handler
  BY DEF Current, Handler
<1>2. ASSUME NEW c \in Context, remove_finished_jobs(c)
      PROVE  Goal
  BY <1>2 DEF remove_finished_jobs, BeginPrune, TestJob, TestFor, EraseJob, EraseTo, KeepJob
<1>3. ASSUME NEW c \in Context, add_job_to_jobs_list(c)
      PROVE  Goal
  BY <1>1, <1>3 DEF add_job_to_jobs_list, CountJobs, CountFor, IncrementIndex, IndexFrom,
     PushJob, Step, At
<1>4. ASSUME NEW c \in Context, Dangling(c)
      PROVE  active' = active /\ c = "main"
  BY <1>1, <1>4 DEF Dangling
<1>5. ASSUME ReadLine \/ ExeCmd \/ Fork \/ ForkFails \/ SetFlag \/ SetPid \/ Wait \/ ClearFlag
      PROVE  Goal
  BY <1>5 DEF ReadLine, ExeCmd, Fork, ForkFails, SetFlag, SetPid, Wait, WaitFor, ClearFlag
<1>6. ASSUME Walk
      PROVE  Goal
  BY <1>6, WalkFacts
<1>7. ASSUME fg \/ bg \/ kill \/ quit \/ Tick
      PROVE  Goal
  <2>1. CASE ~Walk
    BY <1>7, <2>1 DEF Walk, fg, FgErase, Resume, bg, BgMark, BgResume, kill, KillSend, KillMark,
       quit, QuitBegin, QuitTerm, QuitPoll, PollUntil, QuitStep, QuitNext, Tick
  <2> QED
    BY <1>6, <2>1
<1>8. ASSUME NEW h \in Handler, TestForeground(h) \/ \E sig, itself : Send(h, sig, itself)
      PROVE  FALSE
  BY <1>1, <1>8 DEF TestForeground, TestFlag, Send, At
<1>9. ASSUME NEW p \in Pid, End(p) \/ \E sig \in {SIGSTOP, SIGCONT} : Outside(p, sig)
      PROVE  Goal
  BY <1>9 DEF End, Outside
<1>10. {"main", "ctrlC", "ctrlZ"} \subseteq Context /\ {"ctrlC", "ctrlZ"} \subseteq Handler
  BY DEF Context, Handler
<1> QED
  BY <1>2, <1>3, <1>4, <1>5, <1>6, <1>7, <1>8, <1>9, <1>10
     DEF Next, Run, main, ctrlCFunction, ctrlZFunction, ExeExternal, Walk

(* The invariant of a shell that nobody has signalled: no handler runs,    *)
(* and main's iterator has its node.                                       *)
Undisturbed ==
  signals = 0 => shell # "undefined" /\ active = <<>> /\ ~Dangles("main")

(* A shell that gets no signal never uses an iterator whose node is gone,  *)
(* whatever the commands and however its jobs end.                         *)
THEOREM UndisturbedDefinedHolds == Spec => []UndisturbedDefined
<1>1. Init => Undisturbed
  BY DEF Init, Undisturbed, Dangles, Visiting, Derefs, DerefsBehind, Context
<1>2. IInv /\ IInv' /\ Undisturbed /\ [Next]_vars => Undisturbed'
  <2> SUFFICES ASSUME IInv, IInv', Undisturbed, [Next]_vars, signals' = 0
               PROVE  shell' # "undefined" /\ active' = <<>> /\ ~Dangles("main")'
    BY DEF Undisturbed
  <2>1. TypeOK /\ Control /\ Control' /\ JobIdsIncrease
    BY DEF IInv, Control
  <2>2. signals = 0 /\ \A h \in Handler : ~Signal(h)
    BY <2>1, SignalsStep
  <2>3. shell # "undefined" /\ active = <<>> /\ ~Dangles("main")
    BY <2>2 DEF Undisturbed
  <2>4. ~Dangling("main")
    BY <2>3 DEF Dangling, Dangles, Visiting
  <2>5. active' = <<>> /\ shell' # "undefined"
    BY <2>1, <2>2, <2>3, <2>4, AloneStep
  <2>6. \A h \in Handler : Current # h
    BY <2>3 DEF Current, Handler
  <2>7. ~Dangles("main")'
    BY <2>1, <2>3, <2>6, DangleStep DEF At, Context
  <2> QED
    BY <2>5, <2>7
<1> QED
  BY <1>1, <1>2, Inductive, BoundAssumption, PTL DEF Spec, Undisturbed, UndisturbedDefined

(* Main and the handlers together implement the table of jobs: numbers     *)
(* without a gap, one entry at a time, and nothing that lives leaves but   *)
(* into the hands of the shell, for any number of processes and signals.   *)
THEOREM RefinesJobTable == Spec => ImplementsJobTable
<1>1. Init => Table!Init
  <2> SUFFICES ASSUME Init
               PROVE  Table!Init
    OBVIOUS
  <2>1. Given = 0 /\ InHand = {}
    BY DEF Init, Given, InHand, Holding, Context, Handler
  <2>2. Ended = {}
    BY DEF Init, Ended, Over
  <2> QED
    BY <2>1, <2>2 DEF Init, Table!Init
<1>2. IInv /\ LossInv /\ [Next]_vars => [Table!Next]_(Table!vars)
  BY TableStep DEF IInv, Control, LossInv
<1> QED
  BY <1>1, <1>2, LossInvHolds, PTL DEF Spec, ImplementsJobTable, Table!Spec
=============================================================================
