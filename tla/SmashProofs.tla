---------------------------- MODULE SmashProofs ----------------------------
(***************************************************************************)
(* Proofs about the shell's job list, for any number of processes, any     *)
(* limit of the list and any number of signals.                            *)
(***************************************************************************)
EXTENDS SmashProperties, TLAPS

SeqThm == INSTANCE SequenceTheorems

(* What is left of a sequence without its k-th element                     *)
LEMMA RemoveAtFacts ==
  ASSUME NEW S, NEW s \in Seq(S), NEW k \in 1..Len(s)
  PROVE  /\ RemoveAt(s, k) \in Seq(S)
         /\ Len(RemoveAt(s, k)) = Len(s) - 1
         /\ \A i \in 1..Len(s) - 1 :
              RemoveAt(s, k)[i] = IF i < k THEN s[i] ELSE s[i + 1]
<1> DEFINE a == SubSeq(s, 1, k - 1)
           b == SubSeq(s, k + 1, Len(s))
<1>1. Len(s) \in Nat /\ \A i \in 1..Len(s) : s[i] \in S
  OBVIOUS
<1>2. /\ a \in Seq(S) /\ Len(a) = k - 1
      /\ \A i \in 1..k - 1 : a[i] = s[i]
  <2>1. \A i \in 1..k - 1 : s[i] \in S
    BY <1>1
  <2>2. /\ a \in Seq(S)
        /\ Len(a) = IF 1 <= k - 1 THEN (k - 1) - 1 + 1 ELSE 0
        /\ \A i \in 1..(k - 1) - 1 + 1 : a[i] = s[1 + i - 1]
    BY <2>1, SeqThm!SubSeqProperties
  <2> QED
    BY <2>2, <1>1
<1>3. /\ b \in Seq(S) /\ Len(b) = Len(s) - k
      /\ \A i \in 1..Len(s) - k : b[i] = s[k + i]
  <2>1. \A i \in k + 1..Len(s) : s[i] \in S
    BY <1>1
  <2>2. /\ b \in Seq(S)
        /\ Len(b) = IF k + 1 <= Len(s) THEN Len(s) - (k + 1) + 1 ELSE 0
        /\ \A i \in 1..Len(s) - (k + 1) + 1 : b[i] = s[k + 1 + i - 1]
    BY <2>1, <1>1, SeqThm!SubSeqProperties
  <2> QED
    BY <2>2, <1>1
<1>4. RemoveAt(s, k) = a \o b
  BY DEF RemoveAt
<1>5. /\ a \o b \in Seq(S)
      /\ Len(a \o b) = Len(a) + Len(b)
      /\ \A i \in 1..Len(a) + Len(b) : (a \o b)[i] = IF i <= Len(a) THEN a[i] ELSE b[i - Len(a)]
  BY <1>2, <1>3, SeqThm!ConcatProperties
<1> HIDE DEF a, b
<1>6. ASSUME NEW i \in 1..Len(s) - 1
      PROVE  (a \o b)[i] = IF i < k THEN s[i] ELSE s[i + 1]
  <2>1. CASE i < k
    <3>1. i <= Len(a) /\ i \in 1..Len(a) + Len(b) /\ i \in 1..k - 1
      BY <2>1, <1>2, <1>3, <1>1
    <3> QED
      BY <3>1, <2>1, <1>5, <1>2
  <2>2. CASE ~(i < k)
    <3>1. ~(i <= Len(a)) /\ i \in 1..Len(a) + Len(b) /\ i - Len(a) \in 1..Len(s) - k
      BY <2>2, <1>2, <1>3, <1>1
    <3>2. (a \o b)[i] = b[i - Len(a)]
      BY <3>1, <1>5
    <3>3. b[i - Len(a)] = s[k + (i - Len(a))] /\ k + (i - Len(a)) = i + 1
      BY <3>1, <1>3, <1>2, <1>1
    <3> QED
      BY <3>2, <3>3, <2>2
  <2> QED
    BY <2>1, <2>2
<1>7. Len(a \o b) = Len(s) - 1
  BY <1>5, <1>2, <1>3, <1>1
<1> QED
  BY <1>4, <1>5, <1>6, <1>7

(* The top of a stack of one and of two *)
LEMMA Tops ==
  ASSUME NEW g, NEW h
  PROVE  /\ Last(<<g>>) = g /\ Last(<<g, h>>) = h
         /\ Front(<<g>>) = <<>> /\ Front(<<g, h>>) = <<g>>
         /\ Append(<<>>, g) = <<g>> /\ Append(<<g>>, h) = <<g, h>>
<1>1. Last(<<g>>) = g /\ Last(<<g, h>>) = h
  BY DEF Last
<1>2. Front(<<g>>) = <<>>
  <2>1. SubSeq(<<g>>, 1, 0) = <<>>
    BY SeqThm!SubSeqEmpty
  <2> QED
    BY <2>1 DEF Front
<1>3. Front(<<g, h>>) = <<g>>
  <2>1. /\ SubSeq(<<g, h>>, 1, 1) \in Seq({g, h})
        /\ Len(SubSeq(<<g, h>>, 1, 1)) = 1
        /\ SubSeq(<<g, h>>, 1, 1)[1] = g
    OBVIOUS
  <2>2. Front(<<g, h>>) = SubSeq(<<g, h>>, 1, 1)
    BY DEF Front
  <2>3. \A s \in Seq({g, h}) : Len(s) = 1 /\ s[1] = g => s = <<g>>
    OBVIOUS
  <2> QED
    BY <2>1, <2>2, <2>3
<1>4. Append(<<>>, g) = <<g>>
  OBVIOUS
<1>5. Append(<<g>>, h) = <<g, h>>
  <2>1. /\ Append(<<g>>, h) \in Seq({g, h})
        /\ Len(Append(<<g>>, h)) = 2
        /\ Append(<<g>>, h)[1] = g /\ Append(<<g>>, h)[2] = h
    OBVIOUS
  <2>2. \A s \in Seq({g, h}) : Len(s) = 2 /\ s[1] = g /\ s[2] = h => s = <<g, h>>
    OBVIOUS
  <2> QED
    BY <2>1, <2>2
<1> QED
  BY <1>1, <1>2, <1>3, <1>4, <1>5

(* A handler that returns leaves the rest of the stack. *)
LEMMA PopFacts ==
  ASSUME NEW s \in Stacks, s # <<>>
  PROVE  /\ Last(s) \in Handler
         /\ Front(s) \in Stacks
         /\ \E i \in DOMAIN s : s[i] = Last(s)
         /\ \A h \in Handler :
              (\A i \in DOMAIN Front(s) : Front(s)[i] # h)
                <=> (h = Last(s) \/ \A i \in DOMAIN s : s[i] # h)
<1>1. CASE s = <<"ctrlC">> \/ s = <<"ctrlZ">>
  <2>1. PICK g \in Handler : s = <<g>>
    BY <1>1 DEF Handler
  <2>2. Last(s) = g /\ Front(s) = <<>>
    BY <2>1, Tops
  <2> QED
    BY <2>1, <2>2 DEF Stacks, Handler
<1>2. CASE s = <<"ctrlC", "ctrlZ">> \/ s = <<"ctrlZ", "ctrlC">>
  <2>1. PICK g \in Handler, h \in Handler : g # h /\ s = <<g, h>>
    BY <1>2 DEF Handler
  <2>2. Last(s) = h /\ Front(s) = <<g>>
    BY <2>1, Tops
  <2>3. <<g>> \in Stacks
    BY DEF Stacks, Handler
  <2> QED
    BY <2>1, <2>2, <2>3
<1> QED
  BY <1>1, <1>2 DEF Stacks

(* A handler that is not on the stack can be put there. *)
LEMMA PushFacts ==
  ASSUME NEW s \in Stacks, NEW h \in Handler, \A i \in DOMAIN s : s[i] # h
  PROVE  /\ Append(s, h) \in Stacks
         /\ \A g \in Handler :
              (\A i \in DOMAIN Append(s, h) : Append(s, h)[i] # g)
                <=> (g # h /\ \A i \in DOMAIN s : s[i] # g)
<1>1. CASE s = <<>>
  <2>1. Append(s, h) = <<h>>
    BY <1>1, Tops
  <2> QED
    BY <2>1, <1>1 DEF Stacks, Handler
<1>2. CASE s = <<"ctrlC">> \/ s = <<"ctrlZ">>
  <2>1. PICK g \in Handler : s = <<g>> /\ g # h
    BY <1>2 DEF Handler
  <2>2. Append(s, h) = <<g, h>>
    BY <2>1, Tops
  <2>3. <<g, h>> \in Stacks
    BY <2>1 DEF Stacks, Handler
  <2>4. \A k : (\A i \in DOMAIN <<g>> : <<g>>[i] # k) <=> k # g
    OBVIOUS
  <2>5. \A k : (\A i \in DOMAIN <<g, h>> : <<g, h>>[i] # k) <=> k # g /\ k # h
    OBVIOUS
  <2> QED
    BY <2>1, <2>2, <2>3, <2>4, <2>5
<1>3. CASE s = <<"ctrlC", "ctrlZ">> \/ s = <<"ctrlZ", "ctrlC">>
  BY <1>3 DEF Handler
<1> QED
  BY <1>1, <1>2, <1>3 DEF Stacks

(* The iterator of a context that may use it refers to a node.             *)
LEMMA PositionFacts ==
  ASSUME jobs \in Seq(Job), NEW id \in Ids
  PROVE  /\ Position(id) \in 1..Len(jobs)
         /\ jobs[Position(id)].jobid = id
         /\ jobs[Position(id)] \in Job
         /\ After(id) \in Nat
<1>1. Position(id) \in DOMAIN jobs /\ jobs[Position(id)].jobid = id
  BY DEF Position, Ids
<1>2. \A i \in 1..Len(jobs) : jobs[i] \in Job /\ jobs[i].jobid \in Nat
  <2>1. \A i \in 1..Len(jobs) : jobs[i] \in Job
    OBVIOUS
  <2>2. \A j \in Job : j.jobid \in Nat
    BY DEF Job
  <2> QED
    BY <2>1, <2>2
<1>3. Position(id) \in 1..Len(jobs)
  BY <1>1
<1>4. After(id) \in Nat
  <2>1. Position(id) # Len(jobs) => Position(id) + 1 \in 1..Len(jobs)
    BY <1>3
  <2> QED
    BY <2>1, <1>2 DEF After
<1> QED
  BY <1>1, <1>2, <1>3, <1>4

(* The iterator begins at a node or at the end. *)
LEMMA FirstFacts ==
  ASSUME jobs \in Seq(Job)
  PROVE  First \in Nat
<1>1. jobs # <<>> => jobs[1] \in Job
  OBVIOUS
<1> QED
  BY <1>1 DEF First, Job

(* A context runs only while it is on top of the stack.                    *)
LEMMA TopFacts ==
  ASSUME TypeOK, NEW h \in Handler, Current = h
  PROVE  active # <<>> /\ h = Last(active)
BY DEF Current, Handler

-----------------------------------------------------------------------------
(* Types *)

(* A signal leaves a process in one of its states. *)
LEMMA DeliverType ==
  ASSUME proc \in [Pid -> ProcState], NEW p \in Pid, NEW sig, Deliver(p, sig)
  PROVE  proc' \in [Pid -> ProcState]
<1>1. \A s \in ProcState : Outcome(s, sig) \subseteq ProcState
  BY DEF Outcome, ProcState, Alive, Running
<1> QED
  BY <1>1 DEF Deliver

(* So does waitpid. *)
LEMMA ReapType ==
  ASSUME proc \in [Pid -> ProcState], NEW p, Reap(p)
  PROVE  proc' \in [Pid -> ProcState]
BY DEF Reap, ProcState

(* An idle shell has a command too. *)
LEMMA NoCommandType == NoCommand \in Command
<1>1. "other" \in Op \ {"kill"}
  BY DEF Op
<1>2. NoCommand \in { Line(op, 0, 0) : op \in Op \ {"kill"} }
  BY <1>1 DEF NoCommand
<1> QED
  BY <1>2 DEF Command

(* Back at the prompt the locals have their types. *)
LEMMA PromptType ==
  ASSUME TypeOK, Prompt
  PROVE  /\ pc' \in [Context -> Labels] /\ it' \in [Context -> Nat]
         /\ cmd' \in Command /\ pID' \in Pid \cup {0} /\ time_wasted' \in 4..6
<1>1. pc' \in [Context -> Labels] /\ it' \in [Context -> Nat]
  BY DEF TypeOK, Prompt, Goto, Context, Labels, Derefs, DerefsBehind
<1> QED
  BY <1>1, NoCommandType DEF Prompt, TypeOK

(* A handler on top of the stack can leave it. *)
LEMMA ReturnType ==
  ASSUME TypeOK, NEW h \in Handler, Current = h, Return(h)
  PROVE  pc' \in [Context -> Labels] /\ active' \in Stacks
<1>1. active' \in Stacks
  BY TopFacts, PopFacts DEF TypeOK, Return
<1>2. pc' \in [Context -> Labels]
  BY DEF TypeOK, Return, Goto, Context, Labels
<1> QED
  BY <1>1, <1>2

(* The node of an iterator that may be used, and the one after it *)
LEMMA NodeType ==
  ASSUME TypeOK, NEW c \in Context, Deref(c)
  PROVE  /\ Node(c) \in Job /\ Node(c).pid \in Pid \cup {0}
         /\ Position(it[c]) \in 1..Len(jobs) /\ Position(it[c]) \in DOMAIN jobs
         /\ After(it[c]) \in Nat
<1>1. it[c] \in Ids
  BY DEF Deref
<1>2. Node(c) \in Job /\ Position(it[c]) \in 1..Len(jobs) /\ After(it[c]) \in Nat
  BY <1>1, PositionFacts DEF TypeOK, Node
<1>3. DOMAIN jobs = 1..Len(jobs)
  BY DEF TypeOK
<1> QED
  BY <1>2, <1>3 DEF Job

(* An iterator that moves on stays in the list. *)
LEMMA AdvanceType ==
  ASSUME TypeOK, NEW c \in Context, NEW id \in Nat, Advance(c, id)
  PROVE  pc' \in [Context -> Labels] /\ it' \in [Context -> Nat]
<1>1. AfterPrune[c] \in {"dispatch", "test_fg"}
  BY DEF AfterPrune, Context, Handler
<1>2. {"test", "dispatch", "test_fg"} \subseteq Labels
  BY DEF Labels, Derefs, DerefsBehind
<1> QED
  BY <1>1, <1>2 DEF TypeOK, Advance, Goto

(* The node a reverse_iterator designates *)
LEMMA BehindType ==
  ASSUME TypeOK, DerefBehind
  PROVE  /\ Behind(it["main"]) \in 1..Len(jobs) /\ Behind(it["main"]) \in DOMAIN jobs
         /\ NodeBehind \in Job /\ NodeBehind.pid \in Pid \cup {0}
         /\ NodeBehind.jobid \in Ids
<1>1. Behind(it["main"]) \in DOMAIN jobs /\ DOMAIN jobs = 1..Len(jobs)
  BY DEF DerefBehind, TypeOK
<1>2. NodeBehind \in Job
  BY <1>1 DEF TypeOK, NodeBehind
<1>3. NodeBehind.jobid \in Ids
  BY <1>1 DEF Ids, NodeBehind
<1> QED
  BY <1>1, <1>2, <1>3 DEF Job

(* Where an iterator goes *)
LEMMA FirstOrNone ==
  ASSUME TypeOK
  PROVE  First \in {0} \cup Ids
<1>1. jobs # <<>> => 1 \in DOMAIN jobs
  BY DEF TypeOK
<1> QED
  BY <1>1 DEF First, Ids

LEMMA AfterOrNone ==
  ASSUME TypeOK, NEW id \in Ids
  PROVE  After(id) \in {0} \cup Ids
<1>1. Position(id) \in 1..Len(jobs) /\ DOMAIN jobs = 1..Len(jobs) /\ Len(jobs) \in Nat
  BY PositionFacts DEF TypeOK
<1>2. Position(id) # Len(jobs) => Position(id) + 1 \in DOMAIN jobs
  BY <1>1
<1> QED
  BY <1>2 DEF After, Ids

(* A node whose status changes is still a job. *)
LEMMA StatusType ==
  ASSUME TypeOK, NEW i \in DOMAIN jobs, NEW status \in JobStatus, SetStatus(i, status)
  PROVE  jobs' \in Seq(Job)
<1>1. jobs[i] \in Job /\ i \in 1..Len(jobs)
  BY DEF TypeOK
<1>2. [jobs[i] EXCEPT !.status = status] \in Job
  BY <1>1 DEF Job
<1>3. jobs' = [jobs EXCEPT ![i] = [jobs[i] EXCEPT !.status = status]]
  BY DEF SetStatus
<1> QED
  BY <1>1, <1>2, <1>3 DEF TypeOK

(* Every command has one of the ops. *)
LEMMA CommandOp ==
  ASSUME NEW c \in Command
  PROVE  c.op \in Op
<1>1. \A op, a, s : Line(op, a, s).op = op
  BY DEF Line
<1>2. {"fg", "bg", "kill"} \subseteq Op
  BY DEF Op
<1> QED
  BY <1>1, <1>2 DEF Command

-----------------------------------------------------------------------------
(* The walks of the built-ins, which only look *)

Walk ==
  \/ ShowJobs
  \/ FgBegin \/ FgBeginLast \/ FgLast \/ FgFind
  \/ BgBegin \/ BgFind \/ BgNext \/ BgTest \/ BgPid
  \/ KillBegin \/ KillFind \/ QuitRead

WalkFrom == {"jobs", "jobs_show", "fg", "fg_last", "fg_find", "bg", "bg_find", "bg_next",
             "bg_test", "bg_pid", "kill", "kill_find", "quit_read"}

(* It goes on to a node, *)
WalkOn ==
  \E l \in {"jobs_show", "fg_find", "kill_find"}, id \in Ids :
    Goto("main", l) /\ it' = [it EXCEPT !["main"] = id] /\ UNCHANGED locals

(* or backwards: from the end, from one node to the one before, or not,    *)
WalkBack ==
  \/ /\ \E l \in {"fg_last", "bg_test", "bg_find"} : Goto("main", l)
     /\ jobs # <<>> /\ it' = [it EXCEPT !["main"] = 0]
     /\ UNCHANGED locals
  \/ /\ pc["main"] = "bg_next" /\ Goto("main", "bg_find")
     /\ DerefBehind /\ Behind(it["main"]) # 1
     /\ it' = [it EXCEPT !["main"] = NodeBehind.jobid]
     /\ UNCHANGED locals
  \/ /\ pc["main"] \in {"bg_find", "bg_test", "bg_pid"}
     /\ \E l \in {"bg_test", "bg_next", "bg_pid", "bg_mark"} : Goto("main", l)
     /\ DerefBehind /\ UNCHANGED it
     /\ pID' \in {pID, NodeBehind.pid}

(* or takes the pid of the node it was looking for.                        *)
WalkEnds ==
  /\ pc["main"] \in {"fg_find", "kill_find", "quit_read"}
  /\ \E l \in {"fg_erase", "kill_send", "quit_term"} : Goto("main", l)
  /\ Deref("main") /\ pID' = Node("main").pid /\ UNCHANGED it

LEMMA WalkFacts ==
  ASSUME TypeOK, Walk
  PROVE  /\ Current = "main" /\ pc["main"] \in WalkFrom
         /\ UNCHANGED <<shell, active, list, foreground, proc, history>>
         /\ Prompt \/ (UNCHANGED <<cmd, time_wasted>> /\ (WalkOn \/ WalkBack \/ WalkEnds))
         /\ pc'["main"] \in {"fg_last", "fg_find", "fg_erase"} =>
              pc["main"] \in {"fg", "fg_last", "fg_find"}
<1> USE DEF WalkFrom, locals
<1> DEFINE Goal ==
      /\ Current = "main" /\ pc["main"] \in WalkFrom
      /\ UNCHANGED <<shell, active, list, foreground, proc, history>>
      /\ Prompt \/ (UNCHANGED <<cmd, time_wasted>> /\ (WalkOn \/ WalkBack \/ WalkEnds))
      /\ pc'["main"] \in {"fg_last", "fg_find", "fg_erase"} =>
           pc["main"] \in {"fg", "fg_last", "fg_find"}
<1>1. \A l : Goto("main", l) => pc'["main"] = l
  BY DEF Goto, TypeOK, Context
<1>2. Prompt => pc'["main"] = "prompt"
  BY <1>1 DEF Prompt
<1>3. ASSUME NEW from \in WalkFrom, NEW to \in {"jobs_show", "fg_find", "kill_find"},
             NEW id \in {0} \cup Ids, Looks(from), Visit(to, id),
             to = "fg_find" => from \in {"fg", "fg_last", "fg_find"}
      PROVE  Goal
  <2>1. Current = "main" /\ pc["main"] = from
    BY <1>3 DEF Looks, At
  <2>2. CASE id = 0
    BY <1>2, <1>3, <2>1, <2>2 DEF Looks, Visit
  <2>3. CASE id # 0
    <3>1. WalkOn /\ Goto("main", to)
      BY <1>3, <2>3 DEF Visit, WalkOn
    <3> QED
      BY <1>1, <1>3, <2>1, <2>3, <3>1 DEF Looks, Visit
  <2> QED
    BY <2>2, <2>3
<1>4. ASSUME NEW from \in WalkFrom, NEW to \in {"jobs_show", "fg_find", "kill_find"},
             Begin(from, to), to = "fg_find" => from \in {"fg", "fg_last", "fg_find"}
      PROVE  Goal
  BY <1>3, <1>4, FirstOrNone DEF Begin
<1>5. ASSUME NEW label \in {"jobs_show", "fg_find", "kill_find"}, GoOn(label)
      PROVE  Goal
  <2>1. After(it["main"]) \in {0} \cup Ids
    BY <1>5, AfterOrNone DEF GoOn, Deref
  <2> QED
    BY <1>3, <1>5, <2>1 DEF GoOn
<1>6. ASSUME NEW from \in {"fg_find", "kill_find", "quit_read"},
             NEW to \in {"fg_erase", "kill_send", "quit_term"}, Find(from, to),
             to = "fg_erase" => from = "fg_find"
      PROVE  Goal
  <2>1. WalkEnds
    BY <1>6 DEF Find, Looks, At, ReadPid, WalkEnds
  <2> QED
    BY <1>1, <1>6, <2>1 DEF Find, Looks, At, ReadPid
<1>7. ASSUME NEW from \in {"fg", "bg"}, NEW to \in {"fg_last", "bg_test", "bg_find"},
             Looks(from), VisitLast(to), to = "fg_last" => from = "fg"
      PROVE  Goal
  <2>1. CASE jobs = <<>>
    BY <1>2, <1>7, <2>1 DEF Looks, At, VisitLast
  <2>2. CASE jobs # <<>>
    <3>1. WalkBack /\ Goto("main", to)
      BY <1>7, <2>2 DEF VisitLast, WalkBack
    <3> QED
      BY <1>1, <1>7, <2>2, <3>1 DEF Looks, At, VisitLast
  <2> QED
    BY <2>1, <2>2
<1>8. ASSUME FgLast
      PROVE  Goal
  BY <1>3, <1>8, BehindType DEF FgLast
<1>9. ASSUME BgNext
      PROVE  Goal
  <2>1. Looks("bg_next") /\ DerefBehind
    BY <1>9 DEF BgNext
  <2>2. CASE Prompt
    BY <1>2, <2>1, <2>2 DEF Looks, At
  <2>3. CASE ~Prompt
    <3>1. WalkBack /\ Goto("main", "bg_find") /\ UNCHANGED locals
      BY <1>9, <2>1, <2>3 DEF BgNext, Looks, At, Visit, WalkBack
    <3> QED
      BY <1>1, <2>1, <3>1 DEF Looks, At
  <2> QED
    BY <2>2, <2>3
<1>10. ASSUME BgFind \/ BgTest \/ BgPid
       PROVE  Goal
  <2>1. PICK from \in {"bg_find", "bg_test", "bg_pid"} : Looks(from)
    BY <1>10 DEF BgFind, BgTest, BgPid
  <2>2. CASE Prompt
    BY <1>2, <2>1, <2>2 DEF Looks, At
  <2>3. CASE ~Prompt
    <3>1. /\ \E l \in {"bg_test", "bg_next", "bg_pid", "bg_mark"} : Goto("main", l)
          /\ DerefBehind /\ UNCHANGED <<it, cmd, time_wasted>>
          /\ pID' \in {pID, NodeBehind.pid}
      BY <1>10, <2>3 DEF BgFind, BgTest, BgPid, MoveOn, ReadPid
    <3>2. WalkBack
      BY <2>1, <3>1 DEF Looks, At, WalkBack
    <3> QED
      BY <1>1, <2>1, <3>1, <3>2 DEF Looks, At
  <2> QED
    BY <2>2, <2>3
<1>11. CASE ShowJobs \/ FgBegin \/ KillBegin
  BY <1>4, <1>5, <1>11 DEF ShowJobs, FgBegin, KillBegin
<1>12. CASE FgFind \/ KillFind \/ QuitRead
  BY <1>5, <1>6, <1>12 DEF FgFind, KillFind, QuitRead
<1>13. CASE FgBeginLast \/ BgBegin
  BY <1>7, <1>13 DEF FgBeginLast, BgBegin
<1> QED
  BY <1>8, <1>9, <1>10, <1>11, <1>12, <1>13 DEF Walk

(* The labels it may come to *)
WalkTo == {"prompt", "jobs_show", "fg_find", "fg_last", "fg_erase", "bg_find", "bg_next",
           "bg_test", "bg_pid", "bg_mark", "kill_find", "kill_send", "quit_term"}

LEMMA WalkGoes ==
  ASSUME TypeOK, Walk
  PROVE  \E l \in WalkTo : Goto("main", l)
BY WalkFacts DEF Prompt, WalkOn, WalkBack, WalkEnds, WalkTo

LEMMA WalkType ==
  ASSUME TypeOK, Walk
  PROVE  TypeOK'
<1> USE DEF locals, list, foreground, history
<1>1. Ids \subseteq Nat
  <2>1. \A i \in DOMAIN jobs : jobs[i] \in Job
    BY DEF TypeOK
  <2> QED
    BY <2>1 DEF Ids, Job
<1>2. WalkTo \subseteq Labels
  BY DEF WalkTo, Labels, Derefs, DerefsBehind
<1>3. pc' \in [Context -> Labels]
  BY <1>2, WalkGoes DEF TypeOK, Goto
<1>4. CASE Prompt
  BY <1>4, WalkFacts, PromptType DEF TypeOK
<1>5. CASE UNCHANGED <<cmd, time_wasted>> /\ (WalkOn \/ WalkBack \/ WalkEnds)
  <2>1. it' \in [Context -> Nat]
    <3>1. it' = it \/ \E id \in {0} \cup Ids : it' = [it EXCEPT !["main"] = id]
      BY <1>5, BehindType DEF WalkOn, WalkBack, WalkEnds
    <3> QED
      BY <1>1, <3>1 DEF TypeOK
  <2>2. pID' \in Pid \cup {0}
    BY <1>5, BehindType, NodeType DEF WalkOn, WalkBack, WalkEnds, TypeOK, Context
  <2> QED
    BY <1>3, <1>5, <2>1, <2>2, WalkFacts DEF TypeOK
<1> QED
  BY <1>4, <1>5, WalkFacts

(* No step leaves the types. *)
LEMMA TypeStep ==
  ASSUME TypeOK, StackInv, BoundAssumption, [Next]_vars
  PROVE  TypeOK'
<1> USE DEF vars, locals, list, foreground, history
<1>1. ASSUME ReadLine
      PROVE  TypeOK'
  BY <1>1 DEF TypeOK, At, Goto, Context, Handler, Labels, Derefs, DerefsBehind, ReadLine,
     Step
<1>2. ASSUME NEW c \in Context, BeginPrune(c)
      PROVE  TypeOK'
  <2>1. First \in Nat
    BY FirstFacts DEF TypeOK
  <2>2. pc' \in [Context -> Labels] /\ it' \in [Context -> Nat]
    BY <1>2, <2>1, AdvanceType DEF BeginPrune
  <2> QED
    BY <1>2, <2>1, <2>2 DEF TypeOK, At, Goto, Context, Handler, Labels,
       Derefs, DerefsBehind, BeginPrune
<1>3. ASSUME NEW c \in Context, TestJob(c)
      PROVE  TypeOK'
  BY <1>3, ReapType DEF TypeOK, At, Goto, Context, Handler, Labels, Derefs, DerefsBehind,
     TestJob, TestFor
<1>4. ASSUME NEW c \in Context, EraseJob(c)
      PROVE  TypeOK'
  <2>1. jobs' \in Seq(Job)
    BY <1>4, NodeType, RemoveAtFacts DEF TypeOK, EraseJob, EraseTo
  <2>2. pc' \in [Context -> Labels] /\ it' \in [Context -> Nat]
    BY <1>4, NodeType, AdvanceType DEF EraseJob, EraseTo
  <2> QED
    BY <1>4, <2>1, <2>2 DEF TypeOK, At, Goto, Context, Handler, Labels,
       Derefs, DerefsBehind, EraseJob, EraseTo
<1>5. ASSUME NEW c \in Context, KeepJob(c)
      PROVE  TypeOK'
  <2>1. pc' \in [Context -> Labels] /\ it' \in [Context -> Nat]
    BY <1>5, NodeType, AdvanceType DEF KeepJob
  <2> QED
    BY <1>5, <2>1 DEF TypeOK, At, Goto, Context, Handler, Labels, Derefs, DerefsBehind,
       KeepJob
<1>6. ASSUME NEW c \in {"main", "ctrlZ"}, CountJobs(c)
      PROVE  TypeOK'
  BY <1>6, PromptType, ReturnType DEF TypeOK, At, Goto, Context, Handler,
     Labels, Derefs, DerefsBehind, CountJobs, CountFor
<1>7. ASSUME NEW c \in Context, IncrementIndex(c)
      PROVE  TypeOK'
  <2>1. jobIndex' \in Nat
    BY <1>7 DEF TypeOK, IncrementIndex, IndexFrom
  <2> QED
    BY <1>7, <2>1 DEF TypeOK, At, Goto, Context, Handler, Labels, Derefs, DerefsBehind,
       IncrementIndex, IndexFrom, Step
<1>8. ASSUME NEW c \in Context, PushJob(c)
      PROVE  TypeOK'
  <2>1. NewJob(c) \in Job
    BY DEF TypeOK, NewJob, Job, JobStatus
  <2>2. jobs' \in Seq(Job)
    BY <1>8, <2>1 DEF TypeOK, PushJob
  <2> QED
    BY <1>8, <2>1, <2>2, PromptType DEF TypeOK, At, Goto, Context, Handler,
       Labels, Derefs, DerefsBehind, PushJob
<1>9. ASSUME ExeCmd
      PROVE  TypeOK'
  <2>1. \A c \in Command : c.op \in Op
    BY CommandOp
  <2>2. \A c \in Command : c.op \notin {"quit", "other"} =>
               (IF c.op \in {"external", "background"} THEN "fork" ELSE c.op) \in Labels
    BY <2>1 DEF Op, Labels, Derefs, DerefsBehind
  <2>3. cmd' \in Command /\ pc' \in [Context -> Labels] /\ it' \in [Context -> Nat]
           /\ pID' \in Pid \cup {0} /\ time_wasted' \in 4..6
    BY <1>9, <2>2, PromptType DEF TypeOK, ExeCmd, At, Goto
  <2> QED
    BY <1>9, <2>1, <2>2, <2>3 DEF TypeOK, At, Goto, Context, Handler, Labels,
       Derefs, DerefsBehind, ExeCmd
<1>10. ASSUME Fork
      PROVE  TypeOK'
  BY <1>10 DEF TypeOK, At, Goto, Context, Handler, Labels, Derefs, DerefsBehind, Fork,
     ProcState, Alive, Running
<1>11. ASSUME ForkFails
      PROVE  TypeOK'
  BY <1>11, PromptType DEF TypeOK, At, Goto, Context, Handler, Labels, Derefs, DerefsBehind,
     ForkFails
<1>12. ASSUME SetFlag
      PROVE  TypeOK'
  BY <1>12 DEF TypeOK, At, Goto, Context, Handler, Labels, Derefs, DerefsBehind, SetFlag,
     Step
<1>13. ASSUME SetPid
      PROVE  TypeOK'
  BY <1>13 DEF TypeOK, At, Goto, Context, Handler, Labels, Derefs, DerefsBehind, SetPid,
     Step
<1>14. ASSUME Wait
      PROVE  TypeOK'
  BY <1>14, ReapType DEF TypeOK, At, Goto, Context, Handler, Labels, Derefs, DerefsBehind,
     Wait, WaitFor, Step, ProcState, Alive, Running, Over
<1>15. ASSUME ClearFlag
      PROVE  TypeOK'
  BY <1>15, PromptType DEF TypeOK, At, Goto, Context, Handler, Labels, Derefs, DerefsBehind,
     ClearFlag
<1>16. ASSUME Walk
      PROVE  TypeOK'
  BY <1>16, WalkType
<1>18. ASSUME FgErase
      PROVE  TypeOK'
  BY <1>18, NodeType, RemoveAtFacts DEF TypeOK, At, Goto, Context, Handler,
     Labels, Derefs, DerefsBehind, FgErase, Step
<1>19. ASSUME Resume("fg_cont", "flag")
      PROVE  TypeOK'
  BY <1>19, DeliverType DEF TypeOK, At, Goto, Context, Handler, Labels,
     Derefs, DerefsBehind, Resume, Step, Killable
<1>20. ASSUME BgMark
      PROVE  TypeOK'
  <2>1. jobs' \in Seq(Job)
    BY <1>20, BehindType, StatusType DEF BgMark, JobStatus
  <2> QED
    BY <1>20, <2>1 DEF TypeOK, At, Goto, Context, Handler, Labels,
       Derefs, DerefsBehind, BgMark, Step
<1>21. ASSUME BgResume
      PROVE  TypeOK'
  BY <1>21, PromptType, DeliverType DEF TypeOK, At, Goto, Context, Handler,
     Labels, Derefs, DerefsBehind, BgResume, Killable
<1>22. ASSUME KillSend
      PROVE  TypeOK'
  <2>1. proc' \in [Pid -> ProcState]
    BY <1>22, DeliverType DEF TypeOK, KillSend, Killable
  <2> QED
    BY <1>22, <2>1, PromptType DEF TypeOK, At, Goto, Context, Handler, Labels,
       Derefs, DerefsBehind, KillSend
<1>23. ASSUME KillMark
      PROVE  TypeOK'
  <2>1. StatusAfter(cmd.sig) \in JobStatus
    BY DEF StatusAfter, JobStatus
  <2>2. SetStatus(Position(it["main"]), StatusAfter(cmd.sig)) /\ Position(it["main"]) \in DOMAIN jobs
    BY <1>23, NodeType DEF KillMark, Context
  <2>3. jobs' \in Seq(Job)
    BY <2>1, <2>2, StatusType
  <2> QED
    BY <1>23, <2>1, <2>3, PromptType DEF TypeOK, At, Goto, Context, Handler,
       Labels, Derefs, DerefsBehind, KillMark
<1>24. ASSUME QuitBegin
      PROVE  TypeOK'
  BY <1>24, FirstFacts DEF TypeOK, At, Goto, Context, Handler, Labels, Derefs, DerefsBehind,
     QuitBegin, QuitNext
<1>25. ASSUME QuitTerm
      PROVE  TypeOK'
  <2>1. proc' \in [Pid -> ProcState]
    BY <1>25, DeliverType DEF TypeOK, QuitTerm, Killable
  <2>2. "quit_poll" \in Labels
    BY DEF Labels, Derefs
  <2>3. pc' \in [Context -> Labels] /\ it' \in [Context -> Nat] /\ cmd' \in Command
    BY <1>25, <2>2, PromptType DEF TypeOK, QuitTerm, Goto
  <2>4. pID' \in Pid \cup {0} /\ time_wasted' \in 4..6
    BY <1>25, PromptType DEF QuitTerm, TypeOK
  <2> QED
    BY <1>25, <2>1, <2>3, <2>4 DEF TypeOK, QuitTerm
<1>26. ASSUME QuitPoll
      PROVE  TypeOK'
  BY <1>26, PromptType, ReapType DEF TypeOK, At, Goto, Context, Handler,
     Labels, Derefs, DerefsBehind, QuitPoll, PollUntil
<1>27. ASSUME QuitStep
      PROVE  TypeOK'
  <2>1. After(it["main"]) \in Nat
    BY <1>27, NodeType DEF QuitStep, Context
  <2> QED
    BY <1>27, <2>1 DEF TypeOK, At, Goto, Context, Handler, Labels, Derefs, DerefsBehind,
       QuitStep, QuitNext
<1>28. ASSUME NEW h \in Handler, TestForeground(h)
      PROVE  TypeOK'
  BY <1>28, ReturnType DEF TypeOK, At, Goto, Context, Handler, Labels, Derefs, DerefsBehind,
     TestForeground, TestFlag
<1>29. ASSUME NEW h \in Handler, NEW sig \in {SIGKILL, SIGSTOP},
             NEW itself \in {"killed", "halted"}, Send(h, sig, itself)
      PROVE  TypeOK'
  BY <1>29, ReturnType, DeliverType DEF TypeOK, At, Goto, Context, Handler,
     Labels, Derefs, DerefsBehind, Send, Killable
<1>30. ASSUME NEW c \in Context, Dangling(c)
      PROVE  TypeOK'
  BY <1>30 DEF TypeOK, At, Goto, Context, Handler, Labels, Derefs, DerefsBehind, Dangling
<1>31. ASSUME Tick
      PROVE  TypeOK'
  <2>1. time_wasted' \in 4..6
    BY <1>31 DEF TypeOK, Tick
  <2> QED
    BY <1>31, <2>1 DEF TypeOK, At, Goto, Context, Handler, Labels, Derefs, DerefsBehind,
       Tick
<1>32. ASSUME NEW h \in Handler, Signal(h)
      PROVE  TypeOK'
  <2>1. active' \in Stacks
    BY <1>32, PushFacts DEF TypeOK, StackInv, Signal
  <2>2. signals' \in 0..MaxSignals
    BY <1>32 DEF TypeOK, Signal, BoundAssumption
  <2> QED
    BY <1>32, <2>1, <2>2 DEF TypeOK, At, Goto, Context, Handler, Labels,
       Derefs, DerefsBehind, Signal
<1>33. ASSUME NEW p \in Pid, End(p)
      PROVE  TypeOK'
  BY <1>33 DEF TypeOK, At, Goto, Context, Handler, Labels, Derefs, DerefsBehind, End,
     ProcState, Alive, Running
<1>34. ASSUME NEW p \in Pid, NEW sig \in {SIGSTOP, SIGCONT}, Outside(p, sig)
      PROVE  TypeOK'
  <2>1. signals' \in 0..MaxSignals
    BY <1>34 DEF TypeOK, Outside, BoundAssumption
  <2>2. proc' \in [Pid -> ProcState]
    BY <1>34, DeliverType DEF TypeOK, Outside
  <2> QED
    BY <1>34, <2>1, <2>2 DEF TypeOK, At, Goto, Context, Handler, Labels,
       Derefs, DerefsBehind, Outside
<1>35. ASSUME UNCHANGED vars
      PROVE  TypeOK'
  BY <1>35 DEF TypeOK, At, Goto, Context, Handler, Labels, Derefs, DerefsBehind
<1> QED
  BY <1>1, <1>2, <1>3, <1>4, <1>5, <1>6, <1>7, <1>8, <1>9, <1>10, <1>11,
     <1>12, <1>13, <1>14, <1>15, <1>16, <1>18, <1>19, <1>20, <1>21,
     <1>22, <1>23, <1>24, <1>25, <1>26, <1>27, <1>28, <1>29, <1>30, <1>31,
     <1>32, <1>33, <1>34, <1>35 DEF Next, Run, main, ctrlCFunction,
     ctrlZFunction, remove_finished_jobs, add_job_to_jobs_list, ExeExternal,
     Walk, fg, bg, kill, quit, Context, Handler, Labels,
     Derefs, DerefsBehind

-----------------------------------------------------------------------------
(* Control: the stack of contexts, their labels and waite_for_fg *)

Control == StackInv /\ FlagInv /\ LabelInv
MainLabels == Labels \ {"idle", "test_fg", "send"}
Pruning == {"prune", "test", "erase", "next", "test_fg"}
AtForeground == {"count", "index", "push", "send"}

(* Main runs only when no handler does, a handler only when it is at work. *)
LEMMA Runs ==
  ASSUME TypeOK, StackInv, NEW c \in Context, Current = c
  PROVE  /\ c = "main" => active = <<>> /\ pc["ctrlC"] = "idle" /\ pc["ctrlZ"] = "idle"
         /\ c \in Handler => pc[c] # "idle"
<1>1. CASE active = <<>>
  BY <1>1 DEF Current, StackInv, Handler
<1>2. CASE active # <<>>
  <2>1. c = Last(active) /\ c \in Handler /\ \E i \in DOMAIN active : active[i] = c
    BY <1>2, PopFacts DEF Current, TypeOK
  <2> QED
    BY <2>1 DEF StackInv, Handler
<1> QED
  BY <1>1, <1>2

(* A step of main to a label that agrees with waite_for_fg *)
LEMMA MainMoves ==
  ASSUME TypeOK, Control, Current = "main",
         NEW l \in MainLabels, Goto("main", l), active' = active,
         waite_for_fg' => l \in {"set_pid", "wait", "unflag"}
  PROVE  Control'
<1>1. pc["ctrlC"] = "idle" /\ pc["ctrlZ"] = "idle"
  BY Runs DEF Control, Context
<1>2. /\ pc'["main"] = l
      /\ \A h \in Handler : pc'[h] = pc[h]
  BY DEF Goto, TypeOK, Context, Handler
<1>3. StackInv'
  BY <1>2 DEF Control, StackInv
<1>4. FlagInv'
  BY <1>1, <1>2 DEF FlagInv, Handler
<1>5. LabelInv'
  BY <1>1, <1>2 DEF LabelInv, Handler, MainLabels
<1> QED
  BY <1>3, <1>4, <1>5 DEF Control

(* A step of a handler, that of ctrl-Z with waite_for_fg set *)
LEMMA HandlerMoves ==
  ASSUME TypeOK, Control, NEW h \in Handler, Current = h,
         NEW l \in Pruning \cup AtForeground, Goto(h, l), active' = active,
         waite_for_fg' = waite_for_fg,
         h = "ctrlC" => l \in Pruning \cup {"send"},
         h = "ctrlZ" /\ l \in AtForeground => waite_for_fg
  PROVE  Control'
<1>1. pc[h] # "idle"
  BY Runs DEF Control, Context
<1>2. /\ pc'[h] = l /\ l # "idle"
      /\ \A c \in Context \ {h} : pc'[c] = pc[c]
  BY DEF Goto, TypeOK, Context, Pruning, AtForeground
<1>3. StackInv'
  BY <1>1, <1>2 DEF Control, StackInv, Context
<1>4. FlagInv'
  BY <1>2 DEF Control, FlagInv, Handler, Context, AtForeground
<1>5. LabelInv'
  BY <1>2 DEF Control, LabelInv, Handler, Context, Pruning, AtForeground
<1> QED
  BY <1>3, <1>4, <1>5 DEF Control

(* A handler that returns leaves the stack and is idle. *)
LEMMA HandlerReturns ==
  ASSUME TypeOK, Control, NEW h \in Handler, Current = h, Return(h),
         waite_for_fg' = waite_for_fg
  PROVE  Control'
<1>1. active # <<>> /\ h = Last(active)
  BY TopFacts
<1>2. \A g \in Handler :
        (\A i \in DOMAIN active' : active'[i] # g)
          <=> (g = h \/ \A i \in DOMAIN active : active[i] # g)
  BY <1>1, PopFacts DEF TypeOK, Return
<1>3. /\ pc'[h] = "idle"
      /\ \A c \in Context \ {h} : pc'[c] = pc[c]
  BY DEF Return, Goto, TypeOK, Context
<1>4. StackInv'
  BY <1>2, <1>3 DEF Control, StackInv, Context
<1>5. FlagInv'
  BY <1>3 DEF Control, FlagInv, Handler, Context
<1>6. LabelInv'
  BY <1>3 DEF Control, LabelInv, Handler, Context
<1> QED
  BY <1>4, <1>5, <1>6 DEF Control

(* A handler that begins was not on the stack, and may end main's waitpid. *)
LEMMA Interrupts ==
  ASSUME TypeOK, Control, NEW h \in Handler, Signal(h)
  PROVE  Control'
<1>1. \A g \in Handler :
        (\A i \in DOMAIN active' : active'[i] # g)
          <=> (g # h /\ \A i \in DOMAIN active : active[i] # g)
  <2>1. \A i \in DOMAIN active : active[i] # h
    BY DEF Control, StackInv, Signal
  <2>2. active' = Append(active, h) /\ active \in Stacks
    BY DEF Signal, TypeOK
  <2> QED
    BY <2>1, <2>2, PushFacts
<1>2. /\ pc'[h] = "prune"
      /\ \A g \in Handler \ {h} : pc'[g] = pc[g]
      /\ \/ pc'["main"] = pc["main"]
         \/ pc["main"] = "wait" /\ pc'["main"] = "unflag"
  <2>1. pc \in [Context -> Labels] /\ h \in Context /\ h # "main" /\ Handler \subseteq Context
    BY DEF TypeOK, Context, Handler
  <2>2. CASE pc' = [pc EXCEPT ![h] = "prune"]
    BY <2>1, <2>2 DEF Context
  <2>3. CASE pc["main"] = "wait" /\ pc' = [pc EXCEPT ![h] = "prune", !["main"] = "unflag"]
    BY <2>1, <2>3 DEF Context, Handler
  <2> QED
    BY <2>2, <2>3 DEF Signal, At
<1>3. StackInv'
  BY <1>1, <1>2 DEF Control, StackInv
<1>4. FlagInv'
  BY <1>2 DEF Control, FlagInv, Handler, Signal, foreground
<1>5. LabelInv'
  BY <1>2 DEF Control, LabelInv, Handler
<1> QED
  BY <1>3, <1>4, <1>5 DEF Control

(* No step breaks the discipline of the contexts. *)
LEMMA ControlStep ==
  ASSUME TypeOK, Control, [Next]_vars
  PROVE  Control'
<1> USE DEF vars, locals, list, foreground, history
<1>1. ASSUME ReadLine
      PROVE  Control'
  BY <1>1, MainMoves DEF Prompt, ReadLine, Step, At, Goto, Control, FlagInv,
     LabelInv, MainLabels, Labels, Derefs, DerefsBehind
<1>2. ASSUME NEW c \in Context, BeginPrune(c)
      PROVE  Control'
  <2>1. CASE c = "main"
    BY <1>2, <2>1, MainMoves DEF Prompt, BeginPrune, Advance, AfterPrune, At,
       Goto, Control, FlagInv, LabelInv, MainLabels, Labels, Derefs, DerefsBehind
  <2>2. CASE c \in Handler
    <3>1. AfterPrune[c] = "test_fg"
      BY <2>2 DEF AfterPrune, Handler
    <3> QED
      BY <1>2, <2>2, <3>1, HandlerMoves DEF BeginPrune, Advance, At, Goto,
         Control, FlagInv, LabelInv, MainLabels, Labels, Derefs, DerefsBehind, Handler,
         Pruning, AtForeground
  <2> QED
    BY <2>1, <2>2 DEF Context
<1>3. ASSUME NEW c \in Context, TestJob(c)
      PROVE  Control'
  <2>1. CASE c = "main"
    BY <1>3, <2>1, MainMoves DEF Prompt, TestJob, TestFor, At, Goto, Control,
       FlagInv, LabelInv, MainLabels, Labels, Derefs, DerefsBehind
  <2>2. CASE c \in Handler
    BY <1>3, <2>2, HandlerMoves DEF TestJob, TestFor, At, Goto, Control,
       FlagInv, LabelInv, MainLabels, Labels, Derefs, DerefsBehind, Handler, Pruning,
       AtForeground
  <2> QED
    BY <2>1, <2>2 DEF Context
<1>4. ASSUME NEW c \in Context, EraseJob(c)
      PROVE  Control'
  <2>1. CASE c = "main"
    BY <1>4, <2>1, MainMoves DEF Prompt, EraseJob, EraseTo, Advance, AfterPrune, At,
       Goto, Control, FlagInv, LabelInv, MainLabels, Labels, Derefs, DerefsBehind
  <2>2. CASE c \in Handler
    <3>1. AfterPrune[c] = "test_fg"
      BY <2>2 DEF AfterPrune, Handler
    <3> QED
      BY <1>4, <2>2, <3>1, HandlerMoves DEF EraseJob, EraseTo, Advance, At, Goto,
         Control, FlagInv, LabelInv, MainLabels, Labels, Derefs, DerefsBehind, Handler,
         Pruning, AtForeground
  <2> QED
    BY <2>1, <2>2 DEF Context
<1>5. ASSUME NEW c \in Context, KeepJob(c)
      PROVE  Control'
  <2>1. CASE c = "main"
    BY <1>5, <2>1, MainMoves DEF Prompt, KeepJob, Advance, AfterPrune, At,
       Goto, Control, FlagInv, LabelInv, MainLabels, Labels, Derefs, DerefsBehind
  <2>2. CASE c \in Handler
    <3>1. AfterPrune[c] = "test_fg"
      BY <2>2 DEF AfterPrune, Handler
    <3> QED
      BY <1>5, <2>2, <3>1, HandlerMoves DEF KeepJob, Advance, At, Goto,
         Control, FlagInv, LabelInv, MainLabels, Labels, Derefs, DerefsBehind, Handler,
         Pruning, AtForeground
  <2> QED
    BY <2>1, <2>2 DEF Context
<1>6. ASSUME NEW c \in {"main", "ctrlZ"}, CountJobs(c)
      PROVE  Control'
  <2>1. CASE c = "main"
    BY <1>6, <2>1, MainMoves DEF Prompt, CountJobs, CountFor, At, Goto,
       Control, FlagInv, LabelInv, MainLabels, Labels, Derefs, DerefsBehind
  <2>2. CASE c = "ctrlZ"
    BY <1>6, <2>2, HandlerMoves, HandlerReturns DEF CountJobs, CountFor, At,
       Goto, Control, FlagInv, LabelInv, MainLabels, Labels, Derefs, DerefsBehind, Handler,
       Pruning, AtForeground
  <2> QED
    BY <2>1, <2>2 DEF Context
<1>7. ASSUME NEW c \in Context, IncrementIndex(c)
      PROVE  Control'
  <2>1. CASE c = "main"
    BY <1>7, <2>1, MainMoves DEF Prompt, IncrementIndex, IndexFrom, Step, At,
       Goto, Control, FlagInv, LabelInv, MainLabels, Labels, Derefs, DerefsBehind
  <2>2. CASE c \in Handler
    BY <1>7, <2>2, HandlerMoves DEF IncrementIndex, IndexFrom, Step, At, Goto,
       Control, FlagInv, LabelInv, MainLabels, Labels, Derefs, DerefsBehind, Handler,
       Pruning, AtForeground
  <2> QED
    BY <2>1, <2>2 DEF Context
<1>8. ASSUME NEW c \in Context, PushJob(c)
      PROVE  Control'
  <2>1. CASE c = "main"
    BY <1>8, <2>1, MainMoves DEF Prompt, PushJob, At, Goto, Control, FlagInv,
       LabelInv, MainLabels, Labels, Derefs, DerefsBehind
  <2>2. CASE c \in Handler
    BY <1>8, <2>2, HandlerMoves DEF PushJob, At, Goto, Control, FlagInv,
       LabelInv, MainLabels, Labels, Derefs, DerefsBehind, Handler, Pruning, AtForeground
  <2> QED
    BY <2>1, <2>2 DEF Context
<1>9. ASSUME ExeCmd
      PROVE  Control'
  <2>1. \A c \in Command : c.op \notin {"quit", "other"} =>
          (IF c.op \in {"external", "background"} THEN "fork" ELSE c.op)
             \in MainLabels \ {"set_pid", "wait", "unflag"}
    BY CommandOp DEF Op, MainLabels, Labels, Derefs, DerefsBehind
  <2>2. CASE pc' = pc
    BY <1>9, <2>2 DEF ExeCmd, Control, StackInv, FlagInv, LabelInv
  <2>3. CASE pc' # pc
    BY <1>9, <2>1, <2>3, MainMoves DEF ExeCmd, Prompt, At, Goto, Control, FlagInv, MainLabels, Labels, Derefs, DerefsBehind
  <2> QED
    BY <2>2, <2>3
<1>10. ASSUME Fork
      PROVE  Control'
  BY <1>10, MainMoves DEF Prompt, Fork, At, Goto, Control, FlagInv, LabelInv,
     MainLabels, Labels, Derefs, DerefsBehind
<1>11. ASSUME ForkFails
      PROVE  Control'
  BY <1>11, MainMoves DEF Prompt, ForkFails, At, Goto, Control, FlagInv,
     LabelInv, MainLabels, Labels, Derefs, DerefsBehind
<1>12. ASSUME SetFlag
      PROVE  Control'
  BY <1>12, MainMoves DEF Prompt, SetFlag, Step, At, Goto, Control, FlagInv,
     LabelInv, MainLabels, Labels, Derefs, DerefsBehind
<1>13. ASSUME SetPid
      PROVE  Control'
  BY <1>13, MainMoves DEF Prompt, SetPid, Step, At, Goto, Control, FlagInv,
     LabelInv, MainLabels, Labels, Derefs, DerefsBehind
<1>14. ASSUME Wait
      PROVE  Control'
  BY <1>14, MainMoves DEF Prompt, Wait, WaitFor, Step, At, Goto, Control,
     FlagInv, LabelInv, MainLabels, Labels, Derefs, DerefsBehind
<1>15. ASSUME ClearFlag
      PROVE  Control'
  BY <1>15, MainMoves DEF Prompt, ClearFlag, At, Goto, Control, FlagInv,
     LabelInv, MainLabels, Labels, Derefs, DerefsBehind
<1>16. ASSUME Walk
      PROVE  Control'
  <2>1. WalkTo \subseteq MainLabels /\ WalkTo \cap {"set_pid", "wait", "unflag"} = {}
    BY DEF WalkTo, MainLabels, Labels, Derefs, DerefsBehind
  <2>2. pc["main"] \notin {"set_pid", "wait", "unflag"}
    BY <1>16, WalkFacts DEF WalkFrom
  <2> QED
    BY <1>16, <2>1, <2>2, WalkFacts, WalkGoes, MainMoves DEF Control, FlagInv
<1>18. ASSUME FgErase
      PROVE  Control'
  BY <1>18, MainMoves DEF Prompt, FgErase, Step, At, Goto, Control, FlagInv,
     LabelInv, MainLabels, Labels, Derefs, DerefsBehind
<1>19. ASSUME Resume("fg_cont", "flag")
      PROVE  Control'
  BY <1>19, MainMoves DEF Prompt, Resume, Step, At, Goto, Control, FlagInv,
     LabelInv, MainLabels, Labels, Derefs, DerefsBehind
<1>20. ASSUME BgMark
      PROVE  Control'
  BY <1>20, MainMoves DEF Prompt, BgMark, Step, At, Goto, Control, FlagInv,
     LabelInv, MainLabels, Labels, Derefs, DerefsBehind
<1>21. ASSUME BgResume
      PROVE  Control'
  BY <1>21, MainMoves DEF Prompt, BgResume, At, Goto, Control, FlagInv,
     LabelInv, MainLabels, Labels, Derefs, DerefsBehind
<1>22. ASSUME KillSend
      PROVE  Control'
  BY <1>22, MainMoves DEF Prompt, KillSend, At, Goto, Control, FlagInv,
     LabelInv, MainLabels, Labels, Derefs, DerefsBehind
<1>23. ASSUME KillMark
      PROVE  Control'
  BY <1>23, MainMoves DEF Prompt, KillMark, At, Goto, Control, FlagInv,
     LabelInv, MainLabels, Labels, Derefs, DerefsBehind
<1>24. ASSUME QuitBegin
      PROVE  Control'
  <2>1. CASE pc' = pc
    BY <1>24, <2>1 DEF QuitBegin, QuitNext, Control, StackInv, FlagInv,
       LabelInv
  <2>2. CASE pc' # pc
    BY <1>24, <2>2, MainMoves DEF Prompt, QuitBegin, QuitNext, At, Goto,
       Control, FlagInv, LabelInv, MainLabels, Labels, Derefs, DerefsBehind
  <2> QED
    BY <2>1, <2>2
<1>25. ASSUME QuitTerm
      PROVE  Control'
  BY <1>25, MainMoves DEF Prompt, QuitTerm, At, Goto, Control, FlagInv,
     LabelInv, MainLabels, Labels, Derefs, DerefsBehind
<1>26. ASSUME QuitPoll
      PROVE  Control'
  <2>1. CASE pc' = pc
    BY <1>26, <2>1 DEF QuitPoll, PollUntil, Control, StackInv, FlagInv,
       LabelInv
  <2>2. CASE pc' # pc
    BY <1>26, <2>2, MainMoves DEF Prompt, QuitPoll, PollUntil, At, Goto,
       Control, FlagInv, LabelInv, MainLabels, Labels, Derefs, DerefsBehind
  <2> QED
    BY <2>1, <2>2
<1>27. ASSUME QuitStep
      PROVE  Control'
  <2>1. CASE pc' = pc
    BY <1>27, <2>1 DEF QuitStep, QuitNext, Control, StackInv, FlagInv,
       LabelInv
  <2>2. CASE pc' # pc
    BY <1>27, <2>2, MainMoves DEF Prompt, QuitStep, QuitNext, At, Goto,
       Control, FlagInv, LabelInv, MainLabels, Labels, Derefs, DerefsBehind
  <2> QED
    BY <2>1, <2>2
<1>28. ASSUME NEW h \in Handler, TestForeground(h)
      PROVE  Control'
  BY <1>28, HandlerMoves, HandlerReturns DEF TestForeground, TestFlag, At,
     Handler, Pruning, AtForeground
<1>29. ASSUME NEW h \in Handler, NEW sig, NEW itself, Send(h, sig, itself)
      PROVE  Control'
  BY <1>29, HandlerReturns DEF Send, At
<1>30. ASSUME NEW c \in Context, Dangling(c)
      PROVE  Control'
  BY <1>30 DEF Dangling, Control, StackInv, FlagInv, LabelInv
<1>31. ASSUME Tick
      PROVE  Control'
  BY <1>31 DEF Tick, Control, StackInv, FlagInv, LabelInv
<1>32. ASSUME NEW h \in Handler, Signal(h)
      PROVE  Control'
  BY <1>32, Interrupts
<1>33. ASSUME NEW p \in Pid, End(p)
      PROVE  Control'
  BY <1>33 DEF End, Control, StackInv, FlagInv, LabelInv
<1>34. ASSUME NEW p \in Pid, NEW sig \in {SIGSTOP, SIGCONT}, Outside(p, sig)
      PROVE  Control'
  BY <1>34 DEF Outside, Control, StackInv, FlagInv, LabelInv
<1>35. ASSUME UNCHANGED vars
      PROVE  Control'
  BY <1>35 DEF Control, StackInv, FlagInv, LabelInv
<1> QED
  BY <1>1, <1>2, <1>3, <1>4, <1>5, <1>6, <1>7, <1>8, <1>9, <1>10, <1>11,
     <1>12, <1>13, <1>14, <1>15, <1>16, <1>18, <1>19, <1>20, <1>21,
     <1>22, <1>23, <1>24, <1>25, <1>26, <1>27, <1>28, <1>29, <1>30, <1>31,
     <1>32, <1>33, <1>34, <1>35 DEF Next, Run, main, ctrlCFunction,
     ctrlZFunction, remove_finished_jobs, add_job_to_jobs_list, ExeExternal,
     Walk, fg, bg, kill, quit, Context, Handler,
     MainLabels, Labels, Derefs, DerefsBehind

-----------------------------------------------------------------------------
(* The list of jobs *)

ListInv == AddInv /\ JobIdsIncrease /\ JobListBounded

(* A step that leaves the ids in the list, and begins no addition, is fine. *)
LEMMA ListKept ==
  ASSUME ListInv, jobIndex' = jobIndex, Len(jobs') = Len(jobs),
         DOMAIN jobs' = DOMAIN jobs,
         \A i \in DOMAIN jobs : jobs'[i].jobid = jobs[i].jobid,
         \A c \in Context : pc'[c] \in {"index", "push"} => pc'[c] = pc[c]
  PROVE  ListInv'
<1>1. JobIdsIncrease'
  BY DEF ListInv, JobIdsIncrease
<1>2. JobListBounded'
  BY DEF ListInv, JobListBounded
<1>3. AddInv'
  BY DEF ListInv, AddInv
<1> QED
  BY <1>1, <1>2, <1>3 DEF ListInv

(* Nor does the list lose its order or pass its limit when a node goes.    *)
LEMMA ListShrinks ==
  ASSUME TypeOK, BoundAssumption, ListInv, NEW k \in 1..Len(jobs),
         jobs' = RemoveAt(jobs, k), jobIndex' = jobIndex,
         \A c \in Context : pc'[c] \in {"index", "push"} => pc'[c] = pc[c]
  PROVE  ListInv'
<1>1. /\ jobs' \in Seq(Job) /\ Len(jobs') = Len(jobs) - 1
      /\ \A i \in 1..Len(jobs) - 1 :
           jobs'[i] = IF i < k THEN jobs[i] ELSE jobs[i + 1]
  BY RemoveAtFacts DEF TypeOK
<1>2. Len(jobs) \in Nat /\ DOMAIN jobs = 1..Len(jobs) /\ DOMAIN jobs' = 1..Len(jobs) - 1
  BY <1>1 DEF TypeOK
<1> DEFINE f(i) == IF i < k THEN i ELSE i + 1
<1>3. \A i \in DOMAIN jobs' : f(i) \in DOMAIN jobs /\ jobs'[i] = jobs[f(i)]
  BY <1>1, <1>2
<1>4. \A i, j \in DOMAIN jobs' : i < j => f(i) < f(j)
  BY <1>2
<1> HIDE DEF f
<1>5. JobIdsIncrease'
  <2>1. ASSUME NEW i \in DOMAIN jobs', NEW j \in DOMAIN jobs', i < j
        PROVE  jobs'[i].jobid < jobs'[j].jobid
    BY <2>1, <1>3, <1>4 DEF ListInv, JobIdsIncrease
  <2>2. ASSUME NEW i \in DOMAIN jobs'
        PROVE  jobs'[i].jobid <= jobIndex'
    BY <1>3 DEF ListInv, JobIdsIncrease
  <2> QED
    BY <2>1, <2>2 DEF JobIdsIncrease
<1>6. JobListBounded'
  BY <1>1, <1>2 DEF ListInv, JobListBounded, BoundAssumption
<1>7. AddInv'
  <2>1. ASSUME NEW c \in Context, pc'[c] \in {"index", "push"}
        PROVE  Len(jobs') < MaxJobs
    BY <2>1, <1>1, <1>2 DEF ListInv, AddInv, BoundAssumption
  <2>2. ASSUME NEW c \in Context, pc'[c] = "push", NEW i \in DOMAIN jobs'
        PROVE  jobs'[i].jobid < jobIndex'
    BY <2>2, <1>3 DEF ListInv, AddInv
  <2> QED
    BY <2>1, <2>2 DEF AddInv
<1> QED
  BY <1>5, <1>6, <1>7 DEF ListInv

(* Whoever has counted finds the list no longer when it is to push.        *)
LEMMA ListCounted ==
  ASSUME TypeOK, BoundAssumption, ListInv, NEW c \in Context, CountJobs(c)
  PROVE  ListInv'
<1>1. CASE pc' = [pc EXCEPT ![c] = "index"] /\ Len(jobs) # MaxJobs
  <2>1. jobs' = jobs /\ jobIndex' = jobIndex
    BY DEF CountJobs, CountFor, list
  <2>2. Len(jobs) < MaxJobs
    BY <1>1 DEF TypeOK, ListInv, JobListBounded, BoundAssumption
  <2>3. AddInv'
    BY <1>1, <2>1, <2>2 DEF TypeOK, ListInv, AddInv
  <2> QED
    BY <2>1, <2>3 DEF ListInv, JobIdsIncrease, JobListBounded
<1>2. CASE ~(pc' = [pc EXCEPT ![c] = "index"] /\ Len(jobs) # MaxJobs)
  <2>1. jobs' = jobs /\ jobIndex' = jobIndex
    BY DEF CountJobs, CountFor, list
  <2>2. \E d \in Context, l \in {"prompt", "idle"} : pc' = [pc EXCEPT ![d] = l]
    BY <1>2 DEF CountJobs, CountFor, Prompt, Return, Goto, Context
  <2>3. \A d \in Context : pc'[d] \in {"index", "push"} => pc'[d] = pc[d]
    BY <2>2 DEF TypeOK
  <2> QED
    BY <2>1, <2>3, ListKept
<1> QED
  BY <1>1, <1>2

(* The counter is stepped beyond every id in the list.                     *)
LEMMA ListNumbered ==
  ASSUME TypeOK, ListInv, NEW c \in Context, IncrementIndex(c)
  PROVE  ListInv'
<1>1. /\ jobs' = jobs /\ jobIndex' = jobIndex + 1
      /\ pc[c] = "index" /\ pc' = [pc EXCEPT ![c] = "push"]
  BY DEF IncrementIndex, IndexFrom, Step, At, Goto
<1>2. \A i \in DOMAIN jobs : jobs[i].jobid \in Nat /\ jobs[i].jobid < jobIndex'
  <2>1. \A i \in DOMAIN jobs : jobs[i] \in Job
    BY DEF TypeOK
  <2>2. \A j \in Job : j.jobid \in Nat
    BY DEF Job
  <2>3. \A i \in DOMAIN jobs : jobs[i].jobid <= jobIndex
    BY DEF ListInv, JobIdsIncrease
  <2> QED
    BY <2>1, <2>2, <2>3, <1>1 DEF TypeOK
<1>3. AddInv'
  BY <1>1, <1>2 DEF TypeOK, ListInv, AddInv
<1>4. JobIdsIncrease'
  BY <1>1, <1>2 DEF TypeOK, ListInv, JobIdsIncrease
<1> QED
  BY <1>1, <1>3, <1>4 DEF ListInv, JobListBounded

(* The counter is beyond every id, there is room, and nobody else adds.    *)
LEMMA ListGrows ==
  ASSUME TypeOK, BoundAssumption, Control, ListInv, NEW c \in Context, PushJob(c)
  PROVE  ListInv'
<1>1. /\ pc[c] = "push" /\ Current = c
      /\ jobs' = Append(jobs, NewJob(c)) /\ jobIndex' = jobIndex
      /\ NewJob(c).jobid = jobIndex
  BY DEF PushJob, At, NewJob
<1>2. /\ Len(jobs) < MaxJobs
      /\ \A i \in DOMAIN jobs : jobs[i].jobid < jobIndex
  BY <1>1 DEF ListInv, AddInv
<1>3. \A d \in Context : pc'[d] \notin {"index", "push"}
  <2>1. \A d \in Context \ {c} : pc[d] \notin {"index", "push"}
    BY <1>1, Runs DEF Control, FlagInv, LabelInv, Context, Handler
  <2>2. \E l \in {"prompt", "send"} : pc' = [pc EXCEPT ![c] = l]
    BY DEF PushJob, Prompt, Goto
  <2> QED
    BY <2>1, <2>2 DEF TypeOK
<1>4. /\ Len(jobs) \in Nat /\ DOMAIN jobs = 1..Len(jobs)
      /\ Len(jobs') = Len(jobs) + 1 /\ DOMAIN jobs' = 1..Len(jobs) + 1
      /\ \A i \in 1..Len(jobs) : jobs'[i] = jobs[i]
      /\ jobs'[Len(jobs) + 1].jobid = jobIndex
  BY <1>1 DEF TypeOK
<1>5. JobIdsIncrease'
  <2>1. ASSUME NEW i \in DOMAIN jobs', NEW j \in DOMAIN jobs', i < j
        PROVE  jobs'[i].jobid < jobs'[j].jobid
    <3>1. i \in DOMAIN jobs /\ (j \in DOMAIN jobs \/ j = Len(jobs) + 1)
      BY <2>1, <1>4
    <3> QED
      BY <2>1, <3>1, <1>2, <1>4 DEF ListInv, JobIdsIncrease
  <2>2. ASSUME NEW i \in DOMAIN jobs'
        PROVE  jobs'[i].jobid <= jobIndex'
    <3>1. i \in DOMAIN jobs \/ i = Len(jobs) + 1
      BY <1>4
    <3> QED
      BY <3>1, <1>1, <1>4 DEF TypeOK, ListInv, JobIdsIncrease
  <2> QED
    BY <2>1, <2>2 DEF JobIdsIncrease
<1>6. JobListBounded'
  BY <1>2, <1>4 DEF JobListBounded, BoundAssumption
<1>7. AddInv'
  BY <1>3 DEF AddInv
<1> QED
  BY <1>5, <1>6, <1>7 DEF ListInv

(* A status changes no id. *)
LEMMA StatusKept ==
  ASSUME TypeOK, NEW k \in DOMAIN jobs, NEW status, SetStatus(k, status)
  PROVE  /\ Len(jobs') = Len(jobs) /\ DOMAIN jobs' = DOMAIN jobs
         /\ \A i \in DOMAIN jobs : jobs'[i].jobid = jobs[i].jobid
<1>1. \A i \in DOMAIN jobs : jobs[i] \in Job
  BY DEF TypeOK
<1>2. \A j \in Job : [j EXCEPT !.status = status].jobid = j.jobid
  BY DEF Job
<1>3. DOMAIN jobs' = DOMAIN jobs /\ DOMAIN jobs = 1..Len(jobs) /\ Len(jobs) \in Nat
  BY DEF TypeOK, SetStatus
<1>4. \A i \in DOMAIN jobs :
        jobs'[i] = IF i = k THEN [jobs[i] EXCEPT !.status = status] ELSE jobs[i]
  BY DEF SetStatus
<1>5. Len(jobs') = Len(jobs)
  BY <1>3
<1> QED
  BY <1>1, <1>2, <1>3, <1>4, <1>5

(* No step spoils the list. *)
LEMMA ListStep ==
  ASSUME TypeOK, BoundAssumption, Control, ListInv, [Next]_vars
  PROVE  ListInv'
<1> USE DEF vars, locals, list, foreground, history
<1>1. ASSUME ReadLine
      PROVE  ListInv'
  <2>1. \A c \in Context : pc'[c] \in {"index", "push"} => pc'[c] = pc[c]
    BY <1>1 DEF TypeOK, Goto, ReadLine, Step
  <2> QED
    BY <1>1, <2>1, ListKept DEF ReadLine
<1>2. ASSUME NEW c \in Context, BeginPrune(c)
      PROVE  ListInv'
  <2>1. \A d \in Context : pc'[d] \in {"index", "push"} => pc'[d] = pc[d]
    BY <1>2 DEF TypeOK, Goto, Context, Handler, BeginPrune, Advance,
       AfterPrune
  <2> QED
    BY <1>2, <2>1, ListKept DEF BeginPrune
<1>3. ASSUME NEW c \in Context, TestJob(c)
      PROVE  ListInv'
  <2>1. \A d \in Context : pc'[d] \in {"index", "push"} => pc'[d] = pc[d]
    BY <1>3 DEF TypeOK, Goto, TestJob, TestFor
  <2> QED
    BY <1>3, <2>1, ListKept DEF TestJob, TestFor
<1>4. ASSUME NEW c \in Context, EraseJob(c)
      PROVE  ListInv'
  <2>1. \A d \in Context : pc'[d] \in {"index", "push"} => pc'[d] = pc[d]
    BY <1>4 DEF TypeOK, Goto, Context, Handler, EraseJob, EraseTo, Advance, AfterPrune
  <2> QED
    BY <1>4, <2>1, NodeType, ListShrinks DEF EraseJob, EraseTo
<1>5. ASSUME NEW c \in Context, KeepJob(c)
      PROVE  ListInv'
  <2>1. \A d \in Context : pc'[d] \in {"index", "push"} => pc'[d] = pc[d]
    BY <1>5 DEF TypeOK, Goto, Context, Handler, KeepJob, Advance, AfterPrune
  <2> QED
    BY <1>5, <2>1, ListKept DEF KeepJob
<1>6. ASSUME NEW c \in Context, CountJobs(c)
      PROVE  ListInv'
  BY <1>6, ListCounted
<1>7. ASSUME NEW c \in Context, IncrementIndex(c)
      PROVE  ListInv'
  BY <1>7, ListNumbered
<1>8. ASSUME NEW c \in Context, PushJob(c)
      PROVE  ListInv'
  BY <1>8, ListGrows
<1>9. ASSUME ExeCmd
      PROVE  ListInv'
  <2>1. \A c \in Command : c.op \notin {"quit", "other"} =>
          (IF c.op \in {"external", "background"} THEN "fork" ELSE c.op)
             \notin {"index", "push"}
    BY CommandOp DEF Op
  <2>2. \A c \in Context : pc'[c] \in {"index", "push"} => pc'[c] = pc[c]
    BY <1>9, <2>1 DEF TypeOK, Goto, ExeCmd, Prompt
  <2> QED
    BY <1>9, <2>2, ListKept DEF ExeCmd
<1>10. ASSUME Fork
      PROVE  ListInv'
  <2>1. \A c \in Context : pc'[c] \in {"index", "push"} => pc'[c] = pc[c]
    BY <1>10 DEF TypeOK, Goto, Fork
  <2> QED
    BY <1>10, <2>1, ListKept DEF Fork
<1>11. ASSUME ForkFails
      PROVE  ListInv'
  <2>1. \A c \in Context : pc'[c] \in {"index", "push"} => pc'[c] = pc[c]
    BY <1>11 DEF TypeOK, Goto, ForkFails, Prompt
  <2> QED
    BY <1>11, <2>1, ListKept DEF ForkFails
<1>12. ASSUME SetFlag
      PROVE  ListInv'
  <2>1. \A c \in Context : pc'[c] \in {"index", "push"} => pc'[c] = pc[c]
    BY <1>12 DEF TypeOK, Goto, SetFlag, Step
  <2> QED
    BY <1>12, <2>1, ListKept DEF SetFlag
<1>13. ASSUME SetPid
      PROVE  ListInv'
  <2>1. \A c \in Context : pc'[c] \in {"index", "push"} => pc'[c] = pc[c]
    BY <1>13 DEF TypeOK, Goto, SetPid, Step
  <2> QED
    BY <1>13, <2>1, ListKept DEF SetPid
<1>14. ASSUME Wait
      PROVE  ListInv'
  <2>1. \A c \in Context : pc'[c] \in {"index", "push"} => pc'[c] = pc[c]
    BY <1>14 DEF TypeOK, Goto, Wait, WaitFor, Step
  <2> QED
    BY <1>14, <2>1, ListKept DEF Wait, WaitFor
<1>15. ASSUME ClearFlag
      PROVE  ListInv'
  <2>1. \A c \in Context : pc'[c] \in {"index", "push"} => pc'[c] = pc[c]
    BY <1>15 DEF TypeOK, Goto, ClearFlag, Prompt
  <2> QED
    BY <1>15, <2>1, ListKept DEF ClearFlag
<1>16. ASSUME Walk
      PROVE  ListInv'
  <2>1. \A c \in Context : pc'[c] \in {"index", "push"} => pc'[c] = pc[c]
    BY <1>16, WalkGoes DEF TypeOK, Goto, WalkTo
  <2> QED
    BY <1>16, <2>1, WalkFacts, ListKept
<1>18. ASSUME FgErase
      PROVE  ListInv'
  <2>1. \A c \in Context : pc'[c] \in {"index", "push"} => pc'[c] = pc[c]
    BY <1>18 DEF TypeOK, Goto, FgErase, Step
  <2> QED
    BY <1>18, <2>1, NodeType, ListShrinks DEF FgErase, Context
<1>19. ASSUME Resume("fg_cont", "flag")
      PROVE  ListInv'
  <2>1. \A c \in Context : pc'[c] \in {"index", "push"} => pc'[c] = pc[c]
    BY <1>19 DEF TypeOK, Goto, Resume, Step
  <2> QED
    BY <1>19, <2>1, ListKept DEF Resume
<1>20. ASSUME BgMark
      PROVE  ListInv'
  <2>1. \A c \in Context : pc'[c] \in {"index", "push"} => pc'[c] = pc[c]
    BY <1>20 DEF TypeOK, Goto, BgMark, Step
  <2> QED
    BY <1>20, <2>1, BehindType, StatusKept, ListKept DEF BgMark
<1>21. ASSUME BgResume
      PROVE  ListInv'
  <2>1. \A c \in Context : pc'[c] \in {"index", "push"} => pc'[c] = pc[c]
    BY <1>21 DEF TypeOK, Goto, BgResume, Prompt
  <2> QED
    BY <1>21, <2>1, ListKept DEF BgResume
<1>22. ASSUME KillSend
      PROVE  ListInv'
  <2>1. \A c \in Context : pc'[c] \in {"index", "push"} => pc'[c] = pc[c]
    BY <1>22 DEF TypeOK, Goto, KillSend, Prompt
  <2> QED
    BY <1>22, <2>1, ListKept DEF KillSend
<1>23. ASSUME KillMark
      PROVE  ListInv'
  <2>1. \A c \in Context : pc'[c] \in {"index", "push"} => pc'[c] = pc[c]
    BY <1>23 DEF TypeOK, Goto, KillMark, Prompt
  <2>2. SetStatus(Position(it["main"]), StatusAfter(cmd.sig)) /\ Position(it["main"]) \in DOMAIN jobs
    BY <1>23, NodeType DEF KillMark, Context
  <2> QED
    BY <1>23, <2>1, <2>2, StatusKept, ListKept DEF KillMark
<1>24. ASSUME QuitBegin
      PROVE  ListInv'
  <2>1. \A c \in Context : pc'[c] \in {"index", "push"} => pc'[c] = pc[c]
    BY <1>24 DEF TypeOK, Goto, QuitBegin, QuitNext
  <2> QED
    BY <1>24, <2>1, ListKept DEF QuitBegin
<1>25. ASSUME QuitTerm
      PROVE  ListInv'
  <2>1. \A c \in Context : pc'[c] \in {"index", "push"} => pc'[c] = pc[c]
    BY <1>25 DEF TypeOK, Goto, QuitTerm, Prompt
  <2> QED
    BY <1>25, <2>1, ListKept DEF QuitTerm
<1>26. ASSUME QuitPoll
      PROVE  ListInv'
  <2>1. \A c \in Context : pc'[c] \in {"index", "push"} => pc'[c] = pc[c]
    BY <1>26 DEF TypeOK, Goto, QuitPoll, PollUntil, Prompt
  <2> QED
    BY <1>26, <2>1, ListKept DEF QuitPoll, PollUntil
<1>27. ASSUME QuitStep
      PROVE  ListInv'
  <2>1. \A c \in Context : pc'[c] \in {"index", "push"} => pc'[c] = pc[c]
    BY <1>27 DEF TypeOK, Goto, QuitStep, QuitNext
  <2> QED
    BY <1>27, <2>1, ListKept DEF QuitStep
<1>28. ASSUME NEW h \in Handler, TestForeground(h)
      PROVE  ListInv'
  <2>1. \A c \in Context : pc'[c] \in {"index", "push"} => pc'[c] = pc[c]
    BY <1>28 DEF TypeOK, Goto, TestForeground, TestFlag, Return
  <2> QED
    BY <1>28, <2>1, ListKept DEF TestForeground, TestFlag
<1>29. ASSUME NEW h \in Handler, NEW sig, NEW itself, Send(h, sig, itself)
      PROVE  ListInv'
  <2>1. \A c \in Context : pc'[c] \in {"index", "push"} => pc'[c] = pc[c]
    BY <1>29 DEF TypeOK, Goto, Send, Return
  <2> QED
    BY <1>29, <2>1, ListKept DEF Send
<1>30. ASSUME NEW c \in Context, Dangling(c)
      PROVE  ListInv'
  <2>1. \A d \in Context : pc'[d] \in {"index", "push"} => pc'[d] = pc[d]
    BY <1>30 DEF TypeOK, Goto, Dangling
  <2> QED
    BY <1>30, <2>1, ListKept DEF Dangling
<1>31. ASSUME Tick
      PROVE  ListInv'
  <2>1. \A c \in Context : pc'[c] \in {"index", "push"} => pc'[c] = pc[c]
    BY <1>31 DEF TypeOK, Goto, Tick
  <2> QED
    BY <1>31, <2>1, ListKept DEF Tick
<1>32. ASSUME NEW h \in Handler, Signal(h)
      PROVE  ListInv'
  <2>1. \A c \in Context : pc'[c] \in {"index", "push"} => pc'[c] = pc[c]
    BY <1>32 DEF TypeOK, Goto, Context, Handler, Signal, At
  <2> QED
    BY <1>32, <2>1, ListKept DEF Signal
<1>33. ASSUME NEW p \in Pid, End(p)
      PROVE  ListInv'
  <2>1. \A c \in Context : pc'[c] \in {"index", "push"} => pc'[c] = pc[c]
    BY <1>33 DEF TypeOK, Goto, End
  <2> QED
    BY <1>33, <2>1, ListKept DEF End
<1>34. ASSUME NEW p \in Pid, NEW sig \in {SIGSTOP, SIGCONT}, Outside(p, sig)
      PROVE  ListInv'
  <2>1. \A c \in Context : pc'[c] \in {"index", "push"} => pc'[c] = pc[c]
    BY <1>34 DEF TypeOK, Goto, Outside
  <2> QED
    BY <1>34, <2>1, ListKept DEF Outside
<1>35. ASSUME UNCHANGED vars
      PROVE  ListInv'
  <2>1. \A c \in Context : pc'[c] \in {"index", "push"} => pc'[c] = pc[c]
    BY <1>35 DEF TypeOK, Goto
  <2> QED
    BY <1>35, <2>1, ListKept
<1> QED
  BY <1>1, <1>2, <1>3, <1>4, <1>5, <1>6, <1>7, <1>8, <1>9, <1>10, <1>11,
     <1>12, <1>13, <1>14, <1>15, <1>16, <1>18, <1>19, <1>20, <1>21,
     <1>22, <1>23, <1>24, <1>25, <1>26, <1>27, <1>28, <1>29, <1>30, <1>31,
     <1>32, <1>33, <1>34, <1>35 DEF Next, Run, main, ctrlCFunction,
     ctrlZFunction, remove_finished_jobs, add_job_to_jobs_list, ExeExternal,
     Walk, fg, bg, kill, quit, Context, Handler,
     MainLabels, Labels, Derefs, DerefsBehind

-----------------------------------------------------------------------------
(* Theorems *)

(* The invariant holds when the shell starts. *)
LEMMA Initially ==
  ASSUME BoundAssumption, Init
  PROVE  IInv
<1>1. NoCommand \in Command
  BY NoCommandType
<1>2. TypeOK
  <2>1. /\ pc \in [Context -> Labels] /\ it \in [Context -> Nat]
        /\ proc \in [Pid -> ProcState]
    BY DEF Init, Context, Handler, Labels, Derefs, DerefsBehind, ProcState
  <2>2. active \in Stacks /\ jobs \in Seq(Job)
    BY DEF Init, Stacks
  <2>3. signals \in 0..MaxSignals /\ time_wasted \in 4..6
    BY DEF Init, BoundAssumption
  <2> QED
    BY <1>1, <2>1, <2>2, <2>3 DEF Init, TypeOK
<1>3. StackInv /\ FlagInv /\ LabelInv
  BY DEF Init, StackInv, FlagInv, LabelInv, Context, Handler
<1>4. AddInv /\ JobIdsIncrease /\ JobListBounded
  BY DEF Init, AddInv, JobIdsIncrease, JobListBounded, Context, Handler,
     BoundAssumption
<1> QED
  BY <1>2, <1>3, <1>4 DEF IInv

(* The invariant of the shell: its types, the stack of interrupted         *)
(* contexts, and what protects the list of jobs without a lock.            *)
THEOREM Inductive == Spec => []IInv
<1>1. Init => IInv
  BY Initially, BoundAssumption
<1>2. IInv /\ [Next]_vars => IInv'
  <2> SUFFICES ASSUME IInv, [Next]_vars
               PROVE  IInv'
    OBVIOUS
  <2>1. TypeOK /\ StackInv /\ Control /\ ListInv
    BY DEF IInv, Control, ListInv
  <2>2. TypeOK'
    BY <2>1, TypeStep, BoundAssumption
  <2>3. Control'
    BY <2>1, ControlStep
  <2>4. ListInv'
    BY <2>1, ListStep, BoundAssumption
  <2> QED
    BY <2>2, <2>3, <2>4 DEF IInv, Control, ListInv
<1> QED
  BY <1>1, <1>2, PTL DEF Spec

(* No job-id is given twice, wherever the handlers interrupt main and each *)
(* other while they add jobs and remove them.                              *)
THEOREM JobIdsIncreaseHolds == Spec => []JobIdsIncrease
<1>1. IInv => JobIdsIncrease
  BY DEF IInv
<1> QED
  BY <1>1, Inductive, PTL

(* The list keeps to its limit, although counting and pushing are apart.   *)
THEOREM JobListBoundedHolds == Spec => []JobListBounded
<1>1. IInv => JobListBounded
  BY DEF IInv
<1> QED
  BY <1>1, Inductive, PTL

=============================================================================
