--------------------------- MODULE BankMainProofs ---------------------------
(***************************************************************************)
(* Proofs about main() and the threads it starts, for any number of ATMs,  *)
(* any accounts and any files: the whole program is the bank of Bank,      *)
(* whose invariant IInv (BankProofs) thereby holds of it, and main deletes *)
(* nothing that a thread still uses.                                       *)
(***************************************************************************)
EXTENDS BankMain, BankHistoryProofs

-----------------------------------------------------------------------------
(* Before main has created anything                                        *)
LEMMA MainInitInv == MainInit => IInv /\ MainInv
<1> SUFFICES ASSUME MainInit PROVE IInv /\ MainInv
  OBVIOUS
<1>1. IInv
  BY InitIInv DEF MainInit, HistoryInit
<1>2. MainTypeOK
  BY BankAssumption DEF MainInit, MainTypeOK, MainLabels
<1>3. JoinInv /\ FlagInv
  BY DEF MainInit, HistoryInit, Init, InitialValues, JoinInv, FlagInv
<1>4. CreatedInv
  BY ThreadKinds, BankAssumption DEF MainInit, HistoryInit, Init, CreatedInv, Atm
<1> QED
  BY <1>1, <1>2, <1>3, <1>4 DEF MainInv

(***************************************************************************)
(* A step of the program is a step of the bank: when main sets the flag    *)
(* every ATM has been joined, and it sets the flag once.                   *)
(***************************************************************************)
LEMMA MainStepImplements ==
  ASSUME MainInv, [MainNext]_mainVars
  PROVE  [HistoryNext]_historyVars
<1>1. CASE SetFlag
  <2>1. \A t \in Atm : pc[t] = "exited"
    BY <1>1 DEF SetFlag, MainGoto, MainInv, JoinInv
  <2>2. ~isAtmFinished
    BY <1>1 DEF SetFlag, MainGoto, MainInv, FlagInv
  <2>3. AtmsJoined /\ Remember
    BY <1>1, <2>1, <2>2 DEF SetFlag, AtmsJoined
  <2> QED
    BY <2>3 DEF HistoryNext, Next
<1>2. CASE main /\ ~SetFlag
  BY <1>2 DEF main, CreateAtm, PushAtm, AtmsCreated, CreateStatus, CreateCommission, JoinAtm,
     AtmsAreJoined, JoinCommission, JoinStatus, DeleteBank, Create, Join
<1>3. CASE \E t \in Thread : Run(t)
  <2>1. ThreadStep /\ Remember
    BY <1>3 DEF Run, Routine, ThreadStep
  <2> QED
    BY <2>1 DEF HistoryNext, Next
<1>4. CASE UNCHANGED mainVars
  BY <1>4 DEF mainVars
<1> QED
  BY <1>1, <1>2, <1>3, <1>4 DEF MainNext

LEMMA HistoryIsBank == [HistoryNext]_historyVars => [Next]_vars
BY DEF HistoryNext, historyVars

(* A thread's step: one that has exited stays where main joined it.        *)
LEMMA RunInductive ==
  ASSUME IInv, MainInv, NEW t \in Thread, Run(t)
  PROVE  MainInv'
<1>1. UNCHANGED <<mainPc, next, created>>
  BY DEF Run
<1>2. Move(t)
  BY AtmMoves, ServiceMoves, ThreadKinds DEF Run, Routine
<1>3. isAtmFinished' = isAtmFinished
  BY DEF Run, Routine, AtmStep, bank_commission_routine, bank_status_routine
<1>4. \A u \in Thread : pc[u] = "exited" => pc'[u] = "exited"
  BY <1>2 DEF Move
<1>5. MainTypeOK' /\ FlagInv'
  BY <1>1, <1>3 DEF MainInv, MainTypeOK, FlagInv
<1>6. JoinInv'
  BY <1>1, <1>4, ThreadKinds DEF MainInv, JoinInv
<1>7. CreatedInv'
  BY <1>1, <1>2, ThreadKinds DEF MainInv, CreatedInv, Run, Move, FirstLabel
<1> QED
  BY <1>5, <1>6, <1>7 DEF MainInv

(* A step of main: each join adds to what it knows.                        *)
LEMMA MainStepInductive ==
  ASSUME IInv, MainInv, main
  PROVE  MainInv'
<1> USE DEF MainInv, MainGoto
<1>a. NumATM \in Nat /\ next \in 1..(NumATM + 1) /\ Atm = 1..NumATM
  BY BankAssumption DEF MainTypeOK, Atm
<1>b. UNCHANGED pc
  BY DEF main, CreateAtm, PushAtm, AtmsCreated, CreateStatus, CreateCommission, JoinAtm,
     AtmsAreJoined, SetFlag, JoinCommission, JoinStatus, DeleteBank, Create, Join,
     historyVars, vars
<1>d. MainTypeOK'
  <2>1. created' \subseteq Thread
    <3>a. created \subseteq Thread
      BY DEF MainTypeOK
    <3>1. CASE CreateAtm
      <4>1. next \in Atm /\ created' = created \cup {next}
        BY <1>a, <3>1 DEF CreateAtm, Create
      <4> QED
        BY <3>a, <4>1, ThreadKinds
    <3>2. CASE CreateStatus \/ CreateCommission
      <4>1. created' = created \cup {Status} \/ created' = created \cup {Commission}
        BY <3>2 DEF CreateStatus, CreateCommission, Create
      <4> QED
        BY <3>a, <4>1, ThreadKinds
    <3>3. CASE ~CreateAtm /\ ~CreateStatus /\ ~CreateCommission
      <4>1. created' = created
        BY <3>3 DEF main, PushAtm, AtmsCreated, JoinAtm, AtmsAreJoined, SetFlag, JoinCommission,
           JoinStatus, DeleteBank, Join
      <4> QED
        BY <3>a, <4>1
    <3> QED
      BY <3>1, <3>2, <3>3
  <2>2. mainPc' \in MainLabels
    BY DEF main, CreateAtm, PushAtm, AtmsCreated, CreateStatus, CreateCommission, JoinAtm,
       AtmsAreJoined, SetFlag, JoinCommission, JoinStatus, DeleteBank, MainLabels
  <2>3. next' \in 1..(NumATM + 1)
    BY <1>a
    DEF MainTypeOK, main, CreateAtm, PushAtm, AtmsCreated, CreateStatus, CreateCommission, JoinAtm,
        AtmsAreJoined, SetFlag, JoinCommission, JoinStatus, DeleteBank
  <2>4. mainPc' = "push" => next' \in Atm
    BY <1>a
    DEF main, CreateAtm, PushAtm, AtmsCreated, CreateStatus, CreateCommission, JoinAtm,
        AtmsAreJoined, SetFlag, JoinCommission, JoinStatus, DeleteBank
  <2> QED
    BY <2>1, <2>2, <2>3, <2>4 DEF MainTypeOK
<1>c. CreatedInv'
  <2>1. created \subseteq created' /\ \A t \in Thread : FirstLabel(t)' = FirstLabel(t)
    BY DEF main, CreateAtm, PushAtm, AtmsCreated, CreateStatus, CreateCommission, JoinAtm,
       AtmsAreJoined, SetFlag, JoinCommission, JoinStatus, DeleteBank, Create, Join, FirstLabel
  <2>2. \A t \in Thread \ created' : pc'[t] = FirstLabel(t)
    BY <1>b, <2>1 DEF CreatedInv
  <2>3. CASE CreateAtm \/ PushAtm
    <3>1. \/ mainPc' = "push" /\ next' = next /\ next \in created' /\ mainPc = "create"
          \/ mainPc' = "create" /\ next' = next + 1 /\ mainPc = "push"
      BY <2>3 DEF CreateAtm, PushAtm, Create
    <3>2. \A t \in Atm : t < next' => t < next \/ (t = next /\ mainPc = "push")
      BY <1>a, <3>1
    <3> QED
      BY <2>1, <2>2, <3>1, <3>2 DEF CreatedInv
  <2>4. CASE AtmsCreated
    <3>1. \A t \in Atm : t < next
      BY <1>a, <2>4 DEF AtmsCreated
    <3> QED
      BY <2>1, <2>2, <2>4, <3>1 DEF CreatedInv, AtmsCreated
  <2>5. CASE CreateStatus \/ CreateCommission
    BY <2>1, <2>2, <2>5 DEF CreatedInv, CreateStatus, CreateCommission, Create
  <2>6. CASE JoinAtm \/ AtmsAreJoined \/ SetFlag \/ JoinCommission \/ JoinStatus \/ DeleteBank
    BY <2>1, <2>2, <2>6
    DEF CreatedInv, JoinAtm, AtmsAreJoined, SetFlag, JoinCommission, JoinStatus, DeleteBank
  <2> QED
    BY <2>3, <2>4, <2>5, <2>6 DEF main
<1>e. FlagInv'
  BY DEF main, CreateAtm, PushAtm, AtmsCreated, CreateStatus, CreateCommission, JoinAtm,
     AtmsAreJoined, SetFlag, JoinCommission, JoinStatus, DeleteBank, Create, Join,
     historyVars, vars, FlagInv
<1>1. CASE JoinAtm
  <2>1. /\ mainPc = "join_atm" /\ mainPc' = "join_atm" /\ pc' = pc
        /\ next' = next + 1 /\ pc[next] = "exited"
    BY <1>b, <1>1 DEF JoinAtm, Join
  <2>2. \A t \in Atm : t < next' => t < next \/ t = next
    BY <1>a, <2>1
  <2>3. JoinInv'
    BY <2>1, <2>2 DEF JoinInv
  <2> QED
    BY <1>c, <1>d, <1>e, <2>3
<1>2. CASE AtmsAreJoined
  <2>1. /\ mainPc = "join_atm" /\ mainPc' = "set_flag" /\ pc' = pc
        /\ \A t \in Atm : t < next
    BY <1>a, <1>b, <1>2 DEF AtmsAreJoined
  <2>2. JoinInv'
    BY <2>1 DEF JoinInv
  <2> QED
    BY <1>c, <1>d, <1>e, <2>2
<1>3. CASE CreateCommission
  <2>1. /\ mainPc = "create_commission" /\ mainPc' = "join_atm" /\ pc' = pc /\ next' = 1
    BY <1>b, <1>3 DEF CreateCommission
  <2>2. JoinInv'
    BY <1>a, <2>1 DEF JoinInv
  <2> QED
    BY <1>c, <1>d, <1>e, <2>2
<1>4. CASE ~JoinAtm /\ ~AtmsAreJoined /\ ~CreateCommission
  <2>1. JoinInv'
    BY <1>4, <1>b
    DEF JoinInv, main, CreateAtm, PushAtm, AtmsCreated, CreateStatus, SetFlag, JoinCommission,
        JoinStatus, DeleteBank, Join
  <2> QED
    BY <1>c, <1>d, <1>e, <2>1
<1> QED
  BY <1>1, <1>2, <1>3, <1>4

LEMMA MainInductiveStep ==
  IInv /\ MainInv /\ [MainNext]_mainVars => IInv' /\ MainInv'
<1> SUFFICES ASSUME IInv, MainInv, [MainNext]_mainVars PROVE IInv' /\ MainInv'
  OBVIOUS
<1>1. IInv'
  BY MainStepImplements, HistoryIsBank, InductiveStep
<1>2. CASE main
  BY <1>1, <1>2, MainStepInductive
<1>3. CASE \E t \in Thread : Run(t)
  BY <1>1, <1>3, RunInductive
<1>4. CASE UNCHANGED mainVars
  BY <1>1, <1>4
  DEF mainVars, historyVars, vars, MainInv, MainTypeOK, CreatedInv, JoinInv, FlagInv
<1> QED
  BY <1>2, <1>3, <1>4 DEF MainNext

-----------------------------------------------------------------------------
(* What main knows of the threads it has created, joined and told to stop, *)
(* for any number of ATMs.                                                 *)
THEOREM MainInvHolds == MainSpec => [](IInv /\ MainInv)
BY MainInitInv, MainInductiveStep, PTL DEF MainSpec

(* The threads that main starts one after another, and stops, do nothing   *)
(* that the threads of Bank do not do: what holds of Bank holds of the     *)
(* program.                                                                *)
THEOREM MainImplementsBank == MainSpec => ImplementsBank
<1>1. MainInit => HistoryInit
  BY DEF MainInit
<1> QED
  BY <1>1, MainInvHolds, MainStepImplements, PTL DEF MainSpec, ImplementsBank, HistorySpec

(* The program is the atomic bank as well.                                 *)
THEOREM ProgramIsAtomicBank == MainSpec => ImplementsAtomicBank
BY MainImplementsBank, ThreadsAreAtomicBank, PTL DEF ImplementsBank

(* And so it is Spec, whose locks BankProofs accounts for.                 *)
LEMMA MainIsSpec == MainSpec => Spec
<1>1. HistoryInit => Init
  BY DEF HistoryInit
<1> QED
  BY <1>1, HistoryIsBank, MainImplementsBank, PTL DEF ImplementsBank, HistorySpec, Spec

(* Where every thread has gone no mutex is locked.                         *)
LEMMA Deserted ==
  ASSUME IInv, MainInv, LocksInv, mainPc = "returned"
  PROVE  /\ \A t \in Thread : pc[t] = "exited"
         /\ globalMutex = Free /\ logMutex = Free
<1>1. \A t \in Thread : pc[t] = "exited"
  BY ThreadKinds DEF MainInv, JoinInv, Service
<1>2. globalMutex = Free
  BY <1>1 DEF IInv, TypeOK, LocksType, Ownership, InBank, OutsideBank
<1>3. logMutex = Free
  BY <1>1 DEF IInv, TypeOK, LocksType, LocksInv, LogInv, Logging
<1> QED
  BY <1>1, <1>2, <1>3

(* When main deletes the bank no thread is left and no mutex is locked.    *)
THEOREM BankOutlivesThreadsHolds == MainSpec => []BankOutlivesThreads
<1>1. IInv /\ MainInv /\ LocksInv => BankOutlivesThreads
  BY Deserted DEF BankOutlivesThreads
<1> QED
  BY <1>1, MainInvHolds, MainIsSpec, LocksInvHolds, PTL

(* And the books are closed: no commission is lost between the accounts    *)
(* and the bank, and what is in them is the cash that was paid in.         *)
THEOREM BooksClosedHolds == MainSpec => []BooksClosed
<1>1. IInv /\ MainInv /\ LocksInv /\ HistoryInv => BooksClosed
  <2> SUFFICES ASSUME IInv, MainInv, LocksInv, HistoryInv, mainPc = "returned"
               PROVE  tot = 0 /\ Total + bankBalance = cash
    BY DEF BooksClosed
  <2>1. pc[Commission] = "exited" /\ globalMutex = Free
    BY Deserted, ThreadKinds
  <2>2. tot = 0
    BY <2>1 DEF HistoryInv, CommissionHistory
  <2>3. Total + bankBalance + 0 = cash + 0 /\ cash \in Int
    BY <2>1, <2>2, ThreadKinds DEF HistoryInv, MoneyInv, HistoryType
  <2>4. Total \in Nat /\ bankBalance \in Int
    BY TotalIsNat DEF IInv, TypeOK, BankType
  <2> QED
    BY <2>2, <2>3, <2>4
<1>2. MainSpec => [](IInv /\ HistoryInv)
  BY MainImplementsBank, HistoryInvHolds, PTL DEF ImplementsBank
<1> QED
  BY <1>1, <1>2, MainInvHolds, MainIsSpec, LocksInvHolds, PTL

(* No cycle of joins and mutexes: the thread that main waits for has been  *)
(* started; if it waits itself, it is for the bank, whose owner has been   *)
(* started and waits for nobody.                                           *)
THEOREM NobodyStuckHolds == MainSpec => []NobodyStuck
<1>1. IInv /\ LocksInv /\ MainInv => NobodyStuck
  <2> SUFFICES ASSUME IInv, LocksInv, MainInv, mainPc # "returned",
                      NEW u \in Awaited, pc[u] # "exited"
               PROVE  \E t \in created : pc[t] # "exited" /\ ~Waits(t)
    BY DEF NobodyStuck
  <2>1. u \in created /\ u \in Thread
    <3>1. NumATM \in Nat /\ next \in 1..(NumATM + 1) /\ created \subseteq Thread
      BY BankAssumption DEF MainInv, MainTypeOK
    <3>2. next <= NumATM => next \in Atm
      BY <3>1 DEF Atm
    <3> QED
      BY <3>1, <3>2 DEF Awaited, MainInv, CreatedInv
  <2>2. ASSUME NEW t \in Thread, InBank(t)
        PROVE  t \in created /\ pc[t] # "exited" /\ ~Waits(t)
    <3>1. pc[t] # "exited" /\ pc[t] # FirstLabel(t)
      BY <2>2 DEF InBank, OutsideBank, FirstLabel
    <3>2. ~Waits(t)
      BY <2>2, Unlocked
    <3> QED
      BY <3>1, <3>2 DEF MainInv, CreatedInv
  <2>3. CASE InBank(u)
    BY <2>1, <2>2, <2>3
  <2>4. CASE ~InBank(u) /\ globalMutex # Free
    <3>1. globalMutex \in Thread /\ InBank(globalMutex)
      BY <2>4 DEF IInv, TypeOK, LocksType, Ownership
    <3> QED
      BY <2>2, <3>1
  <2>5. CASE ~InBank(u) /\ globalMutex = Free
    <3>1. Wanted(u) = {} /\ pc[u] # "lock_log"
      BY <2>5 DEF InBank, OutsideBank, Wanted
    <3> QED
      BY <2>1, <2>5, <3>1 DEF Waits
  <2> QED
    BY <2>3, <2>4, <2>5
<1> QED
  BY <1>1, MainInvHolds, MainIsSpec, LocksInvHolds, Inductive, PTL

(* What BankProofs shows of the threads holds of the program they run in.  *)
THEOREM ProgramSafe ==
  MainSpec => [](NoBalanceRace /\ NoDanglingIterator /\ NonNegative /\ LogTruth /\ ScreenIsSnapshot
                 /\ InsideNeverWaits)
BY MainIsSpec, NoBalanceRaceHolds, NoDanglingIteratorHolds, NonNegativeHolds, LogTruthHolds,
   ScreenIsSnapshotHolds, InsideNeverWaitsHolds, PTL
=============================================================================
