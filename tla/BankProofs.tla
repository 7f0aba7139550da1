----------------------------- MODULE BankProofs -----------------------------
(***************************************************************************)
(* Proofs about the bank's threads, for any number of ATMs, any accounts   *)
(* and any files of commands.                                              *)
(***************************************************************************)
EXTENDS BankProperties, FiniteSetTheorems, TLAPS

(* A thread inside the bank has a command whose fields are well typed.     *)
LEMMA CommandFields ==
  ASSUME TypeOK, NEW t \in Atm, cmd[t] \in Command
  PROVE  /\ cmd[t].acc \in AccountId /\ cmd[t].tgt \in AccountId
         /\ cmd[t].amt \in Nat /\ cmd[t].pw \in Nat
         /\ balance[cmd[t].acc] \in Int /\ balance[cmd[t].tgt] \in Int
<1>1. cmd[t] \in CommandRecord
  BY BankAssumption
<1> QED
  BY <1>1 DEF CommandRecord, TypeOK, BooksType

(* The ATMs and the two service threads are different threads, and none of *)
(* them is the 0 that marks a free mutex.                                  *)
LEMMA ThreadKinds ==
  /\ Atm \subseteq Thread /\ Service \subseteq Thread
  /\ Status \in Service /\ Commission \in Service
  /\ Status \notin Atm /\ Commission \notin Atm /\ Status # Commission
  /\ Free \notin Thread
  /\ Thread = Atm \cup Service
BY BankAssumption DEF Thread, Atm, Service, Status, Commission, Free

(* Account numbers, and the 0 of an iterator at rest, are naturals.        *)
LEMMA NumbersAreNat == \A x \in AccountId \cup {0} : x \in Nat
<1>1. \A x \in AccountId : x \in Nat
  BY BankAssumption
<1>2. 0 \in Nat
  OBVIOUS
<1> QED
  BY <1>1, <1>2, Zenon

(* Before any thread runs, the bank is empty and its mutexes are free.     *)
LEMMA InitIInv == Init => IInv
<1> SUFFICES ASSUME Init PROVE IInv
  OBVIOUS
<1> USE DEF Init, InitialValues
<1>1. \A a \in AccountId : balance[a] = 0
  BY DEF Nothing
<1>2. \A t \in Thread : pc[t] \in OutsideBank
  BY ThreadKinds DEF FirstLabel, OutsideBank
<1>3. TypeOK
  <2>1. PcType
    <3>1. pc = [t \in Thread |-> FirstLabel(t)]
      OBVIOUS
    <3>2. /\ \A t \in Atm : FirstLabel(t) \in AtmLabels
          /\ \A t \in Service : FirstLabel(t) \in ServiceLabels
      BY ThreadKinds DEF FirstLabel, AtmLabels, ServiceLabels, Service
    <3> QED
      BY <3>1, <3>2, ThreadKinds DEF PcType
  <2>2. Nothing \in [AccountId -> Nat] /\ Nothing \in [AccountId -> Int]
    BY DEF Nothing
  <2>a. BooksType /\ ServiceType
    BY <2>2 DEF BooksType, ServiceType
  <2>3. LocksType
    BY DEF LocksType
  <2>4. AtmType /\ BankType
    BY BankAssumption DEF AtmType, BankType, Outcomes
  <2> QED
    BY <2>1, <2>a, <2>3, <2>4 DEF TypeOK
<1>4. Ownership
  BY <1>2, ThreadKinds DEF Ownership, InBank
<1>5. \A t \in Atm : pc[t] = "getline"
  BY ThreadKinds DEF FirstLabel
<1>6. \A t \in Atm : AtmInv(t)
  BY <1>2, <1>5, ThreadKinds
  DEF AtmInv, CommandKnown, AccountsFound, CopyCurrent, TargetCurrent, FundsSuffice,
      HalfTransferred, LineReady, InBank, Visited
<1>7. CommissionInv /\ StatusInv
  <2>1. pc[Commission] = "lock_global" /\ pc[Status] = "lock_global"
    BY ThreadKinds DEF FirstLabel
  <2> QED
    BY <2>1, ThreadKinds DEF CommissionInv, StatusInv
<1> QED
  BY <1>1, <1>3, <1>4, <1>6, <1>7 DEF IInv, ClosedIsEmpty, NonNegative

-----------------------------------------------------------------------------
(***************************************************************************)
(* How a step changes control and the locks                                *)
(***************************************************************************)
LEMMA PcStep ==
  ASSUME PcType, NEW t \in Thread, NEW from, NEW to, Step(t, from, to),
         t \in Atm => to \in AtmLabels, t \in Service => to \in ServiceLabels
  PROVE  /\ PcType'
         /\ pc[t] = from /\ pc'[t] = to
         /\ \A u \in Thread \ {t} : pc'[u] = pc[u]
<1>1. pc[t] = from /\ pc' = [pc EXCEPT ![t] = to] /\ t \in DOMAIN pc
  BY DEF Step, PcType
<1>2. to \in AtmLabels \cup ServiceLabels
  BY ThreadKinds
<1> QED
  BY <1>1, <1>2, ThreadKinds DEF PcType

(* The four lock methods touch the lock sets of accounts and neither mutex. *)
LEMMA AccountLocks ==
  ASSUME LocksType, NEW t \in Thread, NEW a,
         \/ lock_for_writers(t, a) \/ unlock_for_writers(t, a)
         \/ lock_for_readers(t, a) \/ unlock_for_readers(t, a)
  PROVE  LocksType' /\ globalMutex' = globalMutex
<1>1. LocksType'
  BY DEF LocksType, lock_for_writers, unlock_for_writers, lock_for_readers, unlock_for_readers
<1> QED
  BY <1>1 DEF lock_for_writers, unlock_for_writers, lock_for_readers, unlock_for_readers

(* The four ways in which a step can concern mutex_global_accounts         *)
LEMMA OwnershipStep ==
  ASSUME Ownership, LocksType, NEW t \in Thread,
         \A u \in Thread \ {t} : pc'[u] = pc[u],
         \/ globalMutex' = globalMutex /\ (InBank(t) <=> InBank(t)')
         \/ globalMutex = Free /\ globalMutex' = t /\ InBank(t)'
         \/ globalMutex' = Free /\ InBank(t) /\ ~InBank(t)'
  PROVE  Ownership'
<1>1. ASSUME NEW u \in Thread, u # t
      PROVE  InBank(u)' <=> globalMutex' = u
  <2>1. InBank(u)' <=> InBank(u)
    BY <1>1 DEF InBank
  <2>2. InBank(u) <=> globalMutex = u
    BY DEF Ownership
  <2>3. InBank(t) <=> globalMutex = t
    BY DEF Ownership
  <2> QED
    BY <1>1, <2>1, <2>2, <2>3, ThreadKinds
<1>2. InBank(t)' <=> globalMutex' = t
  BY ThreadKinds DEF Ownership
<1> QED
  BY <1>1, <1>2 DEF Ownership

(* Steps of an ATM that stay inside the bank                               *)
LEMMA InnerStep ==
  ASSUME TypeOK, Ownership, NEW t \in Atm, NEW from, NEW to, Step(t, from, to),
         from \notin OutsideBank, to \in AtmLabels \ OutsideBank,
         globalMutex' = globalMutex
  PROVE  PcType' /\ Ownership'
<1>1. /\ PcType'
      /\ pc[t] = from /\ pc'[t] = to
      /\ \A u \in Thread \ {t} : pc'[u] = pc[u]
  BY PcStep, ThreadKinds DEF TypeOK, Service
<1>2. InBank(t) /\ InBank(t)'
  BY <1>1 DEF InBank
<1> QED
  BY <1>1, <1>2, OwnershipStep, ThreadKinds DEF TypeOK

(* A thread inside the bank executes a command of one of the six functions. *)
LEMMA InBankCommand ==
  ASSUME IInv, NEW t \in Atm, InBank(t)
  PROVE  /\ cmd[t] \in Command /\ cmd[t].op \in OpsAt(pc[t])
         /\ cmd[t].acc \in AccountId /\ cmd[t].tgt \in AccountId
         /\ cmd[t].amt \in Nat /\ cmd[t].pw \in Nat
         /\ balance[cmd[t].acc] \in Int /\ balance[cmd[t].tgt] \in Int
BY CommandFields DEF IInv, AtmInv, CommandKnown

(***************************************************************************)
(* The steps of an ATM keep the types and the ownership of the mutex.      *)
(***************************************************************************)
LEMMA AtmTypes ==
  ASSUME IInv, NEW t \in Atm, AtmStep(t)
  PROVE  TypeOK' /\ Ownership'
<1> USE DEF IInv, TypeOK
<1>0. BankType' /\ ServiceType'
  BY DEF AtmStep, bankVars, serviceVars, BankType, ServiceType
<1>a. t \in Thread
  BY ThreadKinds
<1>1. ASSUME ReadLine(t) PROVE TypeOK' /\ Ownership'
  <2>1. Step(t, "getline", "lock_global") \/ Step(t, "getline", "getline")
    BY <1>1 DEF ReadLine
  <2>2. /\ PcType'
        /\ \A u \in Thread \ {t} : pc'[u] = pc[u]
        /\ ~InBank(t) /\ ~InBank(t)'
    BY <1>a, <2>1, PcStep, ThreadKinds DEF AtmLabels, Service, InBank, OutsideBank
  <2>3. AtmType'
    <3>1. lines' \in [Atm -> 0..MaxLines]
      BY <1>1, BankAssumption DEF ReadLine, AtmType
    <3>2. cmd' \in [Atm -> Command \cup {NoCommand}]
      BY <1>1 DEF ReadLine, AtmType
    <3> QED
      BY <1>1, <3>1, <3>2 DEF ReadLine, AtmType, copies
  <2>4. BooksType' /\ LocksType' /\ globalMutex' = globalMutex
    BY <1>1 DEF ReadLine, BooksType, LocksType, books, locks
  <2> QED
    BY <1>0, <1>a, <2>2, <2>3, <2>4, OwnershipStep
<1>2. ASSUME EndOfFile(t) PROVE TypeOK' /\ Ownership'
  <2>1. Step(t, "getline", "exited")
    BY <1>2 DEF EndOfFile
  <2>2. /\ PcType'
        /\ \A u \in Thread \ {t} : pc'[u] = pc[u]
        /\ ~InBank(t) /\ ~InBank(t)'
    BY <1>a, <2>1, PcStep, ThreadKinds DEF AtmLabels, Service, InBank, OutsideBank
  <2>3. AtmType'
    BY <1>2 DEF EndOfFile, AtmType, copies
  <2>4. BooksType' /\ LocksType' /\ globalMutex' = globalMutex
    BY <1>2 DEF EndOfFile, BooksType, LocksType, books, locks
  <2> QED
    BY <1>0, <1>a, <2>2, <2>3, <2>4, OwnershipStep
<1>3. ASSUME EnterBank(t), UNCHANGED lines PROVE TypeOK' /\ Ownership'
  <2>1. Step(t, "lock_global", "find") /\ globalMutex = Free /\ globalMutex' = t
    BY <1>3 DEF EnterBank, LockGlobal
  <2>2. /\ PcType'
        /\ \A u \in Thread \ {t} : pc'[u] = pc[u]
        /\ InBank(t)'
    BY <1>a, <2>1, PcStep, ThreadKinds DEF AtmLabels, Service, InBank, OutsideBank
  <2>3. AtmType' /\ BooksType' /\ LocksType'
    BY <1>3, <1>a DEF EnterBank, LockGlobal, AtmType, BooksType, LocksType, copies, books
  <2> QED
    BY <1>0, <1>a, <2>1, <2>2, <2>3, OwnershipStep
<1>4. ASSUME Return(t), UNCHANGED lines PROVE TypeOK' /\ Ownership'
  <2>1. Step(t, "leave", "getline") /\ globalMutex' = Free
    BY <1>4 DEF Return, UnlockGlobal
  <2>2. /\ PcType'
        /\ \A u \in Thread \ {t} : pc'[u] = pc[u]
        /\ InBank(t) /\ ~InBank(t)'
    BY <1>a, <2>1, PcStep, ThreadKinds DEF AtmLabels, Service, InBank, OutsideBank
  <2>3. AtmType' /\ BooksType' /\ LocksType'
    BY <1>4 DEF Return, UnlockGlobal, AtmType, BooksType, LocksType, books, Outcomes
  <2> QED
    BY <1>0, <1>a, <2>1, <2>2, <2>3, OwnershipStep
<1>5. ASSUME FindAccount(t), UNCHANGED lines PROVE TypeOK' /\ Ownership'
  <2>1. Step(t, "find", "lock_acc") \/ Step(t, "find", "lock_log")
    BY <1>5 DEF FindAccount, Proceed, Answer
  <2>2. LocksType' /\ globalMutex' = globalMutex
    BY <1>5, <1>a DEF FindAccount, LocksType, locks
  <2>3. PcType' /\ Ownership'
    BY <2>1, <2>2, InnerStep DEF AtmLabels, OutsideBank
  <2>4. InBank(t)
    BY <2>1 DEF Step, InBank, OutsideBank
  <2>5. BooksType' /\ AtmType'
    BY <1>5, <2>4, InBankCommand
    DEF FindAccount, Proceed, Answer, BooksType, AtmType, Outcomes, books, copies
  <2> QED
    BY <1>0, <2>2, <2>3, <2>5
<1>6. ASSUME LockAccount(t), UNCHANGED lines PROVE TypeOK' /\ Ownership'
  <2>1. Step(t, "lock_acc", "read_acc")
    BY <1>6 DEF LockAccount, Proceed, Answer
  <2>2. LocksType' /\ globalMutex' = globalMutex
    BY <1>6, <1>a, AccountLocks DEF LockAccount
  <2>3. PcType' /\ Ownership'
    BY <2>1, <2>2, InnerStep DEF AtmLabels, OutsideBank
  <2>4. InBank(t)
    BY <2>1 DEF Step, InBank, OutsideBank
  <2>5. BooksType' /\ AtmType'
    BY <1>6, <2>4, InBankCommand
    DEF LockAccount, Proceed, Answer, BooksType, AtmType, Outcomes, books, copies
  <2> QED
    BY <1>0, <2>2, <2>3, <2>5
<1>7. ASSUME CopyAccount(t), UNCHANGED lines PROVE TypeOK' /\ Ownership'
  <2>1. Step(t, "read_acc", "check") \/ Step(t, "read_acc", "lock_log")
    BY <1>7 DEF CopyAccount, Proceed, Answer
  <2>2. LocksType' /\ globalMutex' = globalMutex
    BY <1>7, <1>a, AccountLocks DEF CopyAccount
  <2>3. PcType' /\ Ownership'
    BY <2>1, <2>2, InnerStep DEF AtmLabels, OutsideBank
  <2>4. InBank(t)
    BY <2>1 DEF Step, InBank, OutsideBank
  <2>5. BooksType' /\ AtmType'
    BY <1>7, <2>4, InBankCommand
    DEF CopyAccount, Proceed, Answer, BooksType, AtmType, Outcomes, books, copies
  <2> QED
    BY <1>0, <2>2, <2>3, <2>5
<1>8. ASSUME CheckFunds(t, "check"), UNCHANGED lines PROVE TypeOK' /\ Ownership'
  <2>1. Step(t, "check", "lock_upd") \/ Step(t, "check", "lock_log")
    BY <1>8 DEF CheckFunds, Proceed, Answer
  <2>2. LocksType' /\ globalMutex' = globalMutex
    BY <1>8, <1>a DEF CheckFunds, LocksType, locks
  <2>3. PcType' /\ Ownership'
    BY <2>1, <2>2, InnerStep DEF AtmLabels, OutsideBank
  <2>4. InBank(t)
    BY <2>1 DEF Step, InBank, OutsideBank
  <2>5. BooksType' /\ AtmType'
    BY <1>8, <2>4, InBankCommand
    DEF CheckFunds, Proceed, Answer, BooksType, AtmType, Outcomes, books, copies
  <2> QED
    BY <1>0, <2>2, <2>3, <2>5
<1>9. ASSUME CheckFunds(t, "funds"), UNCHANGED lines PROVE TypeOK' /\ Ownership'
  <2>1. Step(t, "funds", "lock_upd") \/ Step(t, "funds", "lock_log")
    BY <1>9 DEF CheckFunds, Proceed, Answer
  <2>2. LocksType' /\ globalMutex' = globalMutex
    BY <1>9, <1>a DEF CheckFunds, LocksType, locks
  <2>3. PcType' /\ Ownership'
    BY <2>1, <2>2, InnerStep DEF AtmLabels, OutsideBank
  <2>4. InBank(t)
    BY <2>1 DEF Step, InBank, OutsideBank
  <2>5. BooksType' /\ AtmType'
    BY <1>9, <2>4, InBankCommand
    DEF CheckFunds, Proceed, Answer, BooksType, AtmType, Outcomes, books, copies
  <2> QED
    BY <1>0, <2>2, <2>3, <2>5
<1>10. ASSUME LockDeposit(t), UNCHANGED lines PROVE TypeOK' /\ Ownership'
  <2>1. Step(t, "check", "update")
    BY <1>10 DEF LockDeposit, LockBalance, Proceed, Answer
  <2>2. LocksType' /\ globalMutex' = globalMutex
    BY <1>10, <1>a, AccountLocks DEF LockDeposit, LockBalance
  <2>3. PcType' /\ Ownership'
    BY <2>1, <2>2, InnerStep DEF AtmLabels, OutsideBank
  <2>4. InBank(t)
    BY <2>1 DEF Step, InBank, OutsideBank
  <2>5. BooksType' /\ AtmType'
    BY <1>10, <2>4, InBankCommand
    DEF LockDeposit, LockBalance, Proceed, Answer, BooksType, AtmType, Outcomes, books, copies
  <2> QED
    BY <1>0, <2>2, <2>3, <2>5
<1>11. ASSUME LockWithdrawal(t), UNCHANGED lines PROVE TypeOK' /\ Ownership'
  <2>1. Step(t, "lock_upd", "update")
    BY <1>11 DEF LockWithdrawal, LockBalance, Proceed, Answer
  <2>2. LocksType' /\ globalMutex' = globalMutex
    BY <1>11, <1>a, AccountLocks DEF LockWithdrawal, LockBalance
  <2>3. PcType' /\ Ownership'
    BY <2>1, <2>2, InnerStep DEF AtmLabels, OutsideBank
  <2>4. InBank(t)
    BY <2>1 DEF Step, InBank, OutsideBank
  <2>5. BooksType' /\ AtmType'
    BY <1>11, <2>4, InBankCommand
    DEF LockWithdrawal, LockBalance, Proceed, Answer, BooksType, AtmType, Outcomes, books, copies
  <2> QED
    BY <1>0, <2>2, <2>3, <2>5
<1>12. ASSUME LockCredit(t), UNCHANGED lines PROVE TypeOK' /\ Ownership'
  <2>1. Step(t, "lock_upd_tgt", "update_tgt")
    BY <1>12 DEF LockCredit, LockBalance, Proceed, Answer
  <2>2. LocksType' /\ globalMutex' = globalMutex
    BY <1>12, <1>a, AccountLocks DEF LockCredit, LockBalance
  <2>3. PcType' /\ Ownership'
    BY <2>1, <2>2, InnerStep DEF AtmLabels, OutsideBank
  <2>4. InBank(t)
    BY <2>1 DEF Step, InBank, OutsideBank
  <2>5. BooksType' /\ AtmType'
    BY <1>12, <2>4, InBankCommand
    DEF LockCredit, LockBalance, Proceed, Answer, BooksType, AtmType, Outcomes, books, copies
  <2> QED
    BY <1>0, <2>2, <2>3, <2>5
<1>13. ASSUME Deposit(t), UNCHANGED lines PROVE TypeOK' /\ Ownership'
  <2>1. Step(t, "update", "lock_log")
    BY <1>13 DEF Deposit, AddToBalance, Proceed, Answer
  <2>2. LocksType' /\ globalMutex' = globalMutex
    BY <1>13, <1>a, AccountLocks DEF Deposit, AddToBalance
  <2>3. PcType' /\ Ownership'
    BY <2>1, <2>2, InnerStep DEF AtmLabels, OutsideBank
  <2>4. InBank(t)
    BY <2>1 DEF Step, InBank, OutsideBank
  <2>5. BooksType' /\ AtmType'
    BY <1>13, <2>4, InBankCommand
    DEF Deposit, AddToBalance, Proceed, Answer, BooksType, AtmType, Outcomes, books, copies
  <2> QED
    BY <1>0, <2>2, <2>3, <2>5
<1>14. ASSUME Withdraw(t), UNCHANGED lines PROVE TypeOK' /\ Ownership'
  <2>1. Step(t, "update", "lock_log")
    BY <1>14 DEF Withdraw, AddToBalance, Proceed, Answer
  <2>2. LocksType' /\ globalMutex' = globalMutex
    BY <1>14, <1>a, AccountLocks DEF Withdraw, AddToBalance
  <2>3. PcType' /\ Ownership'
    BY <2>1, <2>2, InnerStep DEF AtmLabels, OutsideBank
  <2>4. InBank(t)
    BY <2>1 DEF Step, InBank, OutsideBank
  <2>5. BooksType' /\ AtmType'
    BY <1>14, <2>4, InBankCommand
    DEF Withdraw, AddToBalance, Proceed, Answer, BooksType, AtmType, Outcomes, books, copies
  <2> QED
    BY <1>0, <2>2, <2>3, <2>5
<1>15. ASSUME Debit(t), UNCHANGED lines PROVE TypeOK' /\ Ownership'
  <2>1. Step(t, "update", "lock_upd_tgt")
    BY <1>15 DEF Debit, AddToBalance, Proceed, Answer
  <2>2. LocksType' /\ globalMutex' = globalMutex
    BY <1>15, <1>a, AccountLocks DEF Debit, AddToBalance
  <2>3. PcType' /\ Ownership'
    BY <2>1, <2>2, InnerStep DEF AtmLabels, OutsideBank
  <2>4. InBank(t)
    BY <2>1 DEF Step, InBank, OutsideBank
  <2>5. BooksType' /\ AtmType'
    BY <1>15, <2>4, InBankCommand
    DEF Debit, AddToBalance, Proceed, Answer, BooksType, AtmType, Outcomes, books, copies
  <2> QED
    BY <1>0, <2>2, <2>3, <2>5
<1>16. ASSUME Credit(t), UNCHANGED lines PROVE TypeOK' /\ Ownership'
  <2>1. Step(t, "update_tgt", "lock_log")
    BY <1>16 DEF Credit, AddToBalance, Proceed, Answer
  <2>2. LocksType' /\ globalMutex' = globalMutex
    BY <1>16, <1>a, AccountLocks DEF Credit, AddToBalance
  <2>3. PcType' /\ Ownership'
    BY <2>1, <2>2, InnerStep DEF AtmLabels, OutsideBank
  <2>4. InBank(t)
    BY <2>1 DEF Step, InBank, OutsideBank
  <2>5. BooksType' /\ AtmType'
    BY <1>16, <2>4, InBankCommand
    DEF Credit, AddToBalance, Proceed, Answer, BooksType, AtmType, Outcomes, books, copies
  <2> QED
    BY <1>0, <2>2, <2>3, <2>5
<1>17. ASSUME OpenAccount(t), UNCHANGED lines PROVE TypeOK' /\ Ownership'
  <2>1. Step(t, "find", "lock_log")
    BY <1>17 DEF OpenAccount, Proceed, Answer
  <2>2. LocksType' /\ globalMutex' = globalMutex
    BY <1>17, <1>a DEF OpenAccount, LocksType, locks
  <2>3. PcType' /\ Ownership'
    BY <2>1, <2>2, InnerStep DEF AtmLabels, OutsideBank
  <2>4. InBank(t)
    BY <2>1 DEF Step, InBank, OutsideBank
  <2>5. BooksType' /\ AtmType'
    BY <1>17, <2>4, InBankCommand
    DEF OpenAccount, Proceed, Answer, BooksType, AtmType, Outcomes, books, copies
  <2> QED
    BY <1>0, <2>2, <2>3, <2>5
<1>18. ASSUME TellBalance(t), UNCHANGED lines PROVE TypeOK' /\ Ownership'
  <2>1. Step(t, "check", "lock_log")
    BY <1>18 DEF TellBalance, Proceed, Answer
  <2>2. LocksType' /\ globalMutex' = globalMutex
    BY <1>18, <1>a DEF TellBalance, LocksType, locks
  <2>3. PcType' /\ Ownership'
    BY <2>1, <2>2, InnerStep DEF AtmLabels, OutsideBank
  <2>4. InBank(t)
    BY <2>1 DEF Step, InBank, OutsideBank
  <2>5. BooksType' /\ AtmType'
    BY <1>18, <2>4, InBankCommand
    DEF TellBalance, Proceed, Answer, BooksType, AtmType, Outcomes, books, copies
  <2> QED
    BY <1>0, <2>2, <2>3, <2>5
<1>19. ASSUME EraseAccount(t), UNCHANGED lines PROVE TypeOK' /\ Ownership'
  <2>1. Step(t, "erase", "leave")
    BY <1>19 DEF EraseAccount, Proceed, Answer
  <2>2. LocksType' /\ globalMutex' = globalMutex
    BY <1>19, <1>a DEF EraseAccount, LocksType, locks
  <2>3. PcType' /\ Ownership'
    BY <2>1, <2>2, InnerStep DEF AtmLabels, OutsideBank
  <2>4. InBank(t)
    BY <2>1 DEF Step, InBank, OutsideBank
  <2>5. BooksType' /\ AtmType'
    BY <1>19, <2>4, InBankCommand
    DEF EraseAccount, Proceed, Answer, BooksType, AtmType, Outcomes, books, copies
  <2> QED
    BY <1>0, <2>2, <2>3, <2>5
<1>20. ASSUME FindTarget(t), UNCHANGED lines PROVE TypeOK' /\ Ownership'
  <2>1. Step(t, "check", "lock_tgt") \/ Step(t, "check", "lock_log")
    BY <1>20 DEF FindTarget, Proceed, Answer
  <2>2. LocksType' /\ globalMutex' = globalMutex
    BY <1>20, <1>a DEF FindTarget, LocksType, locks
  <2>3. PcType' /\ Ownership'
    BY <2>1, <2>2, InnerStep DEF AtmLabels, OutsideBank
  <2>4. InBank(t)
    BY <2>1 DEF Step, InBank, OutsideBank
  <2>5. BooksType' /\ AtmType'
    BY <1>20, <2>4, InBankCommand
    DEF FindTarget, Proceed, Answer, BooksType, AtmType, Outcomes, books, copies
  <2> QED
    BY <1>0, <2>2, <2>3, <2>5
<1>21. ASSUME LockTarget(t), UNCHANGED lines PROVE TypeOK' /\ Ownership'
  <2>1. Step(t, "lock_tgt", "read_tgt")
    BY <1>21 DEF LockTarget, Proceed, Answer
  <2>2. LocksType' /\ globalMutex' = globalMutex
    BY <1>21, <1>a, AccountLocks DEF LockTarget
  <2>3. PcType' /\ Ownership'
    BY <2>1, <2>2, InnerStep DEF AtmLabels, OutsideBank
  <2>4. InBank(t)
    BY <2>1 DEF Step, InBank, OutsideBank
  <2>5. BooksType' /\ AtmType'
    BY <1>21, <2>4, InBankCommand
    DEF LockTarget, Proceed, Answer, BooksType, AtmType, Outcomes, books, copies
  <2> QED
    BY <1>0, <2>2, <2>3, <2>5
<1>22. ASSUME CopyTarget(t), UNCHANGED lines PROVE TypeOK' /\ Ownership'
  <2>1. Step(t, "read_tgt", "funds")
    BY <1>22 DEF CopyTarget, Proceed, Answer
  <2>2. LocksType' /\ globalMutex' = globalMutex
    BY <1>22, <1>a, AccountLocks DEF CopyTarget
  <2>3. PcType' /\ Ownership'
    BY <2>1, <2>2, InnerStep DEF AtmLabels, OutsideBank
  <2>4. InBank(t)
    BY <2>1 DEF Step, InBank, OutsideBank
  <2>5. BooksType' /\ AtmType'
    BY <1>22, <2>4, InBankCommand
    DEF CopyTarget, Proceed, Answer, BooksType, AtmType, Outcomes, books, copies
  <2> QED
    BY <1>0, <2>2, <2>3, <2>5
<1>23. ASSUME TakeLog(t), UNCHANGED lines PROVE TypeOK' /\ Ownership'
  <2>1. Step(t, "lock_log", "log")
    BY <1>23 DEF TakeLog, LockLog, Proceed, Answer
  <2>2. LocksType' /\ globalMutex' = globalMutex
    BY <1>23, <1>a DEF TakeLog, LockLog, LocksType, locks
  <2>3. PcType' /\ Ownership'
    BY <2>1, <2>2, InnerStep DEF AtmLabels, OutsideBank
  <2>4. InBank(t)
    BY <2>1 DEF Step, InBank, OutsideBank
  <2>5. BooksType' /\ AtmType'
    BY <1>23, <2>4, InBankCommand
    DEF TakeLog, LockLog, Proceed, Answer, BooksType, AtmType, Outcomes, books, copies
  <2> QED
    BY <1>0, <2>2, <2>3, <2>5
<1>24. ASSUME WriteLog(t, "leave"), UNCHANGED lines PROVE TypeOK' /\ Ownership'
  <2>1. Step(t, "log", "leave")
    BY <1>24 DEF WriteLog, UnlockLog, Proceed, Answer
  <2>2. LocksType' /\ globalMutex' = globalMutex
    BY <1>24, <1>a DEF WriteLog, UnlockLog, LocksType, locks
  <2>3. PcType' /\ Ownership'
    BY <2>1, <2>2, InnerStep DEF AtmLabels, OutsideBank
  <2>4. InBank(t)
    BY <2>1 DEF Step, InBank, OutsideBank
  <2>5. BooksType' /\ AtmType'
    BY <1>24, <2>4, InBankCommand
    DEF WriteLog, UnlockLog, Proceed, Answer, BooksType, AtmType, Outcomes, books, copies
  <2> QED
    BY <1>0, <2>2, <2>3, <2>5
<1>25. ASSUME WriteLog(t, "erase"), UNCHANGED lines PROVE TypeOK' /\ Ownership'
  <2>1. Step(t, "log", "erase")
    BY <1>25 DEF WriteLog, UnlockLog, Proceed, Answer
  <2>2. LocksType' /\ globalMutex' = globalMutex
    BY <1>25, <1>a DEF WriteLog, UnlockLog, LocksType, locks
  <2>3. PcType' /\ Ownership'
    BY <2>1, <2>2, InnerStep DEF AtmLabels, OutsideBank
  <2>4. InBank(t)
    BY <2>1 DEF Step, InBank, OutsideBank
  <2>5. BooksType' /\ AtmType'
    BY <1>25, <2>4, InBankCommand
    DEF WriteLog, UnlockLog, Proceed, Answer, BooksType, AtmType, Outcomes, books, copies
  <2> QED
    BY <1>0, <2>2, <2>3, <2>5
<1> QED
  BY <1>1, <1>2, <1>3, <1>4, <1>5, <1>6, <1>7, <1>8, <1>9, <1>10, <1>11, <1>12, <1>13, <1>14, <1>15, <1>16, <1>17, <1>18, <1>19, <1>20, <1>21, <1>22, <1>23, <1>24, <1>25
  DEF AtmStep, all_functions_caller, O_function, D_function, W_function, B_function,
      Q_function, T_function, Visit, Report

(***************************************************************************)
(* What an ATM knows of the accounts it works on holds after its own       *)
(* steps.                                                                  *)
(***************************************************************************)
LEMMA AtmOwn ==
  ASSUME IInv, NEW t \in Atm, AtmStep(t)
  PROVE  AtmInv(t)'
<1>a. TypeOK /\ TypeOK' /\ AtmInv(t)
  BY AtmTypes DEF IInv
<1>b. pc \in [Thread -> AtmLabels \cup ServiceLabels] /\ t \in Thread /\ t \notin Service
  BY <1>a, ThreadKinds DEF TypeOK, PcType, Service
<1>c. /\ balance \in [AccountId -> Int] /\ balance' \in [AccountId -> Int]
      /\ accounts \subseteq AccountId /\ password \in [AccountId -> Nat]
      /\ cmd \in [Atm -> Command \cup {NoCommand}] /\ seen \in [Atm -> Int]
      /\ seenTarget \in [Atm -> Int] /\ outcome \in [Atm -> Outcomes]
  BY <1>a DEF TypeOK, BooksType, AtmType
<1>1. ASSUME FindAccount(t), cmd[t].op \in Ops \ {"O"} PROVE AtmInv(t)'
  <2>1. /\ pc[t] = "find" /\ UNCHANGED <<books, cmd, seenTarget>>
        /\ seen' = seen
    BY <1>1 DEF FindAccount, Proceed, Answer, Step
  <2>2. /\ cmd[t] \in Command /\ cmd[t].op \in OpsAt("find")
        /\ cmd[t].acc \in AccountId /\ cmd[t].tgt \in AccountId
        /\ cmd[t].amt \in Nat
    BY <2>1, InBankCommand DEF InBank, OutsideBank
  <2>3. CASE cmd[t].acc \in accounts
    <3>1. pc'[t] = "lock_acc" /\ outcome' = outcome
      BY <1>b, <1>1, <2>3 DEF FindAccount, Proceed, Answer, Step
    <3>2. CommandKnown(t)' /\ AccountsFound(t)'
      BY <1>a, <1>b, <1>1, <2>1, <2>2, <2>3, <3>1
      DEF AtmInv, CommandKnown, AccountsFound, Visited, OpsAt, Ops, books
    <3>3. CopyCurrent(t)' /\ TargetCurrent(t)' /\ FundsSuffice(t)'
      BY <1>a, <1>c, <1>1, <2>1, <2>2, <2>3, <3>1
      DEF AtmInv, CopyCurrent, TargetCurrent, FundsSuffice, books
    <3>4. HalfTransferred(t)' /\ LineReady(t)'
      BY <3>1 DEF HalfTransferred, LineReady
    <3> QED
      BY <3>2, <3>3, <3>4 DEF AtmInv
  <2>4. CASE ~(cmd[t].acc \in accounts)
    <3>1. pc'[t] = "lock_log" /\ outcome'[t] = "missing"
      BY <1>b, <1>c, <1>1, <2>4 DEF FindAccount, Proceed, Answer, Step
    <3>2. TrueLine(t)'
      BY <1>a, <1>b, <1>c, <1>1, <2>1, <2>2, <2>4, <3>1
      DEF AtmInv, AccountsFound, CopyCurrent, TrueLine, Visited, books
    <3>3. CommandKnown(t)' /\ AccountsFound(t)'
      BY <1>b, <2>1, <2>2, <3>1 DEF CommandKnown, AccountsFound, Visited, OpsAt, Ops
    <3>4. CopyCurrent(t)' /\ TargetCurrent(t)' /\ FundsSuffice(t)' /\ HalfTransferred(t)'
      BY <3>1 DEF CopyCurrent, TargetCurrent, FundsSuffice, HalfTransferred
    <3> QED
      BY <3>1, <3>2, <3>3, <3>4 DEF AtmInv, LineReady
  <2> QED
    BY <2>3, <2>4
<1>2. ASSUME LockAccount(t) PROVE AtmInv(t)'
  <2>1. pc[t] = "lock_acc" /\ pc'[t] = "read_acc"
    BY <1>b, <1>2 DEF LockAccount, Step
  <2>2. /\ cmd' = cmd
        /\ cmd[t] \in Command /\ cmd[t].op \in OpsAt("lock_acc")
        /\ cmd[t].acc \in AccountId /\ cmd[t].tgt \in AccountId
        /\ cmd[t].amt \in Nat
    BY <1>2, <2>1, InBankCommand DEF LockAccount, InBank, OutsideBank
  <2>3. CommandKnown(t)'
    BY <1>2, <2>1, <2>2 DEF CommandKnown, OpsAt, Ops
  <2>4. AccountsFound(t)'
    BY <1>2, <1>a, <1>b, <1>c, <2>1, <2>2
    DEF LockAccount, AtmInv, AccountsFound, LineReady, TrueLine, Has, Visited, OpsAt, books
  <2>5. CopyCurrent(t)' /\ TargetCurrent(t)' /\ FundsSuffice(t)'
    BY <1>2, <1>a, <1>c, <2>1, <2>2
    DEF LockAccount, AtmInv, CopyCurrent, TargetCurrent, FundsSuffice, OpsAt, books, copies
  <2>6. HalfTransferred(t)' /\ LineReady(t)'
    BY <1>2, <1>a, <1>b, <1>c, <2>1, <2>2
    DEF LockAccount, AtmInv, AccountsFound, CopyCurrent, TargetCurrent, HalfTransferred, LineReady,
        Visited, Has, books, copies
  <2> QED
    BY <2>3, <2>4, <2>5, <2>6 DEF AtmInv
<1>3. ASSUME CopyAccount(t) PROVE AtmInv(t)'
  <2>1. /\ pc[t] = "read_acc" /\ UNCHANGED <<books, cmd, seenTarget>>
        /\ seen' = [seen EXCEPT ![t] = balance[cmd[t].acc]]
    BY <1>3 DEF CopyAccount, unlock_for_writers, Proceed, Answer, Step
  <2>2. /\ cmd[t] \in Command /\ cmd[t].op \in OpsAt("read_acc")
        /\ cmd[t].acc \in AccountId /\ cmd[t].tgt \in AccountId
        /\ cmd[t].amt \in Nat
    BY <2>1, InBankCommand DEF InBank, OutsideBank
  <2>3. CASE cmd[t].pw = password[cmd[t].acc]
    <3>1. pc'[t] = "check" /\ outcome' = outcome
      BY <1>b, <1>3, <2>3 DEF CopyAccount, unlock_for_writers, Proceed, Answer, Step
    <3>2. CommandKnown(t)' /\ AccountsFound(t)'
      BY <1>a, <1>b, <1>3, <2>1, <2>2, <2>3, <3>1
      DEF AtmInv, CommandKnown, AccountsFound, Visited, OpsAt, Ops, books
    <3>3. CopyCurrent(t)' /\ TargetCurrent(t)' /\ FundsSuffice(t)'
      BY <1>a, <1>c, <1>3, <2>1, <2>2, <2>3, <3>1
      DEF AtmInv, CopyCurrent, TargetCurrent, FundsSuffice, books
    <3>4. HalfTransferred(t)' /\ LineReady(t)'
      BY <3>1 DEF HalfTransferred, LineReady
    <3> QED
      BY <3>2, <3>3, <3>4 DEF AtmInv
  <2>4. CASE ~(cmd[t].pw = password[cmd[t].acc])
    <3>1. pc'[t] = "lock_log" /\ outcome'[t] = "password"
      BY <1>b, <1>c, <1>3, <2>4 DEF CopyAccount, unlock_for_writers, Proceed, Answer, Step
    <3>2. TrueLine(t)'
      BY <1>a, <1>b, <1>c, <1>3, <2>1, <2>2, <2>4, <3>1
      DEF AtmInv, AccountsFound, CopyCurrent, TrueLine, Visited, books
    <3>3. CommandKnown(t)' /\ AccountsFound(t)'
      BY <1>b, <2>1, <2>2, <3>1 DEF CommandKnown, AccountsFound, Visited, OpsAt, Ops
    <3>4. CopyCurrent(t)' /\ TargetCurrent(t)' /\ FundsSuffice(t)' /\ HalfTransferred(t)'
      BY <3>1 DEF CopyCurrent, TargetCurrent, FundsSuffice, HalfTransferred
    <3> QED
      BY <3>1, <3>2, <3>3, <3>4 DEF AtmInv, LineReady
  <2> QED
    BY <2>3, <2>4
<1>4. ASSUME CheckFunds(t, "check"), cmd[t].op = "W" PROVE AtmInv(t)'
  <2>1. /\ pc[t] = "check" /\ UNCHANGED <<books, cmd, seenTarget>>
        /\ seen' = seen
    BY <1>4 DEF CheckFunds, Proceed, Answer, Step
  <2>2. /\ cmd[t] \in Command /\ cmd[t].op \in OpsAt("check")
        /\ cmd[t].acc \in AccountId /\ cmd[t].tgt \in AccountId
        /\ cmd[t].amt \in Nat
    BY <2>1, InBankCommand DEF InBank, OutsideBank
  <2>3. CASE ~(seen[t] < cmd[t].amt)
    <3>1. pc'[t] = "lock_upd" /\ outcome' = outcome
      BY <1>b, <1>4, <2>3 DEF CheckFunds, Proceed, Answer, Step
    <3>2. CommandKnown(t)' /\ AccountsFound(t)'
      BY <1>a, <1>b, <1>4, <2>1, <2>2, <2>3, <3>1
      DEF AtmInv, CommandKnown, AccountsFound, Visited, OpsAt, Ops, books
    <3>3. CopyCurrent(t)' /\ TargetCurrent(t)' /\ FundsSuffice(t)'
      BY <1>a, <1>c, <1>4, <2>1, <2>2, <2>3, <3>1
      DEF AtmInv, CopyCurrent, TargetCurrent, FundsSuffice, books
    <3>4. HalfTransferred(t)' /\ LineReady(t)'
      BY <3>1 DEF HalfTransferred, LineReady
    <3> QED
      BY <3>2, <3>3, <3>4 DEF AtmInv
  <2>4. CASE ~(~(seen[t] < cmd[t].amt))
    <3>1. pc'[t] = "lock_log" /\ outcome'[t] = "low"
      BY <1>b, <1>c, <1>4, <2>4 DEF CheckFunds, Proceed, Answer, Step
    <3>2. TrueLine(t)'
      BY <1>a, <1>b, <1>c, <1>4, <2>1, <2>2, <2>4, <3>1
      DEF AtmInv, AccountsFound, CopyCurrent, TrueLine, Visited, books
    <3>3. CommandKnown(t)' /\ AccountsFound(t)'
      BY <1>b, <2>1, <2>2, <3>1 DEF CommandKnown, AccountsFound, Visited, OpsAt, Ops
    <3>4. CopyCurrent(t)' /\ TargetCurrent(t)' /\ FundsSuffice(t)' /\ HalfTransferred(t)'
      BY <3>1 DEF CopyCurrent, TargetCurrent, FundsSuffice, HalfTransferred
    <3> QED
      BY <3>1, <3>2, <3>3, <3>4 DEF AtmInv, LineReady
  <2> QED
    BY <2>3, <2>4
<1>5. ASSUME CheckFunds(t, "funds"), cmd[t].op = "T" PROVE AtmInv(t)'
  <2>1. /\ pc[t] = "funds" /\ UNCHANGED <<books, cmd, seenTarget>>
        /\ seen' = seen
    BY <1>5 DEF CheckFunds, Proceed, Answer, Step
  <2>2. /\ cmd[t] \in Command /\ cmd[t].op \in OpsAt("funds")
        /\ cmd[t].acc \in AccountId /\ cmd[t].tgt \in AccountId
        /\ cmd[t].amt \in Nat
    BY <2>1, InBankCommand DEF InBank, OutsideBank
  <2>3. CASE ~(seen[t] < cmd[t].amt)
    <3>1. pc'[t] = "lock_upd" /\ outcome' = outcome
      BY <1>b, <1>5, <2>3 DEF CheckFunds, Proceed, Answer, Step
    <3>2. CommandKnown(t)' /\ AccountsFound(t)'
      BY <1>a, <1>b, <1>5, <2>1, <2>2, <2>3, <3>1
      DEF AtmInv, CommandKnown, AccountsFound, Visited, OpsAt, Ops, books
    <3>3. CopyCurrent(t)' /\ TargetCurrent(t)' /\ FundsSuffice(t)'
      BY <1>a, <1>c, <1>5, <2>1, <2>2, <2>3, <3>1
      DEF AtmInv, CopyCurrent, TargetCurrent, FundsSuffice, books
    <3>4. HalfTransferred(t)' /\ LineReady(t)'
      BY <3>1 DEF HalfTransferred, LineReady
    <3> QED
      BY <3>2, <3>3, <3>4 DEF AtmInv
  <2>4. CASE ~(~(seen[t] < cmd[t].amt))
    <3>1. pc'[t] = "lock_log" /\ outcome'[t] = "low"
      BY <1>b, <1>c, <1>5, <2>4 DEF CheckFunds, Proceed, Answer, Step
    <3>2. TrueLine(t)'
      BY <1>a, <1>b, <1>c, <1>5, <2>1, <2>2, <2>4, <3>1
      DEF AtmInv, AccountsFound, CopyCurrent, TrueLine, Visited, books
    <3>3. CommandKnown(t)' /\ AccountsFound(t)'
      BY <1>b, <2>1, <2>2, <3>1 DEF CommandKnown, AccountsFound, Visited, OpsAt, Ops
    <3>4. CopyCurrent(t)' /\ TargetCurrent(t)' /\ FundsSuffice(t)' /\ HalfTransferred(t)'
      BY <3>1 DEF CopyCurrent, TargetCurrent, FundsSuffice, HalfTransferred
    <3> QED
      BY <3>1, <3>2, <3>3, <3>4 DEF AtmInv, LineReady
  <2> QED
    BY <2>3, <2>4
<1>6. ASSUME LockDeposit(t), cmd[t].op = "D" PROVE AtmInv(t)'
  <2>1. pc[t] = "check" /\ pc'[t] = "update"
    BY <1>b, <1>6 DEF LockDeposit, LockBalance, Step
  <2>2. /\ cmd' = cmd
        /\ cmd[t] \in Command /\ cmd[t].op \in OpsAt("check")
        /\ cmd[t].acc \in AccountId /\ cmd[t].tgt \in AccountId
        /\ cmd[t].amt \in Nat
    BY <1>6, <2>1, InBankCommand DEF LockDeposit, LockBalance, InBank, OutsideBank
  <2>3. CommandKnown(t)'
    BY <1>6, <2>1, <2>2 DEF CommandKnown, OpsAt, Ops
  <2>4. AccountsFound(t)'
    BY <1>6, <1>a, <1>b, <1>c, <2>1, <2>2
    DEF LockDeposit, LockBalance, AtmInv, AccountsFound, LineReady, TrueLine, Has, Visited, OpsAt, books
  <2>5. CopyCurrent(t)' /\ TargetCurrent(t)' /\ FundsSuffice(t)'
    BY <1>6, <1>a, <1>c, <2>1, <2>2
    DEF LockDeposit, LockBalance, AtmInv, CopyCurrent, TargetCurrent, FundsSuffice, OpsAt, books, copies
  <2>6. HalfTransferred(t)' /\ LineReady(t)'
    BY <1>6, <1>a, <1>b, <1>c, <2>1, <2>2
    DEF LockDeposit, LockBalance, AtmInv, AccountsFound, CopyCurrent, TargetCurrent, HalfTransferred, LineReady,
        Visited, Has, books, copies
  <2> QED
    BY <2>3, <2>4, <2>5, <2>6 DEF AtmInv
<1>7. ASSUME LockWithdrawal(t), cmd[t].op \in {"W", "T"} PROVE AtmInv(t)'
  <2>1. pc[t] = "lock_upd" /\ pc'[t] = "update"
    BY <1>b, <1>7 DEF LockWithdrawal, LockBalance, Step
  <2>2. /\ cmd' = cmd
        /\ cmd[t] \in Command /\ cmd[t].op \in OpsAt("lock_upd")
        /\ cmd[t].acc \in AccountId /\ cmd[t].tgt \in AccountId
        /\ cmd[t].amt \in Nat
    BY <1>7, <2>1, InBankCommand DEF LockWithdrawal, LockBalance, InBank, OutsideBank
  <2>3. CommandKnown(t)'
    BY <1>7, <2>1, <2>2 DEF CommandKnown, OpsAt, Ops
  <2>4. AccountsFound(t)'
    BY <1>7, <1>a, <1>b, <1>c, <2>1, <2>2
    DEF LockWithdrawal, LockBalance, AtmInv, AccountsFound, LineReady, TrueLine, Has, Visited, OpsAt, books
  <2>5. CopyCurrent(t)' /\ TargetCurrent(t)' /\ FundsSuffice(t)'
    BY <1>7, <1>a, <1>c, <2>1, <2>2
    DEF LockWithdrawal, LockBalance, AtmInv, CopyCurrent, TargetCurrent, FundsSuffice, OpsAt, books, copies
  <2>6. HalfTransferred(t)' /\ LineReady(t)'
    BY <1>7, <1>a, <1>b, <1>c, <2>1, <2>2
    DEF LockWithdrawal, LockBalance, AtmInv, AccountsFound, CopyCurrent, TargetCurrent, HalfTransferred, LineReady,
        Visited, Has, books, copies
  <2> QED
    BY <2>3, <2>4, <2>5, <2>6 DEF AtmInv
<1>8. ASSUME LockCredit(t), cmd[t].op = "T" PROVE AtmInv(t)'
  <2>1. pc[t] = "lock_upd_tgt" /\ pc'[t] = "update_tgt"
    BY <1>b, <1>8 DEF LockCredit, LockBalance, Step
  <2>2. /\ cmd' = cmd
        /\ cmd[t] \in Command /\ cmd[t].op \in OpsAt("lock_upd_tgt")
        /\ cmd[t].acc \in AccountId /\ cmd[t].tgt \in AccountId
        /\ cmd[t].amt \in Nat
    BY <1>8, <2>1, InBankCommand DEF LockCredit, LockBalance, InBank, OutsideBank
  <2>3. CommandKnown(t)'
    BY <1>8, <2>1, <2>2 DEF CommandKnown, OpsAt, Ops
  <2>4. AccountsFound(t)'
    BY <1>8, <1>a, <1>b, <1>c, <2>1, <2>2
    DEF LockCredit, LockBalance, AtmInv, AccountsFound, LineReady, TrueLine, Has, Visited, OpsAt, books
  <2>5. CopyCurrent(t)' /\ TargetCurrent(t)' /\ FundsSuffice(t)'
    BY <1>8, <1>a, <1>c, <2>1, <2>2
    DEF LockCredit, LockBalance, AtmInv, CopyCurrent, TargetCurrent, FundsSuffice, OpsAt, books, copies
  <2>6. HalfTransferred(t)' /\ LineReady(t)'
    BY <1>8, <1>a, <1>b, <1>c, <2>1, <2>2
    DEF LockCredit, LockBalance, AtmInv, AccountsFound, CopyCurrent, TargetCurrent, HalfTransferred, LineReady,
        Visited, Has, books, copies
  <2> QED
    BY <2>3, <2>4, <2>5, <2>6 DEF AtmInv
<1>9. ASSUME Deposit(t), cmd[t].op = "D" PROVE AtmInv(t)'
  <2>1. pc[t] = "update" /\ pc'[t] = "lock_log"
    BY <1>b, <1>9 DEF Deposit, Answer, AddToBalance, Step
  <2>2. /\ cmd' = cmd
        /\ cmd[t] \in Command /\ cmd[t].op \in OpsAt("update")
        /\ cmd[t].acc \in AccountId /\ cmd[t].tgt \in AccountId
        /\ cmd[t].amt \in Nat
    BY <1>9, <2>1, InBankCommand DEF Deposit, Answer, AddToBalance, InBank, OutsideBank
  <2>3. CommandKnown(t)'
    BY <1>9, <2>1, <2>2 DEF CommandKnown, OpsAt, Ops
  <2>4. AccountsFound(t)'
    BY <1>b, <2>1 DEF AccountsFound, Visited
  <2>5. CopyCurrent(t)' /\ TargetCurrent(t)' /\ FundsSuffice(t)' /\ HalfTransferred(t)'
    BY <2>1 DEF CopyCurrent, TargetCurrent, FundsSuffice, HalfTransferred
  <2>6. LineReady(t)'
    BY <1>9, <1>a, <1>b, <1>c, <2>1, <2>2
    DEF Deposit, Answer, AddToBalance, AtmInv, AccountsFound, CopyCurrent, LineReady, TrueLine, Visited, Has, OpsAt, books, copies
  <2> QED
    BY <2>3, <2>4, <2>5, <2>6 DEF AtmInv
<1>10. ASSUME Withdraw(t), cmd[t].op = "W" PROVE AtmInv(t)'
  <2>1. pc[t] = "update" /\ pc'[t] = "lock_log"
    BY <1>b, <1>10 DEF Withdraw, Answer, AddToBalance, Step
  <2>2. /\ cmd' = cmd
        /\ cmd[t] \in Command /\ cmd[t].op \in OpsAt("update")
        /\ cmd[t].acc \in AccountId /\ cmd[t].tgt \in AccountId
        /\ cmd[t].amt \in Nat
    BY <1>10, <2>1, InBankCommand DEF Withdraw, Answer, AddToBalance, InBank, OutsideBank
  <2>3. CommandKnown(t)'
    BY <1>10, <2>1, <2>2 DEF CommandKnown, OpsAt, Ops
  <2>4. AccountsFound(t)'
    BY <1>b, <2>1 DEF AccountsFound, Visited
  <2>5. CopyCurrent(t)' /\ TargetCurrent(t)' /\ FundsSuffice(t)' /\ HalfTransferred(t)'
    BY <2>1 DEF CopyCurrent, TargetCurrent, FundsSuffice, HalfTransferred
  <2>6. LineReady(t)'
    BY <1>10, <1>a, <1>b, <1>c, <2>1, <2>2
    DEF Withdraw, Answer, AddToBalance, AtmInv, AccountsFound, CopyCurrent, LineReady, TrueLine, Visited, Has, OpsAt, books, copies
  <2> QED
    BY <2>3, <2>4, <2>5, <2>6 DEF AtmInv
<1>11. ASSUME Debit(t), cmd[t].op = "T" PROVE AtmInv(t)'
  <2>1. pc[t] = "update" /\ pc'[t] = "lock_upd_tgt"
    BY <1>b, <1>11 DEF Debit, Proceed, AddToBalance, Step
  <2>2. /\ cmd' = cmd
        /\ cmd[t] \in Command /\ cmd[t].op \in OpsAt("update")
        /\ cmd[t].acc \in AccountId /\ cmd[t].tgt \in AccountId
        /\ cmd[t].amt \in Nat
    BY <1>11, <2>1, InBankCommand DEF Debit, Proceed, AddToBalance, InBank, OutsideBank
  <2>3. CommandKnown(t)'
    BY <1>11, <2>1, <2>2 DEF CommandKnown, OpsAt, Ops
  <2>4. AccountsFound(t)'
    BY <1>11, <1>a, <1>b, <1>c, <2>1, <2>2
    DEF Debit, Proceed, AddToBalance, AtmInv, AccountsFound, LineReady, TrueLine, Has, Visited, OpsAt, books
  <2>5. CopyCurrent(t)' /\ TargetCurrent(t)' /\ FundsSuffice(t)'
    BY <1>11, <1>a, <1>c, <2>1, <2>2
    DEF Debit, Proceed, AddToBalance, AtmInv, CopyCurrent, TargetCurrent, FundsSuffice, OpsAt, books, copies
  <2>6. HalfTransferred(t)' /\ LineReady(t)'
    BY <1>11, <1>a, <1>b, <1>c, <2>1, <2>2
    DEF Debit, Proceed, AddToBalance, AtmInv, AccountsFound, CopyCurrent, TargetCurrent, HalfTransferred, LineReady,
        Visited, Has, books, copies
  <2> QED
    BY <2>3, <2>4, <2>5, <2>6 DEF AtmInv
<1>12. ASSUME Credit(t), cmd[t].op = "T" PROVE AtmInv(t)'
  <2>1. pc[t] = "update_tgt" /\ pc'[t] = "lock_log"
    BY <1>b, <1>12 DEF Credit, Answer, AddToBalance, Step
  <2>2. /\ cmd' = cmd
        /\ cmd[t] \in Command /\ cmd[t].op \in OpsAt("update_tgt")
        /\ cmd[t].acc \in AccountId /\ cmd[t].tgt \in AccountId
        /\ cmd[t].amt \in Nat
    BY <1>12, <2>1, InBankCommand DEF Credit, Answer, AddToBalance, InBank, OutsideBank
  <2>3. CommandKnown(t)'
    BY <1>12, <2>1, <2>2 DEF CommandKnown, OpsAt, Ops
  <2>4. AccountsFound(t)'
    BY <1>b, <2>1 DEF AccountsFound, Visited
  <2>5. CopyCurrent(t)' /\ TargetCurrent(t)' /\ FundsSuffice(t)' /\ HalfTransferred(t)'
    BY <2>1 DEF CopyCurrent, TargetCurrent, FundsSuffice, HalfTransferred
  <2>6. LineReady(t)'
    BY <1>12, <1>a, <1>b, <1>c, <2>1, <2>2
    DEF Credit, Answer, AddToBalance, AtmInv, AccountsFound, HalfTransferred, LineReady, TrueLine, Visited, Has, OpsAt, books, copies
  <2> QED
    BY <2>3, <2>4, <2>5, <2>6 DEF AtmInv
<1>13. ASSUME OpenAccount(t), cmd[t].op = "O" PROVE AtmInv(t)'
  <2>1. pc[t] = "find" /\ pc'[t] = "lock_log"
    BY <1>b, <1>13 DEF OpenAccount, Answer, Step
  <2>2. /\ cmd' = cmd
        /\ cmd[t] \in Command /\ cmd[t].op \in OpsAt("find")
        /\ cmd[t].acc \in AccountId /\ cmd[t].tgt \in AccountId
        /\ cmd[t].amt \in Nat
    BY <1>13, <2>1, InBankCommand DEF OpenAccount, Answer, InBank, OutsideBank
  <2>3. CommandKnown(t)'
    BY <1>13, <2>1, <2>2 DEF CommandKnown, OpsAt, Ops
  <2>4. AccountsFound(t)'
    BY <1>b, <2>1 DEF AccountsFound, Visited
  <2>5. CopyCurrent(t)' /\ TargetCurrent(t)' /\ FundsSuffice(t)' /\ HalfTransferred(t)'
    BY <2>1 DEF CopyCurrent, TargetCurrent, FundsSuffice, HalfTransferred
  <2>6. CASE cmd[t].acc \in accounts
    <3>1. outcome'[t] = "exists" /\ accounts' = accounts
      BY <1>c, <1>13, <2>6 DEF OpenAccount, Answer, books
    <3> QED
      BY <2>2, <2>3, <2>4, <2>5, <2>6, <3>1 DEF AtmInv, LineReady, TrueLine
  <2>7. CASE cmd[t].acc \notin accounts
    <3>1. /\ outcome'[t] = "ok" /\ cmd[t].acc \in accounts'
          /\ balance'[cmd[t].acc] = cmd[t].amt /\ password'[cmd[t].acc] = cmd[t].pw
      BY <1>c, <1>13, <2>2, <2>7 DEF OpenAccount, Answer
    <3> QED
      BY <1>13, <2>2, <2>3, <2>4, <2>5, <3>1 DEF AtmInv, LineReady, TrueLine, Has
  <2> QED
    BY <2>6, <2>7
<1>14. ASSUME TellBalance(t), cmd[t].op \in {"B", "Q"} PROVE AtmInv(t)'
  <2>1. pc[t] = "check" /\ pc'[t] = "lock_log"
    BY <1>b, <1>14 DEF TellBalance, Answer, Step
  <2>2. /\ cmd' = cmd
        /\ cmd[t] \in Command /\ cmd[t].op \in OpsAt("check")
        /\ cmd[t].acc \in AccountId /\ cmd[t].tgt \in AccountId
        /\ cmd[t].amt \in Nat
    BY <1>14, <2>1, InBankCommand DEF TellBalance, Answer, InBank, OutsideBank
  <2>3. CommandKnown(t)'
    BY <1>14, <2>1, <2>2 DEF CommandKnown, OpsAt, Ops
  <2>4. AccountsFound(t)'
    BY <1>b, <2>1 DEF AccountsFound, Visited
  <2>5. CopyCurrent(t)' /\ TargetCurrent(t)' /\ FundsSuffice(t)' /\ HalfTransferred(t)'
    BY <2>1 DEF CopyCurrent, TargetCurrent, FundsSuffice, HalfTransferred
  <2>6. LineReady(t)'
    BY <1>14, <1>a, <1>b, <1>c, <2>1, <2>2
    DEF TellBalance, Answer, AtmInv, AccountsFound, CopyCurrent, LineReady, TrueLine, Visited, Has, OpsAt, books, copies
  <2> QED
    BY <2>3, <2>4, <2>5, <2>6 DEF AtmInv
<1>15. ASSUME EraseAccount(t), cmd[t].op = "Q" PROVE AtmInv(t)'
  <2>1. pc[t] = "erase" /\ pc'[t] = "leave"
    BY <1>b, <1>15 DEF EraseAccount, Step
  <2>2. /\ cmd' = cmd
        /\ cmd[t] \in Command /\ cmd[t].op \in OpsAt("erase")
        /\ cmd[t].acc \in AccountId /\ cmd[t].tgt \in AccountId
        /\ cmd[t].amt \in Nat
    BY <1>15, <2>1, InBankCommand DEF EraseAccount, InBank, OutsideBank
  <2>3. CommandKnown(t)'
    BY <1>15, <2>1, <2>2 DEF CommandKnown, OpsAt, Ops
  <2>4. AccountsFound(t)' /\ LineReady(t)'
    BY <1>b, <2>1 DEF AccountsFound, LineReady, Visited
  <2>5. CopyCurrent(t)' /\ TargetCurrent(t)' /\ FundsSuffice(t)' /\ HalfTransferred(t)'
    BY <2>1 DEF CopyCurrent, TargetCurrent, FundsSuffice, HalfTransferred
  <2> QED
    BY <2>3, <2>4, <2>5 DEF AtmInv
<1>16. ASSUME FindTarget(t), cmd[t].op = "T" PROVE AtmInv(t)'
  <2>1. /\ pc[t] = "check" /\ UNCHANGED <<books, cmd, seenTarget>>
        /\ seen' = seen
    BY <1>16 DEF FindTarget, Proceed, Answer, Step
  <2>2. /\ cmd[t] \in Command /\ cmd[t].op \in OpsAt("check")
        /\ cmd[t].acc \in AccountId /\ cmd[t].tgt \in AccountId
        /\ cmd[t].amt \in Nat
    BY <2>1, InBankCommand DEF InBank, OutsideBank
  <2>3. CASE cmd[t].tgt \in accounts
    <3>1. pc'[t] = "lock_tgt" /\ outcome' = outcome
      BY <1>b, <1>16, <2>3 DEF FindTarget, Proceed, Answer, Step
    <3>2. CommandKnown(t)' /\ AccountsFound(t)'
      BY <1>a, <1>b, <1>16, <2>1, <2>2, <2>3, <3>1
      DEF AtmInv, CommandKnown, AccountsFound, Visited, OpsAt, Ops, books
    <3>3. CopyCurrent(t)' /\ TargetCurrent(t)' /\ FundsSuffice(t)'
      BY <1>a, <1>c, <1>16, <2>1, <2>2, <2>3, <3>1
      DEF AtmInv, CopyCurrent, TargetCurrent, FundsSuffice, books
    <3>4. HalfTransferred(t)' /\ LineReady(t)'
      BY <3>1 DEF HalfTransferred, LineReady
    <3> QED
      BY <3>2, <3>3, <3>4 DEF AtmInv
  <2>4. CASE ~(cmd[t].tgt \in accounts)
    <3>1. pc'[t] = "lock_log" /\ outcome'[t] = "no_target"
      BY <1>b, <1>c, <1>16, <2>4 DEF FindTarget, Proceed, Answer, Step
    <3>2. TrueLine(t)'
      BY <1>a, <1>b, <1>c, <1>16, <2>1, <2>2, <2>4, <3>1
      DEF AtmInv, AccountsFound, CopyCurrent, TrueLine, Visited, books
    <3>3. CommandKnown(t)' /\ AccountsFound(t)'
      BY <1>b, <2>1, <2>2, <3>1 DEF CommandKnown, AccountsFound, Visited, OpsAt, Ops
    <3>4. CopyCurrent(t)' /\ TargetCurrent(t)' /\ FundsSuffice(t)' /\ HalfTransferred(t)'
      BY <3>1 DEF CopyCurrent, TargetCurrent, FundsSuffice, HalfTransferred
    <3> QED
      BY <3>1, <3>2, <3>3, <3>4 DEF AtmInv, LineReady
  <2> QED
    BY <2>3, <2>4
<1>17. ASSUME LockTarget(t), cmd[t].op = "T" PROVE AtmInv(t)'
  <2>1. pc[t] = "lock_tgt" /\ pc'[t] = "read_tgt"
    BY <1>b, <1>17 DEF LockTarget, Step
  <2>2. /\ cmd' = cmd
        /\ cmd[t] \in Command /\ cmd[t].op \in OpsAt("lock_tgt")
        /\ cmd[t].acc \in AccountId /\ cmd[t].tgt \in AccountId
        /\ cmd[t].amt \in Nat
    BY <1>17, <2>1, InBankCommand DEF LockTarget, InBank, OutsideBank
  <2>3. CommandKnown(t)'
    BY <1>17, <2>1, <2>2 DEF CommandKnown, OpsAt, Ops
  <2>4. AccountsFound(t)'
    BY <1>17, <1>a, <1>b, <1>c, <2>1, <2>2
    DEF LockTarget, AtmInv, AccountsFound, LineReady, TrueLine, Has, Visited, OpsAt, books
  <2>5. CopyCurrent(t)' /\ TargetCurrent(t)' /\ FundsSuffice(t)'
    BY <1>17, <1>a, <1>c, <2>1, <2>2
    DEF LockTarget, AtmInv, CopyCurrent, TargetCurrent, FundsSuffice, OpsAt, books, copies
  <2>6. HalfTransferred(t)' /\ LineReady(t)'
    BY <1>17, <1>a, <1>b, <1>c, <2>1, <2>2
    DEF LockTarget, AtmInv, AccountsFound, CopyCurrent, TargetCurrent, HalfTransferred, LineReady,
        Visited, Has, books, copies
  <2> QED
    BY <2>3, <2>4, <2>5, <2>6 DEF AtmInv
<1>18. ASSUME CopyTarget(t), cmd[t].op = "T" PROVE AtmInv(t)'
  <2>1. pc[t] = "read_tgt" /\ pc'[t] = "funds"
    BY <1>b, <1>18 DEF CopyTarget, Proceed, Step
  <2>2. /\ cmd' = cmd
        /\ cmd[t] \in Command /\ cmd[t].op \in OpsAt("read_tgt")
        /\ cmd[t].acc \in AccountId /\ cmd[t].tgt \in AccountId
        /\ cmd[t].amt \in Nat
    BY <1>18, <2>1, InBankCommand DEF CopyTarget, Proceed, InBank, OutsideBank
  <2>3. CommandKnown(t)'
    BY <1>18, <2>1, <2>2 DEF CommandKnown, OpsAt, Ops
  <2>4. AccountsFound(t)'
    BY <1>18, <1>a, <1>b, <1>c, <2>1, <2>2
    DEF CopyTarget, Proceed, AtmInv, AccountsFound, LineReady, TrueLine, Has, Visited, OpsAt, books
  <2>5. CopyCurrent(t)' /\ TargetCurrent(t)' /\ FundsSuffice(t)'
    BY <1>18, <1>a, <1>c, <2>1, <2>2
    DEF CopyTarget, Proceed, AtmInv, CopyCurrent, TargetCurrent, FundsSuffice, OpsAt, books, copies
  <2>6. HalfTransferred(t)' /\ LineReady(t)'
    BY <1>18, <1>a, <1>b, <1>c, <2>1, <2>2
    DEF CopyTarget, Proceed, AtmInv, AccountsFound, CopyCurrent, TargetCurrent, HalfTransferred, LineReady,
        Visited, Has, books, copies
  <2> QED
    BY <2>3, <2>4, <2>5, <2>6 DEF AtmInv
<1>19. ASSUME TakeLog(t) PROVE AtmInv(t)'
  <2>1. pc[t] = "lock_log" /\ pc'[t] = "log"
    BY <1>b, <1>19 DEF TakeLog, LockLog, Step
  <2>2. /\ cmd' = cmd
        /\ cmd[t] \in Command /\ cmd[t].op \in OpsAt("lock_log")
        /\ cmd[t].acc \in AccountId /\ cmd[t].tgt \in AccountId
        /\ cmd[t].amt \in Nat
    BY <1>19, <2>1, InBankCommand DEF TakeLog, LockLog, InBank, OutsideBank
  <2>3. CommandKnown(t)'
    BY <1>19, <2>1, <2>2 DEF CommandKnown, OpsAt, Ops
  <2>4. AccountsFound(t)'
    BY <1>b, <2>1 DEF AccountsFound, Visited
  <2>5. CopyCurrent(t)' /\ TargetCurrent(t)' /\ FundsSuffice(t)' /\ HalfTransferred(t)'
    BY <2>1 DEF CopyCurrent, TargetCurrent, FundsSuffice, HalfTransferred
  <2>6. LineReady(t)'
    BY <1>19, <1>a, <1>b, <1>c, <2>1, <2>2
    DEF TakeLog, LockLog, AtmInv, LineReady, LineReady, TrueLine, Visited, Has, OpsAt, books, copies
  <2> QED
    BY <2>3, <2>4, <2>5, <2>6 DEF AtmInv
<1>20. ASSUME WriteLog(t, "leave") PROVE AtmInv(t)'
  <2>1. pc[t] = "log" /\ pc'[t] = "leave"
    BY <1>b, <1>20 DEF WriteLog, UnlockLog, Step
  <2>2. /\ cmd' = cmd
        /\ cmd[t] \in Command /\ cmd[t].op \in OpsAt("log")
        /\ cmd[t].acc \in AccountId /\ cmd[t].tgt \in AccountId
        /\ cmd[t].amt \in Nat
    BY <1>20, <2>1, InBankCommand DEF WriteLog, UnlockLog, InBank, OutsideBank
  <2>3. CommandKnown(t)'
    BY <1>20, <2>1, <2>2 DEF CommandKnown, OpsAt, Ops
  <2>4. AccountsFound(t)' /\ LineReady(t)'
    BY <1>b, <2>1 DEF AccountsFound, LineReady, Visited
  <2>5. CopyCurrent(t)' /\ TargetCurrent(t)' /\ FundsSuffice(t)' /\ HalfTransferred(t)'
    BY <2>1 DEF CopyCurrent, TargetCurrent, FundsSuffice, HalfTransferred
  <2> QED
    BY <2>3, <2>4, <2>5 DEF AtmInv
<1>21. ASSUME WriteLog(t, "erase"), cmd[t].op = "Q", outcome[t] = "ok" PROVE AtmInv(t)'
  <2>1. pc[t] = "log" /\ pc'[t] = "erase"
    BY <1>b, <1>21 DEF WriteLog, UnlockLog, Step
  <2>2. /\ cmd' = cmd
        /\ cmd[t] \in Command /\ cmd[t].op \in OpsAt("log")
        /\ cmd[t].acc \in AccountId /\ cmd[t].tgt \in AccountId
        /\ cmd[t].amt \in Nat
    BY <1>21, <2>1, InBankCommand DEF WriteLog, UnlockLog, InBank, OutsideBank
  <2>3. CommandKnown(t)'
    BY <1>21, <2>1, <2>2 DEF CommandKnown, OpsAt, Ops
  <2>4. AccountsFound(t)'
    BY <1>21, <1>a, <1>b, <1>c, <2>1, <2>2
    DEF WriteLog, UnlockLog, AtmInv, AccountsFound, LineReady, TrueLine, Has, Visited, OpsAt, books
  <2>5. CopyCurrent(t)' /\ TargetCurrent(t)' /\ FundsSuffice(t)'
    BY <1>21, <1>a, <1>c, <2>1, <2>2
    DEF WriteLog, UnlockLog, AtmInv, CopyCurrent, TargetCurrent, FundsSuffice, OpsAt, books, copies
  <2>6. HalfTransferred(t)' /\ LineReady(t)'
    BY <1>21, <1>a, <1>b, <1>c, <2>1, <2>2
    DEF WriteLog, UnlockLog, AtmInv, AccountsFound, CopyCurrent, TargetCurrent, HalfTransferred, LineReady,
        Visited, Has, books, copies
  <2> QED
    BY <2>3, <2>4, <2>5, <2>6 DEF AtmInv
<1>22. ASSUME ReadLine(t) \/ EndOfFile(t) \/ EnterBank(t) \/ Return(t) PROVE AtmInv(t)'
  <2>1. pc'[t] \in {"getline", "exited", "lock_global", "find"}
    BY <1>b, <1>22 DEF ReadLine, EndOfFile, EnterBank, Return, LockGlobal, UnlockGlobal, Step
  <2>2. CommandKnown(t)'
    <3>1. CASE ReadLine(t)
      BY <1>b, <1>c, <3>1, BankAssumption
      DEF ReadLine, Step, CommandKnown, OpsAt, InBank, OutsideBank
    <3>2. CASE EnterBank(t)
      BY <1>a, <1>b, <3>2
      DEF EnterBank, LockGlobal, Step, AtmInv, CommandKnown, OpsAt, InBank, OutsideBank
    <3>3. CASE EndOfFile(t) \/ Return(t)
      BY <1>b, <3>3 DEF EndOfFile, Return, UnlockGlobal, Step, CommandKnown, InBank, OutsideBank
    <3> QED
      BY <1>22, <3>1, <3>2, <3>3
  <2>3. AccountsFound(t)' /\ LineReady(t)'
    BY <1>b, <2>1 DEF AccountsFound, LineReady, Visited
  <2>4. CopyCurrent(t)' /\ TargetCurrent(t)' /\ FundsSuffice(t)' /\ HalfTransferred(t)'
    BY <2>1 DEF CopyCurrent, TargetCurrent, FundsSuffice, HalfTransferred
  <2> QED
    BY <2>2, <2>3, <2>4 DEF AtmInv
<1> QED
  BY <1>1, <1>2, <1>3, <1>4, <1>5, <1>6, <1>7, <1>8, <1>9, <1>10, <1>11, <1>12, <1>13, <1>14, <1>15, <1>16, <1>17, <1>18, <1>19, <1>20, <1>21, <1>22
  DEF AtmStep, all_functions_caller, O_function, D_function, W_function, B_function,
      Q_function, T_function, Visit, Report, Ops

-----------------------------------------------------------------------------
(***************************************************************************)
(* A thread outside the bank does not look at the books, so another        *)
(* thread's step inside leaves what it knows alone; nor does an ATM touch  *)
(* another thread's variables.                                             *)
(***************************************************************************)
Untouched(u) ==
  /\ pc'[u] = pc[u] /\ cmd'[u] = cmd[u] /\ seen'[u] = seen[u]
  /\ seenTarget'[u] = seenTarget[u] /\ outcome'[u] = outcome[u]

(* A step that leaves an ATM alone, and the books too if it is inside, keeps *)
(* what that ATM knows.                                                    *)
LEMMA OtherAtm ==
  ASSUME IInv, NEW u \in Atm, Untouched(u), UNCHANGED books \/ ~InBank(u)
  PROVE  AtmInv(u)'
<1>1. AtmInv(u) /\ u \notin Service
  BY ThreadKinds DEF IInv, Service
<1>2. CASE UNCHANGED books
  <2>1. CommandKnown(u)' /\ AccountsFound(u)'
    BY <1>1, <1>2 DEF Untouched, AtmInv, CommandKnown, AccountsFound, Visited, InBank, books
  <2>2. CopyCurrent(u)' /\ TargetCurrent(u)' /\ FundsSuffice(u)' /\ HalfTransferred(u)'
    BY <1>1, <1>2
    DEF Untouched, AtmInv, CopyCurrent, TargetCurrent, FundsSuffice, HalfTransferred, Has, books
  <2>3. LineReady(u)'
    BY <1>1, <1>2 DEF Untouched, AtmInv, LineReady, TrueLine, Has, books
  <2> QED
    BY <2>1, <2>2, <2>3 DEF AtmInv
<1>3. CASE ~InBank(u)
  <2>1. pc[u] \in OutsideBank /\ pc'[u] = pc[u]
    BY <1>3 DEF InBank, Untouched
  <2>2. CommandKnown(u)'
    BY <1>1, <2>1 DEF Untouched, AtmInv, CommandKnown, InBank
  <2>3. AccountsFound(u)' /\ LineReady(u)'
    BY <1>1, <2>1 DEF AccountsFound, LineReady, Visited, OutsideBank
  <2>4. CopyCurrent(u)' /\ TargetCurrent(u)' /\ FundsSuffice(u)' /\ HalfTransferred(u)'
    BY <2>1 DEF CopyCurrent, TargetCurrent, FundsSuffice, HalfTransferred, OutsideBank
  <2> QED
    BY <2>2, <2>3, <2>4 DEF AtmInv
<1> QED
  BY <1>2, <1>3

(* A step of one ATM leaves the other threads and the service variables be. *)
LEMMA AtmFrame ==
  ASSUME IInv, NEW t \in Atm, AtmStep(t)
  PROVE  /\ \A u \in Atm \ {t} : Untouched(u)
         /\ \A u \in Service : pc'[u] = pc[u]
         /\ UNCHANGED books \/ InBank(t)
         /\ UNCHANGED <<isAtmFinished, bankVars, serviceVars>>
<1>a. PcType /\ AtmType /\ t \in Thread /\ Service \subseteq Thread /\ t \notin Service
  BY ThreadKinds DEF IInv, TypeOK, Service
<1> DEFINE PcKept == \A u \in Thread \ {t} : pc'[u] = pc[u]
           LocalsKept == \A u \in Atm \ {t} :
                           /\ cmd'[u] = cmd[u] /\ seen'[u] = seen[u]
                           /\ seenTarget'[u] = seenTarget[u] /\ outcome'[u] = outcome[u]
           BooksKept == UNCHANGED books \/ InBank(t)
<1>b. ASSUME NEW from, NEW to, Step(t, from, to)
      PROVE  PcKept
  BY <1>a, <1>b DEF Step, PcType
<1> HIDE DEF PcKept
<1>1. ASSUME ReadLine(t) PROVE PcKept /\ LocalsKept /\ BooksKept
  <2>1. PcKept
    BY <1>b, <1>1 DEF ReadLine, Proceed, Answer
  <2>2. LocalsKept
    BY <1>a, <1>1 DEF ReadLine, Proceed, Answer, AtmType, copies
  <2>3. BooksKept
    BY <1>1 DEF ReadLine, books
  <2> QED
    BY <2>1, <2>2, <2>3
<1>2. ASSUME EndOfFile(t) PROVE PcKept /\ LocalsKept /\ BooksKept
  <2>1. PcKept
    BY <1>b, <1>2 DEF EndOfFile, Proceed, Answer
  <2>2. LocalsKept
    BY <1>a, <1>2 DEF EndOfFile, Proceed, Answer, AtmType, copies
  <2>3. BooksKept
    BY <1>2 DEF EndOfFile, books
  <2> QED
    BY <2>1, <2>2, <2>3
<1>3. ASSUME EnterBank(t) PROVE PcKept /\ LocalsKept /\ BooksKept
  <2>1. PcKept
    BY <1>b, <1>3 DEF EnterBank, LockGlobal, Proceed, Answer
  <2>2. LocalsKept
    BY <1>a, <1>3 DEF EnterBank, LockGlobal, Proceed, Answer, AtmType, copies
  <2>3. BooksKept
    BY <1>3 DEF EnterBank, LockGlobal, books
  <2> QED
    BY <2>1, <2>2, <2>3
<1>4. ASSUME FindAccount(t) PROVE PcKept /\ LocalsKept /\ BooksKept
  <2>1. PcKept
    BY <1>b, <1>4 DEF FindAccount, Proceed, Answer
  <2>2. LocalsKept
    BY <1>a, <1>4 DEF FindAccount, Proceed, Answer, AtmType, copies
  <2>3. BooksKept
    BY <1>4 DEF FindAccount, books
  <2> QED
    BY <2>1, <2>2, <2>3
<1>5. ASSUME LockAccount(t) PROVE PcKept /\ LocalsKept /\ BooksKept
  <2>1. PcKept
    BY <1>b, <1>5 DEF LockAccount, Proceed, Answer
  <2>2. LocalsKept
    BY <1>a, <1>5 DEF LockAccount, Proceed, Answer, AtmType, copies
  <2>3. BooksKept
    BY <1>5 DEF LockAccount, books
  <2> QED
    BY <2>1, <2>2, <2>3
<1>6. ASSUME CopyAccount(t) PROVE PcKept /\ LocalsKept /\ BooksKept
  <2>1. PcKept
    BY <1>b, <1>6 DEF CopyAccount, Proceed, Answer
  <2>2. LocalsKept
    BY <1>a, <1>6 DEF CopyAccount, Proceed, Answer, AtmType, copies
  <2>3. BooksKept
    BY <1>6 DEF CopyAccount, books
  <2> QED
    BY <2>1, <2>2, <2>3
<1>7. ASSUME NEW from, CheckFunds(t, from) PROVE PcKept /\ LocalsKept /\ BooksKept
  <2>1. PcKept
    BY <1>b, <1>7 DEF CheckFunds, Proceed, Answer
  <2>2. LocalsKept
    BY <1>a, <1>7 DEF CheckFunds, Proceed, Answer, AtmType, copies
  <2>3. BooksKept
    BY <1>7 DEF CheckFunds, books
  <2> QED
    BY <2>1, <2>2, <2>3
<1>8. ASSUME LockDeposit(t) PROVE PcKept /\ LocalsKept /\ BooksKept
  <2>1. PcKept
    BY <1>b, <1>8 DEF LockDeposit, LockBalance, Proceed, Answer
  <2>2. LocalsKept
    BY <1>a, <1>8 DEF LockDeposit, LockBalance, Proceed, Answer, AtmType, copies
  <2>3. BooksKept
    BY <1>8 DEF LockDeposit, LockBalance, books
  <2> QED
    BY <2>1, <2>2, <2>3
<1>9. ASSUME LockWithdrawal(t) PROVE PcKept /\ LocalsKept /\ BooksKept
  <2>1. PcKept
    BY <1>b, <1>9 DEF LockWithdrawal, LockBalance, Proceed, Answer
  <2>2. LocalsKept
    BY <1>a, <1>9 DEF LockWithdrawal, LockBalance, Proceed, Answer, AtmType, copies
  <2>3. BooksKept
    BY <1>9 DEF LockWithdrawal, LockBalance, books
  <2> QED
    BY <2>1, <2>2, <2>3
<1>10. ASSUME LockCredit(t) PROVE PcKept /\ LocalsKept /\ BooksKept
  <2>1. PcKept
    BY <1>b, <1>10 DEF LockCredit, LockBalance, Proceed, Answer
  <2>2. LocalsKept
    BY <1>a, <1>10 DEF LockCredit, LockBalance, Proceed, Answer, AtmType, copies
  <2>3. BooksKept
    BY <1>10 DEF LockCredit, LockBalance, books
  <2> QED
    BY <2>1, <2>2, <2>3
<1>11. ASSUME Deposit(t) PROVE PcKept /\ LocalsKept /\ BooksKept
  <2>1. PcKept
    BY <1>b, <1>11 DEF Deposit, AddToBalance, Proceed, Answer
  <2>2. LocalsKept
    BY <1>a, <1>11 DEF Deposit, AddToBalance, Proceed, Answer, AtmType, copies
  <2>3. BooksKept
    BY <1>11 DEF Deposit, AddToBalance, Step, Answer, Proceed, InBank, OutsideBank
  <2> QED
    BY <2>1, <2>2, <2>3
<1>12. ASSUME Withdraw(t) PROVE PcKept /\ LocalsKept /\ BooksKept
  <2>1. PcKept
    BY <1>b, <1>12 DEF Withdraw, AddToBalance, Proceed, Answer
  <2>2. LocalsKept
    BY <1>a, <1>12 DEF Withdraw, AddToBalance, Proceed, Answer, AtmType, copies
  <2>3. BooksKept
    BY <1>12 DEF Withdraw, AddToBalance, Step, Answer, Proceed, InBank, OutsideBank
  <2> QED
    BY <2>1, <2>2, <2>3
<1>13. ASSUME Debit(t) PROVE PcKept /\ LocalsKept /\ BooksKept
  <2>1. PcKept
    BY <1>b, <1>13 DEF Debit, AddToBalance, Proceed, Answer
  <2>2. LocalsKept
    BY <1>a, <1>13 DEF Debit, AddToBalance, Proceed, Answer, AtmType, copies
  <2>3. BooksKept
    BY <1>13 DEF Debit, AddToBalance, Step, Answer, Proceed, InBank, OutsideBank
  <2> QED
    BY <2>1, <2>2, <2>3
<1>14. ASSUME Credit(t) PROVE PcKept /\ LocalsKept /\ BooksKept
  <2>1. PcKept
    BY <1>b, <1>14 DEF Credit, AddToBalance, Proceed, Answer
  <2>2. LocalsKept
    BY <1>a, <1>14 DEF Credit, AddToBalance, Proceed, Answer, AtmType, copies
  <2>3. BooksKept
    BY <1>14 DEF Credit, AddToBalance, Step, Answer, Proceed, InBank, OutsideBank
  <2> QED
    BY <2>1, <2>2, <2>3
<1>15. ASSUME OpenAccount(t) PROVE PcKept /\ LocalsKept /\ BooksKept
  <2>1. PcKept
    BY <1>b, <1>15 DEF OpenAccount, Proceed, Answer
  <2>2. LocalsKept
    BY <1>a, <1>15 DEF OpenAccount, Proceed, Answer, AtmType, copies
  <2>3. BooksKept
    BY <1>15 DEF OpenAccount, Step, Answer, Proceed, InBank, OutsideBank
  <2> QED
    BY <2>1, <2>2, <2>3
<1>16. ASSUME TellBalance(t) PROVE PcKept /\ LocalsKept /\ BooksKept
  <2>1. PcKept
    BY <1>b, <1>16 DEF TellBalance, Proceed, Answer
  <2>2. LocalsKept
    BY <1>a, <1>16 DEF TellBalance, Proceed, Answer, AtmType, copies
  <2>3. BooksKept
    BY <1>16 DEF TellBalance, books
  <2> QED
    BY <2>1, <2>2, <2>3
<1>17. ASSUME EraseAccount(t) PROVE PcKept /\ LocalsKept /\ BooksKept
  <2>1. PcKept
    BY <1>b, <1>17 DEF EraseAccount, Proceed, Answer
  <2>2. LocalsKept
    BY <1>a, <1>17 DEF EraseAccount, Proceed, Answer, AtmType, copies
  <2>3. BooksKept
    BY <1>17 DEF EraseAccount, Step, Answer, Proceed, InBank, OutsideBank
  <2> QED
    BY <2>1, <2>2, <2>3
<1>18. ASSUME FindTarget(t) PROVE PcKept /\ LocalsKept /\ BooksKept
  <2>1. PcKept
    BY <1>b, <1>18 DEF FindTarget, Proceed, Answer
  <2>2. LocalsKept
    BY <1>a, <1>18 DEF FindTarget, Proceed, Answer, AtmType, copies
  <2>3. BooksKept
    BY <1>18 DEF FindTarget, books
  <2> QED
    BY <2>1, <2>2, <2>3
<1>19. ASSUME LockTarget(t) PROVE PcKept /\ LocalsKept /\ BooksKept
  <2>1. PcKept
    BY <1>b, <1>19 DEF LockTarget, Proceed, Answer
  <2>2. LocalsKept
    BY <1>a, <1>19 DEF LockTarget, Proceed, Answer, AtmType, copies
  <2>3. BooksKept
    BY <1>19 DEF LockTarget, books
  <2> QED
    BY <2>1, <2>2, <2>3
<1>20. ASSUME CopyTarget(t) PROVE PcKept /\ LocalsKept /\ BooksKept
  <2>1. PcKept
    BY <1>b, <1>20 DEF CopyTarget, Proceed, Answer
  <2>2. LocalsKept
    BY <1>a, <1>20 DEF CopyTarget, Proceed, Answer, AtmType, copies
  <2>3. BooksKept
    BY <1>20 DEF CopyTarget, books
  <2> QED
    BY <2>1, <2>2, <2>3
<1>21. ASSUME TakeLog(t) PROVE PcKept /\ LocalsKept /\ BooksKept
  <2>1. PcKept
    BY <1>b, <1>21 DEF TakeLog, LockLog, Proceed, Answer
  <2>2. LocalsKept
    BY <1>a, <1>21 DEF TakeLog, LockLog, Proceed, Answer, AtmType, copies
  <2>3. BooksKept
    BY <1>21 DEF TakeLog, LockLog, books
  <2> QED
    BY <2>1, <2>2, <2>3
<1>22. ASSUME NEW to, WriteLog(t, to) PROVE PcKept /\ LocalsKept /\ BooksKept
  <2>1. PcKept
    BY <1>b, <1>22 DEF WriteLog, UnlockLog, Proceed, Answer
  <2>2. LocalsKept
    BY <1>a, <1>22 DEF WriteLog, UnlockLog, Proceed, Answer, AtmType, copies
  <2>3. BooksKept
    BY <1>22 DEF WriteLog, UnlockLog, books
  <2> QED
    BY <2>1, <2>2, <2>3
<1>23. ASSUME Return(t) PROVE PcKept /\ LocalsKept /\ BooksKept
  <2>1. PcKept
    BY <1>b, <1>23 DEF Return, UnlockGlobal, Proceed, Answer
  <2>2. LocalsKept
    BY <1>a, <1>23 DEF Return, UnlockGlobal, Proceed, Answer, AtmType, copies
  <2>3. BooksKept
    BY <1>23 DEF Return, UnlockGlobal, books
  <2> QED
    BY <2>1, <2>2, <2>3
<1> HIDE DEF LocalsKept, BooksKept
<1>24. PcKept /\ LocalsKept /\ BooksKept
  BY <1>1, <1>2, <1>3, <1>4, <1>5, <1>6, <1>7, <1>8, <1>9, <1>10, <1>11, <1>12, <1>13, <1>14, <1>15, <1>16, <1>17, <1>18, <1>19, <1>20, <1>21, <1>22, <1>23
  DEF AtmStep, all_functions_caller, O_function, D_function, W_function, B_function,
      Q_function, T_function, Visit, Report
<1> QED
  BY <1>a, <1>24, ThreadKinds DEF AtmStep, PcKept, LocalsKept, BooksKept, Untouched

(* An ATM changes a balance by what its copy allows.                       *)
LEMMA AtmBooks ==
  ASSUME IInv, NEW t \in Atm, AtmStep(t)
  PROVE  ClosedIsEmpty' /\ NonNegative'
<1>a. /\ balance \in [AccountId -> Int] /\ accounts \subseteq AccountId
      /\ AtmInv(t) /\ ClosedIsEmpty /\ NonNegative /\ t \notin Service
  BY ThreadKinds DEF IInv, TypeOK, BooksType, Service
<1>b. InBank(t) => cmd[t].acc \in AccountId /\ cmd[t].tgt \in AccountId /\ cmd[t].amt \in Nat
  BY InBankCommand
<1> USE DEF ClosedIsEmpty, NonNegative
<1>1. CASE UNCHANGED <<accounts, balance>>
  BY <1>a, <1>1
<1>2. ASSUME OpenAccount(t) PROVE ClosedIsEmpty' /\ NonNegative'
  BY <1>a, <1>b, <1>2 DEF OpenAccount, Answer, Step, InBank, OutsideBank, books
<1>3. ASSUME Deposit(t), cmd[t].op = "D" PROVE ClosedIsEmpty' /\ NonNegative'
  <2>1. pc[t] = "update" /\ cmd[t].acc \in accounts
    BY <1>a, <1>3 DEF Deposit, Answer, Step, AtmInv, AccountsFound, Visited
  <2> QED
    BY <1>a, <1>b, <1>3, <2>1 DEF Deposit, AddToBalance, InBank, OutsideBank
<1>4. ASSUME Withdraw(t) \/ Debit(t), cmd[t].op # "D" PROVE ClosedIsEmpty' /\ NonNegative'
  <2>1. pc[t] = "update" /\ cmd[t].acc \in accounts
    BY <1>a, <1>4 DEF Withdraw, Debit, Answer, Proceed, Step, AtmInv, AccountsFound, Visited
  <2>2. cmd[t].amt <= balance[cmd[t].acc]
    BY <1>a, <1>4, <2>1 DEF AtmInv, CopyCurrent, FundsSuffice
  <2> QED
    BY <1>a, <1>b, <1>4, <2>1, <2>2 DEF Withdraw, Debit, AddToBalance, InBank, OutsideBank
<1>5. ASSUME Credit(t) PROVE ClosedIsEmpty' /\ NonNegative'
  <2>1. pc[t] = "update_tgt" /\ cmd[t].tgt \in accounts
    BY <1>a, <1>5 DEF Credit, Answer, Step, AtmInv, AccountsFound, Visited
  <2> QED
    BY <1>a, <1>b, <1>5, <2>1 DEF Credit, AddToBalance, InBank, OutsideBank
<1>6. ASSUME EraseAccount(t) PROVE ClosedIsEmpty' /\ NonNegative'
  BY <1>a, <1>b, <1>6 DEF EraseAccount, Step, InBank, OutsideBank
<1>7. \/ UNCHANGED <<accounts, balance>>
      \/ OpenAccount(t) \/ EraseAccount(t) \/ Credit(t)
      \/ Deposit(t) /\ cmd[t].op = "D"
      \/ (Withdraw(t) \/ Debit(t)) /\ cmd[t].op # "D"
  BY DEF AtmStep, all_functions_caller, O_function, D_function, W_function, B_function,
     Q_function, T_function, Visit, Report, ReadLine, EndOfFile, EnterBank, FindAccount,
     LockAccount, CopyAccount, CheckFunds, LockDeposit, LockWithdrawal, LockCredit,
     LockBalance, TellBalance, FindTarget, LockTarget, CopyTarget, TakeLog, WriteLog,
     Return, books
<1> QED
  BY <1>1, <1>2, <1>3, <1>4, <1>5, <1>6, <1>7

(* Every step of an ATM keeps the invariant.                               *)
LEMMA AtmInductive ==
  ASSUME IInv, NEW t \in Atm, AtmStep(t)
  PROVE  IInv'
<1>1. TypeOK' /\ Ownership'
  BY AtmTypes
<1>2. ClosedIsEmpty' /\ NonNegative'
  BY AtmBooks
<1>3. ASSUME NEW u \in Atm PROVE AtmInv(u)'
  <2>1. CASE u = t
    BY <2>1, AtmOwn
  <2>2. CASE u # t
    <3>1. UNCHANGED books \/ ~InBank(u)
      BY <2>2, AtmFrame, ThreadKinds DEF IInv, Ownership
    <3> QED
      BY <2>2, <3>1, AtmFrame, OtherAtm
  <2> QED
    BY <2>1, <2>2
<1>4. /\ pc'[Status] = pc[Status] /\ pc'[Commission] = pc[Commission]
      /\ UNCHANGED <<cursor, shown, currBalance>>
  BY AtmFrame, ThreadKinds DEF bankVars, serviceVars
<1>5. CASE UNCHANGED books
  BY <1>1, <1>2, <1>3, <1>4, <1>5 DEF IInv, CommissionInv, StatusInv, books
<1>6. CASE InBank(t)
  <2>1. pc[Status] \in OutsideBank /\ pc[Commission] \in OutsideBank
    BY <1>6, ThreadKinds DEF IInv, Ownership, InBank
  <2>2. CommissionInv' /\ StatusInv'
    BY <1>4, <2>1 DEF IInv, CommissionInv, StatusInv, OutsideBank, Nothing
  <2> QED
    BY <1>1, <1>2, <1>3, <2>2 DEF IInv
<1> QED
  BY <1>5, <1>6, AtmFrame

-----------------------------------------------------------------------------
(* The service threads *)

(* A commission is between nothing and the whole balance.                  *)
LEMMA ChargeBound ==
  ASSUME NEW r \in 0..5, NEW b \in Nat
  PROVE  Charge(r, b) \in Int /\ 0 <= Charge(r, b) /\ Charge(r, b) <= b
<1>1. r = 0 \/ r = 1 \/ r = 2 \/ r = 3 \/ r = 4 \/ r = 5
  OBVIOUS
<1>2. r * b \in Nat /\ r * b <= 5 * b
  BY <1>1
<1>3. ASSUME NEW n \in Nat, n <= 5 * b
      PROVE  n \div 100 \in Int /\ 0 <= n \div 100 /\ n \div 100 <= b
  BY <1>3
<1> QED
  BY <1>2, <1>3 DEF Charge

(* A service thread that moves, and changes the mutex as its labels say,   *)
(* keeps the ownership of the bank.                                        *)
LEMMA ServiceMove ==
  ASSUME TypeOK, Ownership, NEW t \in Service, NEW from, NEW to, Step(t, from, to),
         to \in ServiceLabels,
         \/ globalMutex' = globalMutex /\ (from \in OutsideBank <=> to \in OutsideBank)
         \/ globalMutex = Free /\ globalMutex' = t /\ to \notin OutsideBank
         \/ globalMutex' = Free /\ from \notin OutsideBank /\ to \in OutsideBank
  PROVE  /\ PcType' /\ Ownership'
         /\ pc[t] = from /\ pc'[t] = to
         /\ \A u \in Thread \ {t} : pc'[u] = pc[u]
<1>1. /\ PcType'
      /\ pc[t] = from /\ pc'[t] = to
      /\ \A u \in Thread \ {t} : pc'[u] = pc[u]
  BY PcStep, ThreadKinds DEF TypeOK, Service
<1> QED
  BY <1>1, OwnershipStep, ThreadKinds DEF TypeOK, InBank

(* What a service thread leaves alone                                      *)
LEMMA ServiceFrame ==
  ASSUME IInv, NEW s \in Service, \A u \in Thread \ {s} : pc'[u] = pc[u],
         UNCHANGED <<accounts, password, atmVars>>, UNCHANGED balance \/ InBank(s)
  PROVE  \A u \in Atm : AtmInv(u)'
<1>1. ASSUME NEW u \in Atm PROVE u \in Thread \ {s} /\ s \in Thread
  BY ThreadKinds DEF Service
<1>2. ASSUME NEW u \in Atm PROVE Untouched(u)
  <2>1. pc'[u] = pc[u]
    BY <1>1
  <2> QED
    BY <2>1 DEF Untouched, atmVars, copies
<1>3. ASSUME NEW u \in Atm PROVE UNCHANGED books \/ ~InBank(u)
  <2>1. InBank(s) => ~InBank(u)
    BY <1>1 DEF IInv, Ownership
  <2> QED
    BY <2>1 DEF books
<1> QED
  BY <1>2, <1>3, OtherAtm

(* The smallest key beyond the iterator: everything before it is visited.  *)
LEMMA NextVisited ==
  ASSUME IInv, NEW s \in Service, VisitNext(s)
  PROVE  /\ cursor'[s] \in accounts
         /\ \A a \in accounts : a < cursor'[s] => a <= cursor[s]
         /\ \A u \in Service \ {s} : cursor'[u] = cursor[u]
         /\ cursor' \in [Service -> AccountId \cup {0}]
<1>a. /\ accounts \subseteq AccountId /\ AccountId \subseteq Nat
      /\ cursor \in [Service -> AccountId \cup {0}]
  BY BankAssumption DEF IInv, TypeOK, BooksType, ServiceType
<1>1. PICK a \in Beyond(s) : /\ \A b \in Beyond(s) : a <= b
                             /\ cursor' = [cursor EXCEPT ![s] = a]
  BY DEF VisitNext
<1>2. a \in accounts
  BY <1>1 DEF Beyond
<1>3. ASSUME NEW b \in accounts, b < a PROVE b <= cursor[s]
  <2>a. a \in AccountId /\ b \in AccountId /\ cursor[s] \in AccountId \cup {0}
    BY <1>a, <1>2, <1>3
  <2>1. a \in Nat /\ b \in Nat /\ cursor[s] \in Nat
    BY <2>a, NumbersAreNat, Zenon
  <2>2. b \notin Beyond(s)
    BY <1>1, <1>3, <2>1
  <2> QED
    BY <2>1, <2>2 DEF Beyond
<1>4. cursor'[s] = a
  BY <1>a, <1>1
<1>5. /\ \A u \in Service \ {s} : cursor'[u] = cursor[u]
      /\ cursor' \in [Service -> AccountId \cup {0}]
  BY <1>a, <1>1, <1>2
<1> QED
  BY <1>2, <1>3, <1>4, <1>5

(***************************************************************************)
(* The commission thread                                                   *)
(***************************************************************************)
LEMMA CommissionInductive ==
  ASSUME IInv, bank_commission_routine
  PROVE  IInv'
<1>a. /\ Commission \in Service /\ Commission \in Thread /\ Status \in Thread \ {Commission}
      /\ Status \in Service \ {Commission}
  BY ThreadKinds
<1>b. /\ balance \in [AccountId -> Int] /\ accounts \subseteq AccountId
      /\ cursor \in [Service -> AccountId \cup {0}] /\ finished \in [Service -> BOOLEAN]
      /\ rate \in 0..5 /\ tot \in Int /\ currBalance \in Int /\ bankBalance \in Int
      /\ shown \in [AccountId -> Int] /\ isAtmFinished \in BOOLEAN
  BY DEF IInv, TypeOK, BooksType, ServiceType, BankType
<1>c. UNCHANGED <<accounts, password, isAtmFinished, atmVars>> /\ AtmType'
  BY DEF bank_commission_routine, IInv, TypeOK, AtmType, atmVars, copies
<1>d. PcType /\ Ownership /\ TypeOK /\ ClosedIsEmpty /\ NonNegative /\ CommissionInv /\ StatusInv
  BY DEF IInv, TypeOK
<1>e. ASSUME /\ PcType' /\ Ownership' /\ LocksType' /\ BooksType' /\ BankType' /\ ServiceType'
             /\ \A u \in Thread \ {Commission} : pc'[u] = pc[u]
             /\ UNCHANGED balance \/ InBank(Commission)
             /\ ClosedIsEmpty' /\ NonNegative' /\ CommissionInv'
             /\ cursor'[Status] = cursor[Status] /\ shown' = shown
      PROVE  IInv'
  <2>1. \A u \in Atm : AtmInv(u)'
    BY <1>a, <1>c, <1>e, ServiceFrame
  <2>2. StatusInv'
    <3>1. CASE UNCHANGED balance
      BY <1>a, <1>c, <1>d, <1>e, <3>1 DEF StatusInv
    <3>2. CASE InBank(Commission)
      <4>1. pc[Status] \in OutsideBank
        BY <1>a, <1>d, <3>2, ThreadKinds DEF Ownership, InBank
      <4> QED
        BY <1>a, <1>d, <1>e, <4>1 DEF StatusInv, OutsideBank, Nothing
    <3> QED
      BY <1>e, <3>1, <3>2
  <2> QED
    BY <1>c, <1>e, <2>1, <2>2 DEF IInv, TypeOK
<1>1. ASSUME BeginCharge PROVE IInv'
  <2>1. Step(Commission, "lock_global", "lock_log")
    BY <1>1 DEF BeginCharge, LockGlobal
  <2>2. LocksType' /\ globalMutex = Free /\ globalMutex' = Commission
    BY <1>a, <1>d, <1>1 DEF BeginCharge, LockGlobal, TypeOK, LocksType, locks
  <2>3. /\ PcType' /\ Ownership' /\ pc[Commission] = "lock_global" /\ pc'[Commission] = "lock_log"
        /\ \A u \in Thread \ {Commission} : pc'[u] = pc[u]
    BY <1>a, <1>d, <2>1, <2>2, ServiceMove DEF ServiceLabels, OutsideBank
  <2>4. UNCHANGED balance /\ BooksType' /\ BankType' /\ ServiceType'
    BY <1>a, <1>b, <1>c, <1>d, <1>1, <2>3, BankAssumption
    DEF BeginCharge, LockGlobal, BooksType, BankType, ServiceType, CommissionInv, TypeOK, bankVars, serviceVars
  <2>5. ClosedIsEmpty' /\ NonNegative' /\ cursor'[Status] = cursor[Status] /\ shown' = shown
    BY <1>a, <1>b, <1>c, <1>d, <1>1, <2>4 DEF BeginCharge, LockGlobal, ClosedIsEmpty, NonNegative, serviceVars
  <2>6. CommissionInv'
    BY <1>a, <1>b, <1>c, <1>d, <1>1, <2>3, <2>4
    DEF BeginCharge, LockGlobal, CommissionInv, bankVars, serviceVars
  <2> QED
    BY <1>e, <2>2, <2>3, <2>4, <2>5, <2>6
<1>2. ASSUME TakeLogForCharges PROVE IInv'
  <2>1. Step(Commission, "lock_log", "next")
    BY <1>2 DEF TakeLogForCharges, LockLog
  <2>2. LocksType' /\ globalMutex' = globalMutex
    BY <1>a, <1>d, <1>2 DEF TakeLogForCharges, LockLog, TypeOK, LocksType, locks
  <2>3. /\ PcType' /\ Ownership' /\ pc[Commission] = "lock_log" /\ pc'[Commission] = "next"
        /\ \A u \in Thread \ {Commission} : pc'[u] = pc[u]
    BY <1>a, <1>d, <2>1, <2>2, ServiceMove DEF ServiceLabels, OutsideBank
  <2>4. UNCHANGED balance /\ BooksType' /\ BankType' /\ ServiceType'
    BY <1>a, <1>b, <1>c, <1>d, <1>2, <2>3, BankAssumption
    DEF TakeLogForCharges, LockLog, BooksType, BankType, ServiceType, CommissionInv, TypeOK, bankVars, serviceVars
  <2>5. ClosedIsEmpty' /\ NonNegative' /\ cursor'[Status] = cursor[Status] /\ shown' = shown
    BY <1>a, <1>b, <1>c, <1>d, <1>2, <2>4 DEF TakeLogForCharges, LockLog, ClosedIsEmpty, NonNegative, serviceVars
  <2>6. CommissionInv'
    BY <1>a, <1>b, <1>c, <1>d, <1>2, <2>3, <2>4
    DEF TakeLogForCharges, LockLog, CommissionInv, bankVars, serviceVars
  <2> QED
    BY <1>e, <2>2, <2>3, <2>4, <2>5, <2>6
<1>3. ASSUME VisitNext(Commission) PROVE IInv'
  <2>1. Step(Commission, "next", "read")
    BY <1>3 DEF VisitNext
  <2>2. LocksType' /\ globalMutex' = globalMutex
    BY <1>a, <1>d, <1>3, AccountLocks DEF VisitNext, TypeOK
  <2>3. /\ PcType' /\ Ownership' /\ pc[Commission] = "next" /\ pc'[Commission] = "read"
        /\ \A u \in Thread \ {Commission} : pc'[u] = pc[u]
    BY <1>a, <1>d, <2>1, <2>2, ServiceMove DEF ServiceLabels, OutsideBank
  <2>4. UNCHANGED balance /\ BooksType' /\ BankType' /\ ServiceType'
    BY <1>a, <1>b, <1>c, <1>d, <1>3, <2>3, BankAssumption, NextVisited
    DEF VisitNext, BooksType, BankType, ServiceType, CommissionInv, TypeOK, bankVars, serviceVars
  <2>5. ClosedIsEmpty' /\ NonNegative' /\ cursor'[Status] = cursor[Status] /\ shown' = shown
    BY <1>a, <1>b, <1>c, <1>d, <1>3, <2>4, NextVisited DEF VisitNext, ClosedIsEmpty, NonNegative, serviceVars
  <2>6. CommissionInv'
    BY <1>a, <1>b, <1>c, <1>d, <1>3, <2>3, <2>4, NextVisited
    DEF VisitNext, CommissionInv, bankVars, serviceVars
  <2> QED
    BY <1>e, <2>2, <2>3, <2>4, <2>5, <2>6
<1>4. ASSUME CopyCharged PROVE IInv'
  <2>1. Step(Commission, "read", "lock_charge")
    BY <1>4 DEF CopyCharged
  <2>2. LocksType' /\ globalMutex' = globalMutex
    BY <1>a, <1>d, <1>4, AccountLocks DEF CopyCharged, TypeOK
  <2>3. /\ PcType' /\ Ownership' /\ pc[Commission] = "read" /\ pc'[Commission] = "lock_charge"
        /\ \A u \in Thread \ {Commission} : pc'[u] = pc[u]
    BY <1>a, <1>d, <2>1, <2>2, ServiceMove DEF ServiceLabels, OutsideBank
  <2>4. UNCHANGED balance /\ BooksType' /\ BankType' /\ ServiceType'
    BY <1>a, <1>b, <1>c, <1>d, <1>4, <2>3, BankAssumption
    DEF CopyCharged, BooksType, BankType, ServiceType, CommissionInv, TypeOK, bankVars, serviceVars
  <2>5. ClosedIsEmpty' /\ NonNegative' /\ cursor'[Status] = cursor[Status] /\ shown' = shown
    BY <1>a, <1>b, <1>c, <1>d, <1>4, <2>4 DEF CopyCharged, ClosedIsEmpty, NonNegative, serviceVars
  <2>6. CommissionInv'
    BY <1>a, <1>b, <1>c, <1>d, <1>4, <2>3, <2>4
    DEF CopyCharged, CommissionInv, bankVars, serviceVars
  <2> QED
    BY <1>e, <2>2, <2>3, <2>4, <2>5, <2>6
<1>5. ASSUME LockCharged PROVE IInv'
  <2>1. Step(Commission, "lock_charge", "charge")
    BY <1>5 DEF LockCharged
  <2>2. LocksType' /\ globalMutex' = globalMutex
    BY <1>a, <1>d, <1>5, AccountLocks DEF LockCharged, TypeOK
  <2>3. /\ PcType' /\ Ownership' /\ pc[Commission] = "lock_charge" /\ pc'[Commission] = "charge"
        /\ \A u \in Thread \ {Commission} : pc'[u] = pc[u]
    BY <1>a, <1>d, <2>1, <2>2, ServiceMove DEF ServiceLabels, OutsideBank
  <2>4. UNCHANGED balance /\ BooksType' /\ BankType' /\ ServiceType'
    BY <1>a, <1>b, <1>c, <1>d, <1>5, <2>3, BankAssumption
    DEF LockCharged, BooksType, BankType, ServiceType, CommissionInv, TypeOK, bankVars, serviceVars
  <2>5. ClosedIsEmpty' /\ NonNegative' /\ cursor'[Status] = cursor[Status] /\ shown' = shown
    BY <1>a, <1>b, <1>c, <1>d, <1>5, <2>4 DEF LockCharged, ClosedIsEmpty, NonNegative, serviceVars
  <2>6. CommissionInv'
    BY <1>a, <1>b, <1>c, <1>d, <1>5, <2>3, <2>4
    DEF LockCharged, CommissionInv, bankVars, serviceVars
  <2> QED
    BY <1>e, <2>2, <2>3, <2>4, <2>5, <2>6
<1>6. ASSUME ChargeAccount PROVE IInv'
  <2>1. Step(Commission, "charge", "next")
    BY <1>6 DEF ChargeAccount
  <2>2. LocksType' /\ globalMutex' = globalMutex
    BY <1>a, <1>d, <1>6, AccountLocks DEF ChargeAccount, TypeOK
  <2>3. /\ PcType' /\ Ownership' /\ pc[Commission] = "charge" /\ pc'[Commission] = "next"
        /\ \A u \in Thread \ {Commission} : pc'[u] = pc[u]
    BY <1>a, <1>d, <2>1, <2>2, ServiceMove DEF ServiceLabels, OutsideBank
  <2>4. /\ cursor[Commission] \in accounts
        /\ currBalance = balance[cursor[Commission]] /\ currBalance \in Nat
    BY <1>b, <1>d, <2>3 DEF CommissionInv, NonNegative
  <2> DEFINE fee == Charge(rate, currBalance)
  <2>5. fee \in Int /\ 0 <= fee /\ fee <= currBalance
    BY <1>b, <2>4, ChargeBound
  <2> HIDE DEF fee
  <2>6. /\ balance' = [balance EXCEPT ![cursor[Commission]] = currBalance - fee]
        /\ tot' = tot + fee /\ UNCHANGED <<bankBalance, rate, currBalance, serviceVars>>
    BY <1>6 DEF ChargeAccount, fee
  <2>7. BooksType' /\ BankType' /\ ServiceType' /\ ClosedIsEmpty' /\ NonNegative'
    BY <1>b, <1>c, <1>d, <2>4, <2>5, <2>6
    DEF BooksType, BankType, ServiceType, ClosedIsEmpty, NonNegative, serviceVars, TypeOK
  <2>8. CommissionInv'
    BY <2>3 DEF CommissionInv
  <2> QED
    BY <1>e, <2>2, <2>3, <2>6, <2>7, <2>8 DEF serviceVars, InBank, OutsideBank
<1>7. ASSUME EndCharge PROVE IInv'
  <2>1. Step(Commission, "next", "leave")
    BY <1>7 DEF EndCharge, UnlockLog, EndVisit
  <2>2. LocksType' /\ globalMutex' = globalMutex
    BY <1>a, <1>d, <1>7 DEF EndCharge, UnlockLog, EndVisit, TypeOK, LocksType, locks
  <2>3. /\ PcType' /\ Ownership' /\ pc[Commission] = "next" /\ pc'[Commission] = "leave"
        /\ \A u \in Thread \ {Commission} : pc'[u] = pc[u]
    BY <1>a, <1>d, <2>1, <2>2, ServiceMove DEF ServiceLabels, OutsideBank
  <2>4. UNCHANGED balance /\ BooksType' /\ BankType' /\ ServiceType'
    BY <1>a, <1>b, <1>c, <1>d, <1>7, <2>3, BankAssumption
    DEF EndCharge, UnlockLog, EndVisit, BooksType, BankType, ServiceType, CommissionInv, TypeOK, bankVars, serviceVars
  <2>5. ClosedIsEmpty' /\ NonNegative' /\ cursor'[Status] = cursor[Status] /\ shown' = shown
    BY <1>a, <1>b, <1>c, <1>d, <1>7, <2>4 DEF EndCharge, UnlockLog, EndVisit, ClosedIsEmpty, NonNegative, serviceVars
  <2>6. CommissionInv'
    BY <1>a, <1>b, <1>c, <1>d, <1>7, <2>3, <2>4
    DEF EndCharge, UnlockLog, EndVisit, CommissionInv, bankVars, serviceVars
  <2> QED
    BY <1>e, <2>2, <2>3, <2>4, <2>5, <2>6
<1>8. ASSUME LeaveCharged PROVE IInv'
  <2>1. Step(Commission, "leave", "credit")
    BY <1>8 DEF LeaveCharged, UnlockGlobal
  <2>2. LocksType' /\ globalMutex' = Free
    BY <1>a, <1>d, <1>8 DEF LeaveCharged, UnlockGlobal, TypeOK, LocksType, locks
  <2>3. /\ PcType' /\ Ownership' /\ pc[Commission] = "leave" /\ pc'[Commission] = "credit"
        /\ \A u \in Thread \ {Commission} : pc'[u] = pc[u]
    BY <1>a, <1>d, <2>1, <2>2, ServiceMove DEF ServiceLabels, OutsideBank
  <2>4. UNCHANGED balance /\ BooksType' /\ BankType' /\ ServiceType'
    BY <1>a, <1>b, <1>c, <1>d, <1>8, <2>3, BankAssumption
    DEF LeaveCharged, UnlockGlobal, BooksType, BankType, ServiceType, CommissionInv, TypeOK, bankVars, serviceVars
  <2>5. ClosedIsEmpty' /\ NonNegative' /\ cursor'[Status] = cursor[Status] /\ shown' = shown
    BY <1>a, <1>b, <1>c, <1>d, <1>8, <2>4 DEF LeaveCharged, UnlockGlobal, ClosedIsEmpty, NonNegative, serviceVars
  <2>6. CommissionInv'
    BY <1>a, <1>b, <1>c, <1>d, <1>8, <2>3, <2>4
    DEF LeaveCharged, UnlockGlobal, CommissionInv, bankVars, serviceVars
  <2> QED
    BY <1>e, <2>2, <2>3, <2>4, <2>5, <2>6
<1>9. ASSUME CreditBank PROVE IInv'
  <2>1. Step(Commission, "credit", "flag")
    BY <1>9 DEF CreditBank
  <2>2. LocksType' /\ globalMutex' = globalMutex
    BY <1>a, <1>d, <1>9 DEF CreditBank, TypeOK, LocksType, locks
  <2>3. /\ PcType' /\ Ownership' /\ pc[Commission] = "credit" /\ pc'[Commission] = "flag"
        /\ \A u \in Thread \ {Commission} : pc'[u] = pc[u]
    BY <1>a, <1>d, <2>1, <2>2, ServiceMove DEF ServiceLabels, OutsideBank
  <2>4. UNCHANGED balance /\ BooksType' /\ BankType' /\ ServiceType'
    BY <1>a, <1>b, <1>c, <1>d, <1>9, <2>3, BankAssumption
    DEF CreditBank, BooksType, BankType, ServiceType, CommissionInv, TypeOK, bankVars, serviceVars
  <2>5. ClosedIsEmpty' /\ NonNegative' /\ cursor'[Status] = cursor[Status] /\ shown' = shown
    BY <1>a, <1>b, <1>c, <1>d, <1>9, <2>4 DEF CreditBank, ClosedIsEmpty, NonNegative, serviceVars
  <2>6. CommissionInv'
    BY <1>a, <1>b, <1>c, <1>d, <1>9, <2>3, <2>4
    DEF CreditBank, CommissionInv, bankVars, serviceVars
  <2> QED
    BY <1>e, <2>2, <2>3, <2>4, <2>5, <2>6
<1>10. ASSUME ReadFlag(Commission) PROVE IInv'
  <2>1. Step(Commission, "flag", "sleep")
    BY <1>10 DEF ReadFlag
  <2>2. LocksType' /\ globalMutex' = globalMutex
    BY <1>a, <1>d, <1>10 DEF ReadFlag, TypeOK, LocksType, locks
  <2>3. /\ PcType' /\ Ownership' /\ pc[Commission] = "flag" /\ pc'[Commission] = "sleep"
        /\ \A u \in Thread \ {Commission} : pc'[u] = pc[u]
    BY <1>a, <1>d, <2>1, <2>2, ServiceMove DEF ServiceLabels, OutsideBank
  <2>4. UNCHANGED balance /\ BooksType' /\ BankType' /\ ServiceType'
    BY <1>a, <1>b, <1>c, <1>d, <1>10, <2>3, BankAssumption
    DEF ReadFlag, BooksType, BankType, ServiceType, CommissionInv, TypeOK, bankVars, serviceVars
  <2>5. ClosedIsEmpty' /\ NonNegative' /\ cursor'[Status] = cursor[Status] /\ shown' = shown
    BY <1>a, <1>b, <1>c, <1>d, <1>10, <2>4 DEF ReadFlag, ClosedIsEmpty, NonNegative, serviceVars
  <2>6. CommissionInv'
    BY <1>a, <1>b, <1>c, <1>d, <1>10, <2>3, <2>4
    DEF ReadFlag, CommissionInv, bankVars, serviceVars
  <2> QED
    BY <1>e, <2>2, <2>3, <2>4, <2>5, <2>6
<1>11. ASSUME Sleep(Commission) PROVE IInv'
  <2>1. Step(Commission, "sleep", "exited") \/ Step(Commission, "sleep", "lock_global")
    BY <1>11 DEF Sleep
  <2>2. LocksType' /\ globalMutex' = globalMutex
    BY <1>d, <1>11 DEF Sleep, TypeOK, LocksType, locks
  <2>3. /\ PcType' /\ Ownership' /\ pc'[Commission] \in {"exited", "lock_global"} /\ pc[Commission] = "sleep"
        /\ \A u \in Thread \ {Commission} : pc'[u] = pc[u]
    BY <1>a, <1>d, <2>1, <2>2, ServiceMove DEF ServiceLabels, OutsideBank
  <2>4. UNCHANGED <<balance, bankVars, serviceVars>>
    BY <1>11 DEF Sleep
  <2>5. BooksType' /\ BankType' /\ ServiceType' /\ ClosedIsEmpty' /\ NonNegative' /\ CommissionInv'
    BY <1>c, <1>d, <2>3, <2>4
    DEF BooksType, BankType, ServiceType, ClosedIsEmpty, NonNegative, CommissionInv, TypeOK,
        bankVars, serviceVars
  <2> QED
    BY <1>e, <2>2, <2>3, <2>4, <2>5 DEF serviceVars
<1> QED
  BY <1>1, <1>2, <1>3, <1>4, <1>5, <1>6, <1>7, <1>8, <1>9, <1>10, <1>11
  DEF bank_commission_routine, commission

(***************************************************************************)
(* The status thread                                                       *)
(***************************************************************************)
LEMMA StatusInductive ==
  ASSUME IInv, bank_status_routine
  PROVE  IInv'
<1>a. /\ Status \in Service /\ Status \in Thread /\ Commission \in Thread \ {Status}
      /\ Commission \in Service \ {Status}
  BY ThreadKinds
<1>b. /\ balance \in [AccountId -> Int] /\ accounts \subseteq AccountId
      /\ AccountId \subseteq Nat \ {0}
      /\ cursor \in [Service -> AccountId \cup {0}] /\ finished \in [Service -> BOOLEAN]
      /\ shown \in [AccountId -> Int] /\ isAtmFinished \in BOOLEAN
      /\ Nothing \in [AccountId -> Int]
  BY BankAssumption DEF IInv, TypeOK, BooksType, ServiceType, BankType, Nothing
<1>c. UNCHANGED <<accounts, password, isAtmFinished, atmVars>> /\ AtmType'
  BY DEF bank_status_routine, IInv, TypeOK, AtmType, atmVars, copies
<1>d. PcType /\ Ownership /\ TypeOK /\ ClosedIsEmpty /\ NonNegative /\ CommissionInv /\ StatusInv
  BY DEF IInv, TypeOK
<1>e. ASSUME /\ PcType' /\ Ownership' /\ LocksType' /\ ServiceType'
             /\ \A u \in Thread \ {Status} : pc'[u] = pc[u]
             /\ UNCHANGED <<balance, bankVars>>
             /\ StatusInv' /\ cursor'[Commission] = cursor[Commission]
      PROVE  IInv'
  <2>1. \A u \in Atm : AtmInv(u)'
    BY <1>a, <1>c, <1>e, ServiceFrame
  <2>2. BooksType' /\ BankType' /\ ClosedIsEmpty' /\ NonNegative'
    BY <1>c, <1>d, <1>e DEF TypeOK, BooksType, BankType, ClosedIsEmpty, NonNegative, bankVars
  <2>3. CommissionInv'
    BY <1>a, <1>c, <1>d, <1>e DEF CommissionInv, bankVars
  <2> QED
    BY <1>c, <1>e, <2>1, <2>2, <2>3 DEF IInv, TypeOK
<1>1. ASSUME BeginStatus PROVE IInv'
  <2>1. Step(Status, "lock_global", "next")
    BY <1>1 DEF BeginStatus, LockGlobal
  <2>2. LocksType' /\ globalMutex = Free /\ globalMutex' = Status
    BY <1>a, <1>d, <1>1 DEF BeginStatus, LockGlobal, TypeOK, LocksType, locks
  <2>3. /\ PcType' /\ Ownership' /\ pc[Status] = "lock_global" /\ pc'[Status] = "next"
        /\ \A u \in Thread \ {Status} : pc'[u] = pc[u]
    BY <1>a, <1>d, <2>1, <2>2, ServiceMove DEF ServiceLabels, OutsideBank
  <2>4. ServiceType' /\ UNCHANGED <<balance, bankVars>> /\ cursor'[Commission] = cursor[Commission]
    BY <1>a, <1>b, <1>c, <1>d, <1>1, <2>3
    DEF BeginStatus, LockGlobal, ServiceType, StatusInv, TypeOK, serviceVars
  <2>5. StatusInv'
    BY <1>a, <1>b, <1>c, <1>d, <1>1, <2>3, <2>4
    DEF BeginStatus, LockGlobal, StatusInv, ClosedIsEmpty, Nothing, serviceVars
  <2> QED
    BY <1>e, <2>2, <2>3, <2>4, <2>5
<1>2. ASSUME VisitNext(Status) PROVE IInv'
  <2>1. Step(Status, "next", "read")
    BY <1>2 DEF VisitNext
  <2>2. LocksType' /\ globalMutex' = globalMutex
    BY <1>a, <1>d, <1>2, AccountLocks DEF VisitNext, TypeOK
  <2>3. /\ PcType' /\ Ownership' /\ pc[Status] = "next" /\ pc'[Status] = "read"
        /\ \A u \in Thread \ {Status} : pc'[u] = pc[u]
    BY <1>a, <1>d, <2>1, <2>2, ServiceMove DEF ServiceLabels, OutsideBank
  <2>4. ServiceType' /\ UNCHANGED <<balance, bankVars>> /\ cursor'[Commission] = cursor[Commission]
    BY <1>a, <1>b, <1>c, <1>d, <1>2, <2>3, NextVisited
    DEF VisitNext, ServiceType, StatusInv, TypeOK, serviceVars
  <2>5. StatusInv'
    <3>1. /\ cursor'[Status] \in accounts
          /\ \A a \in accounts : a < cursor'[Status] => a <= cursor[Status]
      BY <1>a, <1>2, NextVisited
    <3>2. shown' = shown /\ balance' = balance /\ accounts' = accounts
      BY <1>2, <1>c DEF VisitNext
    <3>a. cursor[Status] \in AccountId \cup {0} /\ accounts \subseteq AccountId
      BY <1>a, <1>b
    <3>3. cursor[Status] \in Int /\ accounts \subseteq Int
      <4>1. \A a \in AccountId : a \in Int
        BY <1>b
      <4>2. cursor[Status] \in Nat
        BY <3>a, NumbersAreNat, Zenon
      <4> QED
        BY <3>a, <4>1, <4>2
    <3>4. \A a \in accounts : a <= cursor[Status] => shown[a] = balance[a]
      BY <1>b, <1>d, <2>3, <3>3 DEF StatusInv
    <3>5. \A a \in AccountId \ accounts : shown[a] = balance[a]
      BY <1>d, <2>3 DEF StatusInv
    <3>6. ASSUME NEW a \in AccountId, a \notin accounts \/ a < cursor'[Status]
          PROVE  shown[a] = balance[a]
      BY <3>1, <3>4, <3>5, <3>6
    <3> QED
      BY <2>3, <3>1, <3>2, <3>6 DEF StatusInv
  <2> QED
    BY <1>e, <2>2, <2>3, <2>4, <2>5
<1>3. ASSUME ShowAccount PROVE IInv'
  <2>1. Step(Status, "read", "next")
    BY <1>3 DEF ShowAccount
  <2>2. LocksType' /\ globalMutex' = globalMutex
    BY <1>a, <1>d, <1>3, AccountLocks DEF ShowAccount, TypeOK
  <2>3. /\ PcType' /\ Ownership' /\ pc[Status] = "read" /\ pc'[Status] = "next"
        /\ \A u \in Thread \ {Status} : pc'[u] = pc[u]
    BY <1>a, <1>d, <2>1, <2>2, ServiceMove DEF ServiceLabels, OutsideBank
  <2>4. ServiceType' /\ UNCHANGED <<balance, bankVars>> /\ cursor'[Commission] = cursor[Commission]
    BY <1>a, <1>b, <1>c, <1>d, <1>3, <2>3
    DEF ShowAccount, ServiceType, StatusInv, TypeOK, serviceVars
  <2>5. StatusInv'
    BY <1>a, <1>b, <1>c, <1>d, <1>3, <2>3, <2>4
    DEF ShowAccount, StatusInv, ClosedIsEmpty, Nothing, serviceVars
  <2> QED
    BY <1>e, <2>2, <2>3, <2>4, <2>5
<1>4. ASSUME ShowBank PROVE IInv'
  <2>1. Step(Status, "next", "flag")
    BY <1>4 DEF ShowBank, UnlockGlobal, EndVisit
  <2>2. LocksType' /\ globalMutex' = Free
    BY <1>a, <1>d, <1>4 DEF ShowBank, UnlockGlobal, EndVisit, TypeOK, LocksType, locks
  <2>3. /\ PcType' /\ Ownership' /\ pc[Status] = "next" /\ pc'[Status] = "flag"
        /\ \A u \in Thread \ {Status} : pc'[u] = pc[u]
    BY <1>a, <1>d, <2>1, <2>2, ServiceMove DEF ServiceLabels, OutsideBank
  <2>4. ServiceType' /\ UNCHANGED <<balance, bankVars>> /\ cursor'[Commission] = cursor[Commission]
    BY <1>a, <1>b, <1>c, <1>d, <1>4, <2>3
    DEF ShowBank, UnlockGlobal, EndVisit, ServiceType, StatusInv, TypeOK, serviceVars
  <2>5. StatusInv'
    BY <1>a, <1>b, <1>c, <1>d, <1>4, <2>3, <2>4
    DEF ShowBank, UnlockGlobal, EndVisit, StatusInv, ClosedIsEmpty, Nothing, serviceVars
  <2> QED
    BY <1>e, <2>2, <2>3, <2>4, <2>5
<1>5. ASSUME ReadFlag(Status) PROVE IInv'
  <2>1. Step(Status, "flag", "sleep")
    BY <1>5 DEF ReadFlag
  <2>2. LocksType' /\ globalMutex' = globalMutex
    BY <1>a, <1>d, <1>5 DEF ReadFlag, TypeOK, LocksType, locks
  <2>3. /\ PcType' /\ Ownership' /\ pc[Status] = "flag" /\ pc'[Status] = "sleep"
        /\ \A u \in Thread \ {Status} : pc'[u] = pc[u]
    BY <1>a, <1>d, <2>1, <2>2, ServiceMove DEF ServiceLabels, OutsideBank
  <2>4. ServiceType' /\ UNCHANGED <<balance, bankVars>> /\ cursor'[Commission] = cursor[Commission]
    BY <1>a, <1>b, <1>c, <1>d, <1>5, <2>3
    DEF ReadFlag, ServiceType, StatusInv, TypeOK, serviceVars
  <2>5. StatusInv'
    BY <1>a, <1>b, <1>c, <1>d, <1>5, <2>3, <2>4
    DEF ReadFlag, StatusInv, ClosedIsEmpty, Nothing, serviceVars
  <2> QED
    BY <1>e, <2>2, <2>3, <2>4, <2>5
<1>6. ASSUME Sleep(Status) PROVE IInv'
  <2>1. Step(Status, "sleep", "exited") \/ Step(Status, "sleep", "lock_global")
    BY <1>6 DEF Sleep
  <2>2. LocksType' /\ globalMutex' = globalMutex
    BY <1>d, <1>6 DEF Sleep, TypeOK, LocksType, locks
  <2>3. /\ PcType' /\ Ownership' /\ pc'[Status] \in {"exited", "lock_global"} /\ pc[Status] = "sleep"
        /\ \A u \in Thread \ {Status} : pc'[u] = pc[u]
    BY <1>a, <1>d, <2>1, <2>2, ServiceMove DEF ServiceLabels, OutsideBank
  <2>4. UNCHANGED <<balance, bankVars, serviceVars>>
    BY <1>6 DEF Sleep
  <2>5. ServiceType' /\ StatusInv'
    BY <1>c, <1>d, <2>3, <2>4 DEF ServiceType, StatusInv, TypeOK, serviceVars
  <2> QED
    BY <1>e, <2>2, <2>3, <2>4, <2>5 DEF serviceVars
<1> QED
  BY <1>1, <1>2, <1>3, <1>4, <1>5, <1>6 DEF bank_status_routine, bank_balance_print

-----------------------------------------------------------------------------
(***************************************************************************)
(* What any step of a thread does to control and to the locks inside the   *)
(* bank: it takes or gives back at most one, at the statement that does    *)
(* so, and inside the bank it comes closer to the unlock.                  *)
(***************************************************************************)
LogMove(t) ==
  \/ logMutex' = logMutex /\ (pc[t] \in Logging(t) => pc'[t] \in Logging(t))
  \/ logMutex = Free /\ logMutex' = t /\ pc'[t] \in Logging(t)
  \/ logMutex' = Free

Held(t) == <<Copies(t), Changes(t)>>

LockMove(t) ==
  \/ UNCHANGED <<writers, readers>> /\ Held(t) = <<{}, {}>> /\ Held(t)' = <<{}, {}>>
  \/ \E a \in AccountId :
       \/ /\ writers[a] = {} /\ writers' = [writers EXCEPT ![a] = {t}] /\ readers' = readers
          /\ Held(t) = <<{}, {}>> /\ Held(t)' = <<{a}, {}>>
       \/ /\ writers' = [writers EXCEPT ![a] = @ \ {t}] /\ readers' = readers
          /\ Held(t) = <<{a}, {}>> /\ Held(t)' = <<{}, {}>>
       \/ /\ readers' = [readers EXCEPT ![a] = @ \cup {t}] /\ writers' = writers
          /\ Held(t) = <<{}, {}>> /\ Held(t)' = <<{}, {a}>>
       \/ /\ readers' = [readers EXCEPT ![a] = @ \ {t}] /\ writers' = writers
          /\ Held(t) = <<{}, {a}>> /\ Held(t)' = <<{}, {}>>

Move(t) ==
  /\ pc[t] # "exited"
  /\ \A u \in Thread \ {t} : pc'[u] = pc[u]
  /\ LogMove(t)
  /\ LockMove(t)
  /\ InBank(t) => pc'[t] # pc[t] /\ MovesLeft(t)' < MovesLeft(t)

Closer(from, to) == from \in OutsideBank \/ to \in OutsideBank \/ AtmLeft[to] < AtmLeft[from]

(* An ATM that takes or releases no account's lock                         *)
LEMMA AtmMove ==
  ASSUME PcType, NEW t \in Atm, NEW from, NEW to, Step(t, from, to), to \in AtmLabels,
         from # "exited", LogMove(t), LockMove(t), Closer(from, to)
  PROVE  Move(t)
<1>1. pc[t] = from /\ pc'[t] = to /\ \A u \in Thread \ {t} : pc'[u] = pc[u]
  BY PcStep, ThreadKinds DEF Service
<1>2. InBank(t) => MovesLeft(t)' < MovesLeft(t)
  <2>1. CASE to \in OutsideBank
    <3>a. ~InBank(t)'
      BY <1>1, <2>1 DEF InBank
    <3>1. MovesLeft(t)' = 0
      BY <3>a DEF MovesLeft
    <3>2. pc[t] \in AtmLabels
      BY DEF PcType
    <3>3. InBank(t) => MovesLeft(t) = AtmLeft[pc[t]] /\ AtmLeft[pc[t]] > 0
      BY <3>2 DEF MovesLeft, InBank, OutsideBank, AtmLabels, AtmLeft
    <3> QED
      BY <3>1, <3>3
  <2>2. CASE to \notin OutsideBank
    <3>1. InBank(t)' /\ MovesLeft(t)' = AtmLeft[to]
      BY <1>1, <2>2 DEF InBank, MovesLeft
    <3>2. InBank(t) => MovesLeft(t) = AtmLeft[from]
      BY <1>1 DEF MovesLeft
    <3> QED
      BY <1>1, <2>2, <3>1, <3>2 DEF Closer, InBank
  <2> QED
    BY <2>1, <2>2
<1>3. InBank(t) => from # to
  <2>1. from # to \/ AtmLeft[from] < AtmLeft[from] \/ from \in OutsideBank
    BY DEF Closer
  <2>2. pc[t] \in AtmLabels
    BY DEF PcType
  <2>3. InBank(t) => ~(AtmLeft[from] < AtmLeft[from])
    BY <1>1, <2>2 DEF InBank, OutsideBank, AtmLabels, AtmLeft
  <2> QED
    BY <1>1, <2>1, <2>3 DEF InBank
<1> QED
  BY <1>1, <1>2, <1>3 DEF Move

LEMMA QuietMove ==
  ASSUME PcType, NEW t \in Atm, NEW from, NEW to, Step(t, from, to), to \in AtmLabels,
         {from, to} \cap {"read_acc", "read_tgt", "read", "update", "update_tgt", "charge"} = {},
         from # "exited", LogMove(t), UNCHANGED <<writers, readers>>, Closer(from, to)
  PROVE  Move(t)
<1>1. pc[t] = from /\ pc'[t] = to
  BY PcStep, ThreadKinds DEF Service
<1>2. Held(t) = <<{}, {}>> /\ Held(t)' = <<{}, {}>>
  BY <1>1 DEF Held, Copies, Changes
<1> QED
  BY <1>2, AtmMove DEF LockMove

LEMMA AtmMoves ==
  ASSUME IInv, NEW t \in Atm, AtmStep(t)
  PROVE  Move(t)
<1>a. PcType /\ pc[t] \in AtmLabels /\ t \in Thread /\ t \notin Service
  BY ThreadKinds DEF IInv, TypeOK, PcType, Service
<1>b. InBank(t) => cmd[t].acc \in AccountId /\ cmd[t].tgt \in AccountId
  BY InBankCommand
<1> DEFINE Quiet(from, to) ==
             /\ Step(t, from, to) /\ to \in AtmLabels /\ from # "exited" /\ Closer(from, to)
             /\ {from, to} \cap {"read_acc", "read_tgt", "read", "update", "update_tgt", "charge"} = {}
<1>0. ASSUME NEW from, NEW to, Quiet(from, to), from # "log",
             UNCHANGED <<writers, readers, logMutex>>
      PROVE  Move(t)
  <2>1. LogMove(t)
    BY <1>0, ThreadKinds DEF LogMove, Logging, Step
  <2> QED
    BY <1>a, <1>0, <2>1, QuietMove
<1> USE DEF AtmLabels, Closer, OutsideBank, AtmLeft
<1>1. ASSUME all_functions_caller(t) PROVE Move(t)
  <2>1. UNCHANGED <<writers, readers, logMutex>>
    BY <1>1 DEF all_functions_caller, ReadLine, EndOfFile, locks
  <2>2. \/ Quiet("getline", "lock_global") \/ Quiet("getline", "getline")
        \/ Quiet("getline", "exited")
    BY <1>1 DEF all_functions_caller, ReadLine, EndOfFile
  <2> QED
    BY <1>0, <2>1, <2>2
<1>2. ASSUME TakeLog(t) PROVE Move(t)
  <2>1. /\ Quiet("lock_log", "log") /\ logMutex = Free /\ logMutex' = t
        /\ UNCHANGED <<writers, readers>>
    BY <1>2 DEF TakeLog, LockLog
  <2>2. LogMove(t)
    <3>1. pc'[t] = "log"
      BY <1>a, <2>1, PcStep
    <3> QED
      BY <2>1, <3>1, ThreadKinds DEF LogMove, Logging
  <2> QED
    BY <1>a, <2>1, <2>2, QuietMove
<1>3. ASSUME NEW to \in {"leave", "erase"}, WriteLog(t, to) PROVE Move(t)
  <2>1. Quiet("log", to) /\ logMutex' = Free /\ UNCHANGED <<writers, readers>>
    BY <1>3 DEF WriteLog, UnlockLog
  <2> QED
    BY <1>a, <2>1, QuietMove DEF LogMove
<1>4. ASSUME \/ EnterBank(t) \/ Return(t) \/ FindAccount(t)
             \/ OpenAccount(t) \/ TellBalance(t) \/ EraseAccount(t) \/ FindTarget(t)
      PROVE Move(t)
  <2>1. \/ Quiet("lock_global", "find") \/ Quiet("leave", "getline")
        \/ Quiet("find", "lock_acc") \/ Quiet("find", "lock_log")
        \/ Quiet("check", "lock_log") \/ Quiet("erase", "leave") \/ Quiet("check", "lock_tgt")
    BY <1>4
    DEF EnterBank, Return, LockGlobal, UnlockGlobal, FindAccount, OpenAccount, TellBalance,
        EraseAccount, FindTarget, Proceed, Answer
  <2>2. UNCHANGED <<writers, readers, logMutex>>
    BY <1>4
    DEF EnterBank, Return, LockGlobal, UnlockGlobal, FindAccount, OpenAccount, TellBalance,
        EraseAccount, FindTarget, locks
  <2> QED
    BY <1>0, <2>1, <2>2
<1>5. ASSUME NEW from \in {"check", "funds"}, CheckFunds(t, from) PROVE Move(t)
  <2>1. Quiet(from, "lock_log") \/ Quiet(from, "lock_upd")
    BY <1>5 DEF CheckFunds, Proceed, Answer
  <2>2. UNCHANGED <<writers, readers, logMutex>>
    BY <1>5 DEF CheckFunds, locks
  <2> QED
    BY <1>0, <2>1, <2>2
(* The steps that take or release the lock of an account                   *)
<1>6. ASSUME NEW from \in AtmLabels \ {"exited", "log"}, NEW to \in AtmLabels \ {"log"},
             Step(t, from, to), LockMove(t), logMutex' = logMutex, Closer(from, to)
      PROVE  Move(t)
  <2>1. LogMove(t)
    BY <1>6, ThreadKinds DEF LogMove, Logging, Step
  <2> QED
    BY <1>a, <1>6, <2>1, AtmMove
<1>7. ASSUME LockAccount(t) \/ LockTarget(t) PROVE Move(t)
  <2>1. PICK a \in {cmd[t].acc, cmd[t].tgt} :
          /\ lock_for_writers(t, a) /\ cmd' = cmd
          /\ \/ Step(t, "lock_acc", "read_acc") /\ a = cmd[t].acc
             \/ Step(t, "lock_tgt", "read_tgt") /\ a = cmd[t].tgt
    BY <1>7 DEF LockAccount, LockTarget
  <2>2. InBank(t) /\ pc'[t] \in {"read_acc", "read_tgt"} /\ logMutex' = logMutex
    BY <1>a, <2>1, PcStep DEF InBank, Step, lock_for_writers
  <2>3. Held(t) = <<{}, {}>> /\ Held(t)' = <<{a}, {}>>
    BY <1>a, <2>1, PcStep DEF Held, Copies, Changes, Loads, Step
  <2>4. LockMove(t)
    BY <1>b, <2>1, <2>2, <2>3 DEF LockMove, lock_for_writers
  <2> QED
    BY <1>6, <2>1, <2>2, <2>4
<1>8. ASSUME CopyAccount(t) \/ CopyTarget(t) PROVE Move(t)
  <2>1. PICK a \in {cmd[t].acc, cmd[t].tgt}, to \in {"check", "lock_log", "funds"} :
          /\ unlock_for_writers(t, a)
          /\ \/ Step(t, "read_acc", to) /\ a = cmd[t].acc
             \/ Step(t, "read_tgt", to) /\ a = cmd[t].tgt /\ to = "funds"
    BY <1>8 DEF CopyAccount, CopyTarget, Proceed, Answer
  <2>2. InBank(t) /\ pc'[t] = to /\ logMutex' = logMutex
    BY <1>a, <2>1, PcStep DEF InBank, Step, unlock_for_writers
  <2>3. Held(t) = <<{a}, {}>> /\ Held(t)' = <<{}, {}>>
    BY <1>a, <2>1, <2>2 DEF Held, Copies, Changes, Loads, Step
  <2>4. LockMove(t)
    BY <1>b, <2>1, <2>2, <2>3 DEF LockMove, unlock_for_writers
  <2> QED
    BY <1>6, <2>1, <2>2, <2>4
<1>9. ASSUME LockDeposit(t) \/ LockWithdrawal(t) \/ LockCredit(t) PROVE Move(t)
  <2>1. PICK a \in {cmd[t].acc, cmd[t].tgt} :
          /\ lock_for_readers(t, a) /\ cmd' = cmd
          /\ \/ Step(t, "check", "update") /\ a = cmd[t].acc
             \/ Step(t, "lock_upd", "update") /\ a = cmd[t].acc
             \/ Step(t, "lock_upd_tgt", "update_tgt") /\ a = cmd[t].tgt
    BY <1>9 DEF LockDeposit, LockWithdrawal, LockCredit, LockBalance
  <2>2. InBank(t) /\ pc'[t] \in {"update", "update_tgt"} /\ logMutex' = logMutex
    BY <1>a, <2>1, PcStep DEF InBank, Step, lock_for_readers
  <2>3. Held(t) = <<{}, {}>> /\ Held(t)' = <<{}, {a}>>
    BY <1>a, <2>1, PcStep DEF Held, Copies, Changes, Stores, Step
  <2>4. LockMove(t)
    BY <1>b, <2>1, <2>2, <2>3 DEF LockMove, lock_for_readers
  <2> QED
    BY <1>6, <2>1, <2>2, <2>4
<1>10. ASSUME Deposit(t) \/ Withdraw(t) \/ Debit(t) \/ Credit(t) PROVE Move(t)
  <2>1. PICK a \in {cmd[t].acc, cmd[t].tgt}, to \in {"lock_log", "lock_upd_tgt"} :
          /\ unlock_for_readers(t, a)
          /\ \/ Step(t, "update", to) /\ a = cmd[t].acc
             \/ Step(t, "update_tgt", to) /\ a = cmd[t].tgt /\ to = "lock_log"
    BY <1>10 DEF Deposit, Withdraw, Debit, Credit, Proceed, Answer, AddToBalance
  <2>2. InBank(t) /\ pc'[t] = to /\ logMutex' = logMutex
    BY <1>a, <2>1, PcStep DEF InBank, Step, unlock_for_readers
  <2>3. Held(t) = <<{}, {a}>> /\ Held(t)' = <<{}, {}>>
    BY <1>a, <2>1, <2>2 DEF Held, Copies, Changes, Stores, Step
  <2>4. LockMove(t)
    BY <1>b, <2>1, <2>2, <2>3 DEF LockMove, unlock_for_readers
  <2> QED
    BY <1>6, <2>1, <2>2, <2>4
<1>11. Visit(t) \/ Report(t) => Move(t)
  BY <1>2, <1>3, <1>4, <1>7, <1>8 DEF Visit, Report
<1> QED
  BY <1>1, <1>2, <1>3, <1>4, <1>5, <1>7, <1>8, <1>9, <1>10, <1>11
  DEF AtmStep, O_function, D_function, W_function, B_function, Q_function, T_function

(* The accounts beyond an iterator are finitely many, and fewer when it    *)
(* has moved on to one of them.                                            *)
LEMMA BeyondFinite ==
  ASSUME IInv, NEW s \in Service
  PROVE  IsFiniteSet(Beyond(s)) /\ Cardinality(Beyond(s)) \in Nat
<1>1. Beyond(s) \in SUBSET AccountId /\ IsFiniteSet(AccountId)
  BY BankAssumption DEF Beyond, IInv, TypeOK, BooksType
<1> QED
  BY <1>1, FS_Subset, FS_CardinalityType

LEMMA FewerBeyond ==
  ASSUME IInv, NEW s \in Service, VisitNext(s), UNCHANGED accounts
  PROVE  Cardinality(Beyond(s))' \in Nat /\ Cardinality(Beyond(s))' < Cardinality(Beyond(s))
<1>1. PICK a \in Beyond(s) : cursor' = [cursor EXCEPT ![s] = a]
  BY DEF VisitNext
<1>2. a \in accounts /\ a > cursor[s] /\ cursor'[s] = a
  BY <1>1 DEF Beyond, IInv, TypeOK, ServiceType
<1>3. \A x \in accounts : x \in Nat
  BY NumbersAreNat DEF IInv, TypeOK, BooksType
<1>4. cursor[s] \in Nat
  <2>1. cursor[s] \in AccountId \cup {0}
    BY DEF IInv, TypeOK, ServiceType
  <2> QED
    BY <2>1, NumbersAreNat, Zenon
<1>5. Beyond(s)' \in SUBSET (Beyond(s) \ {a})
  BY <1>2, <1>3, <1>4 DEF Beyond
<1>6. /\ IsFiniteSet(Beyond(s) \ {a})
      /\ Cardinality(Beyond(s) \ {a}) = Cardinality(Beyond(s)) - 1
  BY BeyondFinite, FS_RemoveElement
<1>7. /\ Cardinality(Beyond(s)') <= Cardinality(Beyond(s) \ {a})
      /\ Cardinality(Beyond(s)') \in Nat
  BY <1>5, <1>6, FS_Subset, FS_CardinalityType
<1> QED
  BY <1>6, <1>7, BeyondFinite

LEMMA ServiceMoves ==
  ASSUME IInv, NEW t \in Service,
         \/ t = Commission /\ bank_commission_routine
         \/ t = Status /\ bank_status_routine
  PROVE  Move(t)
<1> DEFINE left == Cardinality(Beyond(t))
           AtAccount == {"read", "charge", "read_acc", "read_tgt", "update", "update_tgt"}
<1>1. /\ PcType /\ t \in Thread /\ t \notin Atm /\ UNCHANGED accounts
      /\ left \in Nat /\ cursor[t] \in AccountId \cup {0}
  BY ThreadKinds, BeyondFinite
  DEF IInv, TypeOK, ServiceType, bank_commission_routine, bank_status_routine
<1>2. ASSUME NEW from, NEW to, Step(t, from, to), to \in ServiceLabels, from # "exited",
             from # to, LogMove(t), LockMove(t),
             from \in OutsideBank \/ MovesLeft(t)' < MovesLeft(t)
      PROVE  Move(t)
  BY <1>1, <1>2, PcStep DEF Move, InBank
<1>3. ASSUME NEW from, NEW to, Step(t, from, to), to \in ServiceLabels,
             {from, to} \cap AtAccount = {}, UNCHANGED <<writers, readers>>
      PROVE  LockMove(t)
  BY <1>1, <1>3, PcStep DEF LockMove, Held, Copies, Changes
<1>4. Logging(Status) = {} /\ Logging(Commission) = {"next", "read", "lock_charge", "charge"}
  BY ThreadKinds DEF Logging
(* Inside the bank, a step that does not move the iterator                 *)
<1>5. ASSUME NEW from \in {"lock_log", "read", "lock_charge", "charge"},
             NEW to \in {"next", "lock_charge", "charge"},
             Step(t, from, to), RoundLeft[to] < RoundLeft[from], UNCHANGED cursor
      PROVE  MovesLeft(t)' < MovesLeft(t)
  <2>1. pc[t] = from /\ pc'[t] = to /\ Beyond(t)' = Beyond(t)
    BY <1>1, <1>5, PcStep DEF Beyond, ServiceLabels
  <2>2. InBank(t) /\ InBank(t)'
    BY <2>1 DEF InBank, OutsideBank
  <2>3. MovesLeft(t) = 4 * left + RoundLeft[from] /\ MovesLeft(t)' = 4 * left + RoundLeft[to]
    BY <1>1, <2>1, <2>2 DEF MovesLeft
  <2> QED
    BY <1>1, <1>5, <2>3 DEF RoundLeft
<1>6. ASSUME VisitNext(t) PROVE Move(t)
  <2>1. /\ Step(t, "next", "read") /\ logMutex' = logMutex /\ readers' = readers
        /\ \E a \in accounts : /\ cursor' = [cursor EXCEPT ![t] = a]
                               /\ writers[a] = {} /\ writers' = [writers EXCEPT ![a] = {t}]
    BY <1>6 DEF VisitNext, lock_for_writers, Beyond
  <2>2. pc[t] = "next" /\ pc'[t] = "read"
    BY <1>1, <2>1, PcStep DEF ServiceLabels
  <2>3. LogMove(t)
    BY <1>4, <2>1, <2>2 DEF Service, LogMove
  <2>4. LockMove(t)
    <3>1. PICK a \in accounts : /\ cursor' = [cursor EXCEPT ![t] = a]
                                /\ writers[a] = {} /\ writers' = [writers EXCEPT ![a] = {t}]
      BY <2>1
    <3>2. a \in AccountId /\ cursor'[t] = a
      BY <3>1 DEF IInv, TypeOK, BooksType, ServiceType
    <3>3. Held(t) = <<{}, {}>> /\ Held(t)' = <<{a}, {}>>
      BY <1>1, <2>2, <3>2 DEF Held, Copies, Changes, Loads
    <3> QED
      BY <2>1, <3>1, <3>2, <3>3 DEF LockMove
  <2>5. MovesLeft(t)' < MovesLeft(t)
    <3>1. Cardinality(Beyond(t))' \in Nat /\ Cardinality(Beyond(t))' < left
      BY <1>1, <1>6, FewerBeyond
    <3>2. MovesLeft(t) = 4 * left + 2 /\ MovesLeft(t)' = 4 * Cardinality(Beyond(t))' + 5
      BY <1>1, <2>2 DEF MovesLeft, InBank, OutsideBank, RoundLeft
    <3> QED
      BY <1>1, <3>1, <3>2
  <2> QED
    BY <1>2, <2>1, <2>3, <2>4, <2>5 DEF ServiceLabels
<1>7. ASSUME ReadFlag(t) \/ Sleep(t) PROVE Move(t)
  <2>1. /\ UNCHANGED <<writers, readers, logMutex>>
        /\ \/ Step(t, "flag", "sleep")
           \/ Step(t, "sleep", "exited") \/ Step(t, "sleep", "lock_global")
    BY <1>7 DEF ReadFlag, Sleep, locks
  <2>2. PICK from \in {"flag", "sleep"}, to \in {"sleep", "exited", "lock_global"} :
          Step(t, from, to) /\ from # to
    BY <2>1
  <2>3. LogMove(t)
    BY <1>4, <2>1, <2>2 DEF Service, LogMove, Step
  <2>4. LockMove(t)
    BY <1>3, <2>1, <2>2 DEF ServiceLabels
  <2> QED
    BY <1>2, <2>2, <2>3, <2>4 DEF ServiceLabels, OutsideBank
<1>8. CASE t = Commission /\ bank_commission_routine
  <2>1. ASSUME BeginCharge \/ TakeLogForCharges PROVE Move(t)
    <3>1. /\ UNCHANGED <<writers, readers, cursor>>
          /\ \/ Step(t, "lock_global", "lock_log") /\ logMutex' = logMutex
             \/ Step(t, "lock_log", "next") /\ logMutex = Free /\ logMutex' = t
      BY <1>8, <2>1 DEF BeginCharge, TakeLogForCharges, LockGlobal, LockLog, serviceVars
    <3>2. PICK from \in {"lock_global", "lock_log"}, to \in {"lock_log", "next"} :
            /\ Step(t, from, to)
            /\ \/ from = "lock_global" /\ logMutex' = logMutex
               \/ from = "lock_log" /\ to = "next" /\ logMutex = Free /\ logMutex' = t
      BY <3>1
    <3>3. pc[t] = from /\ pc'[t] = to
      BY <1>1, <3>2, PcStep DEF ServiceLabels
    <3>4. LogMove(t)
      BY <1>4, <1>8, <3>2, <3>3 DEF LogMove
    <3>5. LockMove(t)
      BY <1>3, <3>1, <3>2 DEF ServiceLabels
    <3>6. from \in OutsideBank \/ MovesLeft(t)' < MovesLeft(t)
      BY <1>5, <3>1, <3>2 DEF OutsideBank, RoundLeft
    <3> QED
      BY <1>2, <3>2, <3>4, <3>5, <3>6 DEF ServiceLabels
  <2>2. ASSUME CopyCharged \/ LockCharged \/ ChargeAccount PROVE Move(t)
    <3> DEFINE a == cursor[Commission]
    <3>1. /\ UNCHANGED <<cursor, logMutex>>
          /\ \/ Step(t, "read", "lock_charge") /\ unlock_for_writers(t, a)
             \/ Step(t, "lock_charge", "charge") /\ lock_for_readers(t, a)
             \/ Step(t, "charge", "next") /\ unlock_for_readers(t, a)
      BY <1>8, <2>2 DEF CopyCharged, LockCharged, ChargeAccount, serviceVars,
         unlock_for_writers, lock_for_readers, unlock_for_readers
    <3>2. PICK from \in {"read", "lock_charge", "charge"}, to \in {"next", "lock_charge", "charge"} :
            /\ Step(t, from, to) /\ RoundLeft[to] < RoundLeft[from]
            /\ \/ from = "read" /\ to = "lock_charge" /\ unlock_for_writers(t, a)
               \/ from = "lock_charge" /\ to = "charge" /\ lock_for_readers(t, a)
               \/ from = "charge" /\ to = "next" /\ unlock_for_readers(t, a)
      BY <3>1 DEF RoundLeft
    <3>3. pc[t] = from /\ pc'[t] = to
      BY <1>1, <3>2, PcStep DEF ServiceLabels
    <3>4. a \in AccountId
      BY <1>8, <3>2, <3>3 DEF IInv, CommissionInv, TypeOK, BooksType
    <3>5. LogMove(t)
      BY <1>4, <1>8, <3>1, <3>2, <3>3 DEF LogMove
    <3>6. /\ Held(t) = IF from = "read" THEN <<{a}, {}>>
                       ELSE IF from = "charge" THEN <<{}, {a}>> ELSE <<{}, {}>>
          /\ Held(t)' = IF to = "charge" THEN <<{}, {a}>> ELSE <<{}, {}>>
      BY <1>1, <1>8, <3>1, <3>3 DEF Held, Copies, Changes, Loads, Stores
    <3>7. LockMove(t)
      BY <3>2, <3>4, <3>6 DEF LockMove, unlock_for_writers, lock_for_readers, unlock_for_readers
    <3>8. MovesLeft(t)' < MovesLeft(t)
      BY <1>5, <3>1, <3>2
    <3> QED
      BY <1>2, <3>2, <3>5, <3>7, <3>8 DEF ServiceLabels
  <2>3. ASSUME EndCharge \/ LeaveCharged \/ CreditBank PROVE Move(t)
    <3>1. /\ UNCHANGED <<writers, readers>>
          /\ \/ Step(t, "next", "leave") /\ logMutex' = Free
             \/ Step(t, "leave", "credit") /\ logMutex' = logMutex
             \/ Step(t, "credit", "flag") /\ logMutex' = logMutex
      BY <1>8, <2>3 DEF EndCharge, LeaveCharged, CreditBank, UnlockLog, UnlockGlobal, locks
    <3>2. PICK from \in {"next", "leave", "credit"}, to \in {"leave", "credit", "flag"} :
            /\ Step(t, from, to)
            /\ \/ from = "next" /\ to = "leave" /\ logMutex' = Free
               \/ from = "leave" /\ to = "credit" /\ logMutex' = logMutex
               \/ from = "credit" /\ to = "flag" /\ logMutex' = logMutex
      BY <3>1
    <3>3. pc[t] = from /\ pc'[t] = to
      BY <1>1, <3>2, PcStep DEF ServiceLabels
    <3>4. LogMove(t)
      BY <1>4, <1>8, <3>2, <3>3 DEF LogMove
    <3>5. LockMove(t)
      BY <1>3, <3>1, <3>2 DEF ServiceLabels
    <3>6. from \in OutsideBank \/ MovesLeft(t)' < MovesLeft(t)
      BY <1>1, <3>2, <3>3 DEF MovesLeft, InBank, OutsideBank, RoundLeft
    <3> QED
      BY <1>2, <3>2, <3>4, <3>5, <3>6 DEF ServiceLabels
  <2> QED
    BY <1>6, <1>7, <1>8, <2>1, <2>2, <2>3 DEF bank_commission_routine, commission
<1>9. CASE t = Status /\ bank_status_routine
  <2>1. ASSUME BeginStatus \/ ShowBank PROVE Move(t)
    <3>1. UNCHANGED <<writers, readers, logMutex>>
      BY <2>1 DEF BeginStatus, ShowBank, LockGlobal, UnlockGlobal
    <3>2. PICK from \in {"lock_global", "next"}, to \in {"next", "flag"} :
            Step(t, from, to) /\ (from = "lock_global" \/ to = "flag")
      BY <1>9, <2>1 DEF BeginStatus, ShowBank, LockGlobal, UnlockGlobal
    <3>3. pc[t] = from /\ pc'[t] = to
      BY <1>1, <3>2, PcStep DEF ServiceLabels
    <3>4. LogMove(t)
      BY <1>4, <1>9, <3>1 DEF LogMove
    <3>5. LockMove(t)
      BY <1>3, <3>1, <3>2 DEF ServiceLabels
    <3>6. from \in OutsideBank \/ MovesLeft(t)' < MovesLeft(t)
      BY <1>1, <3>2, <3>3 DEF MovesLeft, InBank, OutsideBank, RoundLeft
    <3> QED
      BY <1>2, <3>2, <3>4, <3>5, <3>6 DEF ServiceLabels
  <2>2. ASSUME ShowAccount PROVE Move(t)
    <3> DEFINE a == cursor[Status]
    <3>1. /\ UNCHANGED <<cursor, logMutex>>
          /\ Step(t, "read", "next") /\ unlock_for_writers(t, a)
      BY <1>9, <2>2 DEF ShowAccount, unlock_for_writers
    <3>2. pc[t] = "read" /\ pc'[t] = "next" /\ a \in AccountId
      BY <1>1, <1>9, <3>1, PcStep DEF ServiceLabels, IInv, StatusInv, TypeOK, BooksType, Step
    <3>3. LogMove(t)
      BY <1>4, <1>9, <3>1 DEF LogMove
    <3>4. Held(t) = <<{a}, {}>> /\ Held(t)' = <<{}, {}>>
      BY <1>1, <1>9, <3>2 DEF Held, Copies, Changes, Loads
    <3>5. LockMove(t)
      BY <3>1, <3>2, <3>4 DEF LockMove, unlock_for_writers
    <3>6. MovesLeft(t)' < MovesLeft(t)
      BY <1>5, <3>1 DEF RoundLeft
    <3> QED
      BY <1>2, <3>1, <3>3, <3>5, <3>6 DEF ServiceLabels
  <2> QED
    BY <1>6, <1>7, <1>9, <2>1, <2>2 DEF bank_status_routine, bank_balance_print
<1> QED
  BY <1>8, <1>9

(***************************************************************************)
(* Nobody else moves; and the accounts change under no thread inside.      *)
(***************************************************************************)
LEMMA ThreadMoves ==
  ASSUME IInv, ThreadStep
  PROVE  \E t \in Thread :
           /\ Move(t)
           /\ \A u \in Thread \ {t} : Held(u)' = Held(u)
           /\ \A u \in Thread \ {t} : InBank(u) => MovesLeft(u)' = MovesLeft(u)
<1> DEFINE Alone(t) ==
             /\ Move(t)
             /\ \A u \in Atm \ {t} : cmd'[u] = cmd[u]
             /\ \A u \in Service \ {t} : cursor'[u] = cursor[u]
             /\ UNCHANGED accounts \/ InBank(t)
<1>1. \E t \in Thread : Alone(t)
  <2>1. CASE \E t \in Atm : AtmStep(t)
    <3>1. PICK t \in Atm : AtmStep(t)
      BY <2>1
    <3>2. Alone(t)
      BY <3>1, AtmMoves, AtmFrame DEF Untouched, books, serviceVars
    <3> QED
      BY <3>2, ThreadKinds
  <2>2. CASE bank_commission_routine
    <3>1. \A u \in Service \ {Commission} : cursor'[u] = cursor[u]
      BY <2>2, ThreadKinds, NextVisited
      DEF bank_commission_routine, commission, BeginCharge, TakeLogForCharges, CopyCharged,
          LockCharged, ChargeAccount, EndCharge, EndVisit, LeaveCharged, CreditBank, ReadFlag,
          Sleep, serviceVars, IInv, TypeOK, ServiceType
    <3>2. Alone(Commission)
      BY <2>2, <3>1, ServiceMoves, ThreadKinds DEF bank_commission_routine, atmVars
    <3> QED
      BY <3>2, ThreadKinds
  <2>3. CASE bank_status_routine
    <3>1. \A u \in Service \ {Status} : cursor'[u] = cursor[u]
      BY <2>3, ThreadKinds, NextVisited
      DEF bank_status_routine, bank_balance_print, BeginStatus, ShowAccount, ShowBank, EndVisit,
          ReadFlag, Sleep, serviceVars, IInv, TypeOK, ServiceType
    <3>2. Alone(Status)
      BY <2>3, <3>1, ServiceMoves, ThreadKinds DEF bank_status_routine, atmVars
    <3> QED
      BY <3>2, ThreadKinds
  <2> QED
    BY <2>1, <2>2, <2>3 DEF ThreadStep
<1>2. PICK t \in Thread : Alone(t)
  BY <1>1
<1>3. ASSUME NEW u \in Thread \ {t}
      PROVE  Held(u)' = Held(u)
  <2>1. pc'[u] = pc[u] /\ (u \in Atm => cmd'[u] = cmd[u]) /\ (u \in Service => cursor'[u] = cursor[u])
    BY <1>2, <1>3 DEF Move
  <2>2. /\ pc[u] \in {"read_acc", "read_tgt", "update", "update_tgt", "erase"} => u \in Atm
        /\ pc[u] \in {"read", "charge"} => u \in Service
    BY <1>3, ThreadKinds DEF IInv, TypeOK, PcType, AtmLabels, ServiceLabels
  <2> QED
    BY <2>1, <2>2 DEF Held, Copies, Changes, Loads, Stores
<1>4. ASSUME NEW u \in Thread \ {t}, InBank(u)
      PROVE  MovesLeft(u)' = MovesLeft(u)
  <2>1. pc'[u] = pc[u] /\ InBank(u)' /\ UNCHANGED accounts
    BY <1>2, <1>4 DEF Move, InBank, IInv, Ownership
  <2>2. u \notin Atm => Beyond(u)' = Beyond(u)
    BY <1>2, <1>4, <2>1, ThreadKinds DEF Beyond
  <2> QED
    BY <1>4, <2>1, <2>2 DEF MovesLeft
<1> QED
  BY <1>2, <1>3, <1>4

LEMMA LocksStep == IInv /\ LocksInv /\ [Next]_vars => LocksInv'
<1> SUFFICES ASSUME IInv, LocksInv, [Next]_vars PROVE LocksInv'
  OBVIOUS
<1>1. CASE ThreadStep
  <2>1. PICK t \in Thread : /\ Move(t)
                            /\ \A u \in Thread \ {t} : Held(u)' = Held(u)
    BY <1>1, ThreadMoves
  <2>2. LogInv'
    <3> SUFFICES ASSUME NEW u \in Thread, logMutex' = u
                 PROVE  pc'[u] \in Logging(u)
      BY DEF LogInv, Logging
    <3> QED
      BY <2>1, ThreadKinds DEF Move, LogMove, LocksInv, LogInv
  <2>3. \A u \in Thread \ {t} : Copies(u)' = Copies(u) /\ Changes(u)' = Changes(u)
    BY <2>1 DEF Held
  <2>4. AccountsLocked'
    <3> SUFFICES ASSUME NEW a \in AccountId
                 PROVE  /\ writers'[a] = {u \in Thread : a \in Copies(u)'}
                        /\ readers'[a] = {u \in Thread : a \in Changes(u)'}
      BY DEF AccountsLocked
    <3>1. /\ writers[a] = {u \in Thread : a \in Copies(u)}
          /\ readers[a] = {u \in Thread : a \in Changes(u)}
          /\ a \in DOMAIN writers /\ a \in DOMAIN readers
      BY DEF LocksInv, AccountsLocked, IInv, TypeOK, LocksType
    <3>2. /\ writers'[a] = IF a \in Copies(t)' THEN writers[a] \cup {t} ELSE writers[a] \ {t}
          /\ readers'[a] = IF a \in Changes(t)' THEN readers[a] \cup {t} ELSE readers[a] \ {t}
      BY <2>1, <3>1 DEF Move, LockMove, Held
    <3> QED
      BY <2>3, <3>1, <3>2
  <2> QED
    BY <2>2, <2>4 DEF LocksInv
<1>2. CASE AtmsJoined \/ UNCHANGED vars
  <2>1. UNCHANGED <<pc, cmd, cursor, writers, readers, logMutex>>
    BY <1>2 DEF AtmsJoined, vars, locks, atmVars, serviceVars
  <2> QED
    BY <2>1
    DEF LocksInv, AccountsLocked, LogInv, Logging, Copies, Changes, Loads, Stores
<1> QED
  BY <1>1, <1>2 DEF Next

LEMMA InitLocks == Init => LocksInv
<1> SUFFICES ASSUME Init PROVE LocksInv
  OBVIOUS
<1>1. \A t \in Thread : Copies(t) = {} /\ Changes(t) = {}
  BY DEF Init, FirstLabel, Copies, Changes
<1> QED
  BY <1>1, ThreadKinds DEF Init, InitialValues, LocksInv, AccountsLocked, LogInv

-----------------------------------------------------------------------------
(* Every step of the program keeps the invariant.                          *)
LEMMA InductiveStep == IInv /\ [Next]_vars => IInv'
<1> SUFFICES ASSUME IInv, [Next]_vars PROVE IInv'
  OBVIOUS
<1>1. CASE \E t \in Atm : AtmStep(t)
  BY <1>1, AtmInductive
<1>2. CASE bank_commission_routine
  BY <1>2, CommissionInductive
<1>3. CASE bank_status_routine
  BY <1>3, StatusInductive
<1>4. CASE AtmsJoined \/ UNCHANGED vars
  <2>1. /\ UNCHANGED <<books, locks, pc, atmVars, bankVars, serviceVars>>
        /\ isAtmFinished' \in BOOLEAN
    BY <1>4 DEF AtmsJoined, vars, IInv, TypeOK, ServiceType
  <2>2. TypeOK'
    BY <2>1 DEF IInv, TypeOK, BooksType, LocksType, PcType, AtmType, BankType, ServiceType,
       books, locks, atmVars, bankVars, serviceVars, copies
  <2>3. Ownership' /\ ClosedIsEmpty' /\ NonNegative'
    BY <2>1 DEF IInv, Ownership, ClosedIsEmpty, NonNegative, InBank, books, locks
  <2>4. \A u \in Atm : AtmInv(u)'
    BY <2>1, OtherAtm DEF Untouched, atmVars, copies
  <2>5. CommissionInv' /\ StatusInv'
    BY <2>1 DEF IInv, CommissionInv, StatusInv, books, bankVars, serviceVars
  <2> QED
    BY <2>2, <2>3, <2>4, <2>5 DEF IInv
<1> QED
  BY <1>1, <1>2, <1>3, <1>4 DEF Next, ThreadStep

(***************************************************************************)
(* For any number of ATMs, any files and any interleaving: the thread      *)
(* inside the bank owns mutex_global_accounts, and what it has found and   *)
(* copied there is still so.                                               *)
(***************************************************************************)
THEOREM Inductive == Spec => []IInv
BY InitIInv, InductiveStep, PTL DEF Spec

(* Balances are never stored to while another thread is at them, although  *)
(* the code stores under the lock that admits many (atm.cpp:176-178).      *)
THEOREM NoBalanceRaceHolds == Spec => []NoBalanceRace
<1>1. IInv => NoBalanceRace
  <2> SUFFICES ASSUME IInv, NEW t \in Thread, NEW u \in Thread, t # u
               PROVE  Stores(t) \cap Loads(u) = {}
    BY DEF NoBalanceRace
  <2>1. ~InBank(t) \/ ~InBank(u)
    BY DEF IInv, Ownership
  <2>2. ASSUME ~InBank(t) PROVE Stores(t) = {}
    BY <2>2 DEF Stores, InBank, OutsideBank
  <2>3. ASSUME ~InBank(u) PROVE Loads(u) = {}
    BY <2>3 DEF Loads, Stores, InBank, OutsideBank
  <2> QED
    BY <2>1, <2>2, <2>3
<1> QED
  BY <1>1, Inductive, PTL

(* Closing an account never leaves another thread with an iterator to it   *)
(* (atm.cpp:378).                                                          *)
THEOREM NoDanglingIteratorHolds == Spec => []NoDanglingIterator
<1>1. IInv => NoDanglingIterator
  <2> SUFFICES ASSUME IInv, NEW t \in Thread PROVE Visited(t) \subseteq accounts
    BY DEF NoDanglingIterator
  <2>1. CASE t \in Atm
    BY <2>1 DEF IInv, AtmInv, AccountsFound
  <2>2. CASE t = Commission
    BY <2>2, ThreadKinds DEF IInv, CommissionInv, Visited
  <2>3. CASE t = Status
    <3>1. pc[Status] \in {"read", "lock_charge", "charge"} => cursor[Status] \in accounts
      BY DEF IInv, StatusInv
    <3> QED
      BY <2>3, <3>1, ThreadKinds DEF Visited
  <2> QED
    BY <2>1, <2>2, <2>3, ThreadKinds DEF Service
<1> QED
  BY <1>1, Inductive, PTL

(* No order of withdrawals, transfers and commissions overdraws an         *)
(* account.                                                                *)
THEOREM NonNegativeHolds == Spec => []NonNegative
<1>1. IInv => NonNegative
  BY DEF IInv
<1> QED
  BY <1>1, Inductive, PTL

(* Every line an ATM logs is true when it is logged.                       *)
THEOREM LogTruthHolds == Spec => []LogTruth
<1>1. IInv => LogTruth
  BY DEF IInv, AtmInv, LineReady, LogTruth
<1> QED
  BY <1>1, Inductive, PTL

(* A complete screen shows one moment of the accounts.                     *)
THEOREM ScreenIsSnapshotHolds == Spec => []ScreenIsSnapshot
<1>1. IInv => ScreenIsSnapshot
  <2> SUFFICES ASSUME IInv, pc[Status] = "next", Beyond(Status) = {}
               PROVE  shown = balance
    BY DEF ScreenIsSnapshot
  <2>1. /\ shown \in [AccountId -> Int] /\ balance \in [AccountId -> Int]
        /\ accounts \subseteq AccountId /\ AccountId \subseteq Nat
        /\ cursor \in [Service -> AccountId \cup {0}] /\ Status \in Service
    BY BankAssumption, ThreadKinds DEF IInv, TypeOK, BooksType, ServiceType
  <2>2. ASSUME NEW a \in AccountId PROVE shown[a] = balance[a]
    <3>a. cursor[Status] \in AccountId \cup {0}
      BY <2>1
    <3>1. a \in Nat /\ cursor[Status] \in Nat
      BY <2>2, <3>a, NumbersAreNat, Zenon
    <3>2. a \notin accounts \/ a <= cursor[Status]
      BY <3>1 DEF Beyond
    <3>3. a \notin accounts \/ a < cursor[Status] \/ a = cursor[Status]
      BY <3>1, <3>2
    <3> QED
      BY <3>3 DEF IInv, StatusInv
  <2>3. /\ shown = [a \in AccountId |-> shown[a]]
        /\ balance = [a \in AccountId |-> balance[a]]
    BY <2>1
  <2>4. [a \in AccountId |-> shown[a]] = [a \in AccountId |-> balance[a]]
    BY <2>2
  <2> QED
    BY ONLY <2>3, <2>4, Zenon
<1> QED
  BY <1>1, Inductive, PTL

(* The log and the locks of the accounts are held by exactly those whose   *)
(* statements lie between lock and unlock.                                 *)
THEOREM LocksInvHolds == Spec => []LocksInv
<1>1. Init => IInv /\ LocksInv
  BY InitIInv, InitLocks
<1>2. IInv /\ LocksInv /\ [Next]_vars => (IInv /\ LocksInv)'
  BY InductiveStep, LocksStep
<1> QED
  BY <1>1, <1>2, PTL DEF Spec

(* All threads that hold another lock are inside the bank, where there is  *)
(* only one: it finds every other lock free.                               *)
LEMMA Unlocked ==
  ASSUME IInv, LocksInv, NEW t \in Thread, InBank(t)
  PROVE  ~Waits(t)
<1>1. \A u \in Thread : u # t => Held(u) = <<{}, {}>> /\ logMutex # u
  <2> SUFFICES ASSUME NEW u \in Thread, u # t
               PROVE  Held(u) = <<{}, {}>> /\ logMutex # u
    OBVIOUS
  <2>1. pc[u] \in OutsideBank
    BY DEF IInv, Ownership, InBank
  <2> QED
    BY <2>1, ThreadKinds
    DEF Held, Copies, Changes, OutsideBank, LocksInv, LogInv, Logging
<1>2. pc[t] # "lock_global"
  BY DEF InBank, OutsideBank
<1>3. pc[t] = "lock_log" => logMutex = Free
  BY <1>1, ThreadKinds DEF IInv, TypeOK, LocksType, LocksInv, LogInv, Logging
<1>4. ASSUME NEW a \in Wanted(t) PROVE writers[a] \cup readers[a] = {}
  <2>1. Held(t) = <<{}, {}>>
    BY <1>4 DEF Wanted, Held, Copies, Changes
  <2>2. a \in AccountId
    <3>1. t \in Atm => cmd[t].acc \in AccountId /\ cmd[t].tgt \in AccountId
      BY InBankCommand
    <3>2. /\ pc[t] \in {"lock_acc", "check", "lock_upd", "lock_tgt", "lock_upd_tgt"} => t \in Atm
          /\ pc[t] = "lock_charge" => cursor[t] \in AccountId
          /\ accounts \subseteq AccountId
      BY ThreadKinds
      DEF IInv, TypeOK, PcType, BooksType, ServiceLabels, AtmLabels, Service, CommissionInv, StatusInv
    <3> QED
      BY <1>4, <3>1, <3>2 DEF Wanted, Beyond
  <2>3. \A u \in Thread : Copies(u) = {} /\ Changes(u) = {}
    BY <1>1, <2>1 DEF Held
  <2> QED
    BY <2>2, <2>3 DEF LocksInv, AccountsLocked
<1> QED
  BY <1>2, <1>3, <1>4 DEF Waits

(* No deadlock inside the bank, for any accounts and any nesting of its    *)
(* locks: mutex_global_accounts is the only lock a thread ever waits for.  *)
THEOREM InsideNeverWaitsHolds == Spec => []InsideNeverWaits
<1>1. IInv /\ LocksInv => InsideNeverWaits
  BY Unlocked DEF InsideNeverWaits
<1> QED
  BY <1>1, Inductive, LocksInvHolds, PTL

(* And that one is not kept for ever: the moves that its owner has left    *)
(* before the unlock grow fewer with each step it takes, and no step of    *)
(* another thread gives it more.                                           *)
THEOREM HolderAdvancesHolds == Spec => HolderAdvances
<1>1. IInv /\ [Next]_vars =>
        [\A t \in Thread : InBank(t) =>
           IF pc'[t] = pc[t] THEN MovesLeft(t)' = MovesLeft(t)
                             ELSE MovesLeft(t)' < MovesLeft(t)]_vars
  <2> SUFFICES ASSUME IInv, [Next]_vars, NEW u \in Thread, InBank(u)
               PROVE  IF pc'[u] = pc[u] THEN MovesLeft(u)' = MovesLeft(u)
                                        ELSE MovesLeft(u)' < MovesLeft(u)
    OBVIOUS
  <2>1. CASE ThreadStep
    <3>1. PICK t \in Thread :
            /\ Move(t)
            /\ \A v \in Thread \ {t} : InBank(v) => MovesLeft(v)' = MovesLeft(v)
      BY <2>1, ThreadMoves
    <3>2. CASE u = t
      BY <3>1, <3>2 DEF Move
    <3>3. CASE u # t
      BY <3>1, <3>3 DEF Move
    <3> QED
      BY <3>2, <3>3
  <2>2. CASE AtmsJoined \/ UNCHANGED vars
    <3>1. UNCHANGED <<pc, accounts, cursor>>
      BY <2>2 DEF AtmsJoined, vars, books, serviceVars
    <3> QED
      BY <3>1 DEF MovesLeft, InBank, Beyond
  <2> QED
    BY <2>1, <2>2 DEF Next
<1> QED
  BY <1>1, Inductive, PTL DEF Spec, HolderAdvances

(* They are few to begin with: fifteen for an ATM, four for each account   *)
(* and six more for a service thread.                                      *)
THEOREM HolderBounded ==
  Spec => [](\A t \in Thread : InBank(t) => MovesLeft(t) \in 1..(4 * Cardinality(AccountId) + 15))
<1>1. IInv => \A t \in Thread : InBank(t) => MovesLeft(t) \in 1..(4 * Cardinality(AccountId) + 15)
  <2> SUFFICES ASSUME IInv, NEW t \in Thread, InBank(t)
               PROVE  MovesLeft(t) \in 1..(4 * Cardinality(AccountId) + 15)
    OBVIOUS
  <2>1. IsFiniteSet(AccountId) /\ Cardinality(AccountId) \in Nat
    BY BankAssumption, FS_CardinalityType
  <2>2. CASE t \in Atm
    <3>1. pc[t] \in AtmLabels \ OutsideBank /\ MovesLeft(t) = AtmLeft[pc[t]]
      BY <2>2 DEF IInv, TypeOK, PcType, InBank, MovesLeft
    <3>2. MovesLeft(t) \in 1..15
      BY <3>1 DEF AtmLabels, OutsideBank, AtmLeft
    <3> QED
      BY <2>1, <3>2
  <2>3. CASE t \in Service /\ t \notin Atm
    <3>1. pc[t] \in ServiceLabels \ OutsideBank
      BY <2>3 DEF IInv, TypeOK, PcType, InBank
    <3>2. Beyond(t) \in SUBSET AccountId
      BY DEF Beyond, IInv, TypeOK, BooksType
    <3>3. Cardinality(Beyond(t)) \in Nat /\ Cardinality(Beyond(t)) <= Cardinality(AccountId)
      BY <2>1, <2>3, <3>2, BeyondFinite, FS_Subset
    <3>4. pc[t] # "leave" => RoundLeft[pc[t]] \in 1..6
      BY <3>1 DEF ServiceLabels, OutsideBank, RoundLeft
    <3> QED
      BY <2>1, <2>3, <3>3, <3>4 DEF MovesLeft
  <2> QED
    BY <2>2, <2>3, ThreadKinds
<1> QED
  BY <1>1, Inductive, PTL
=============================================================================
