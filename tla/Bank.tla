-------------------------------- MODULE Bank --------------------------------
(***************************************************************************)
(* The threads of wet02/src: one per ATM, the status printer and the       *)
(* commission collector, over the shared map of accounts.                  *)
(*                                                                         *)
(* One action is what a thread does between two accesses to shared state:  *)
(* taking a mutex, copying an account and releasing it, changing a balance *)
(* and releasing it, writing a log line.  Statements that touch only a     *)
(* thread's own variables go with the access before them.                  *)
(*                                                                         *)
(* The lock inside an account is the readers/writer lock that AccountLock  *)
(* shows the code to implement.  The code uses it the other way round from *)
(* its names: it copies a balance under lock_for_writers and changes one   *)
(* under lock_for_readers, and so does this module.                        *)
(***************************************************************************)
EXTENDS Integers, FiniteSets

CONSTANTS
  NumATM,      (* argc - 1, one file of commands for each ATM             *)
  AccountId,   (* account numbers the files mention                       *)
  Command,     (* lines the files may hold                                *)
  MaxLines,    (* bound: lines in a file                                  *)
  Rates        (* values of rand() % 5 + 1                                *)

Ops == {"O", "D", "W", "B", "Q", "T"}

(* A parsed line.  pw is the password; amt the amount, or the balance of a *)
(* new account; tgt the account a transfer goes to.  The files of the      *)
(* repository hold no negative amounts.                                    *)
CommandRecord == [op : STRING, acc : AccountId, pw : Nat, amt : Nat, tgt : AccountId]

ASSUME BankAssumption ==
  /\ NumATM \in Nat
  /\ MaxLines \in Nat
  /\ AccountId \subseteq Nat \ {0} /\ IsFiniteSet(AccountId)
  /\ Command \subseteq CommandRecord
  /\ Rates \subseteq 1..5

Atm        == 1..NumATM
Status     == NumATM + 1
Commission == NumATM + 2
Service    == {Status, Commission}
Thread     == Atm \cup Service

Free == 0    (* no thread: the owner of an unlocked mutex *)

VARIABLES
  accounts,      (* keys of map_of_accounts                               *)
  password,
  balance,
  writers,       (* threads inside lock_for_writers of each account       *)
  readers,       (* threads inside lock_for_readers of each account       *)
  bankBalance,   (* current_balance_bank                                  *)
  globalMutex,   (* owner of mutex_global_accounts                        *)
  logMutex,      (* owner of mutex_log_print                              *)
  isAtmFinished,
  pc,
  lines,         (* lines an ATM has read                                 *)
  cmd,           (* the line it is executing                              *)
  seen,          (* local_acc_balance                                     *)
  seenTarget,    (* target_acc_balance                                    *)
  outcome,       (* which of its messages the function will log           *)
  rate,          (* rand_num                                              *)
  tot,           (* tot_comiss                                            *)
  currBalance,   (* curr_balance                                          *)
  cursor,        (* the account a service thread's iterator points at     *)
  shown,         (* balances bank_balance_print has printed in this round *)
  finished       (* finished_bank of the two service routines             *)

books       == <<accounts, password, balance>>
locks       == <<writers, readers, globalMutex, logMutex>>
copies      == <<seen, seenTarget, outcome>>
atmVars     == <<lines, cmd, copies>>
bankVars    == <<bankBalance, rate, tot, currBalance>>
serviceVars == <<cursor, shown, finished>>

vars == <<books, locks, isAtmFinished, pc, atmVars, bankVars, serviceVars>>

NoCommand == [op |-> "none", acc |-> 0, pw |-> 0, amt |-> 0, tgt |-> 0]

Outcomes == {"none", "ok", "exists", "missing", "password", "low", "no_target"}

AtmLabels ==
  {"getline", "lock_global", "find", "lock_acc", "read_acc", "check",
   "lock_tgt", "read_tgt", "funds", "lock_upd", "update", "lock_upd_tgt",
   "update_tgt", "lock_log", "log", "erase", "leave", "exited"}

ServiceLabels ==
  {"lock_global", "lock_log", "next", "read", "lock_charge", "charge",
   "leave", "credit", "flag", "sleep", "exited"}

BooksType ==
  /\ accounts \subseteq AccountId
  /\ password \in [AccountId -> Nat]
  /\ balance \in [AccountId -> Int]

LocksType ==
  /\ writers \in [AccountId -> SUBSET Thread]
  /\ readers \in [AccountId -> SUBSET Thread]
  /\ globalMutex \in Thread \cup {Free}
  /\ logMutex \in Thread \cup {Free}

PcType ==
  /\ pc \in [Thread -> AtmLabels \cup ServiceLabels]
  /\ \A t \in Atm : pc[t] \in AtmLabels
  /\ \A t \in Service : pc[t] \in ServiceLabels

AtmType ==
  /\ lines \in [Atm -> 0..MaxLines]
  /\ cmd \in [Atm -> Command \cup {NoCommand}]
  /\ seen \in [Atm -> Int]
  /\ seenTarget \in [Atm -> Int]
  /\ outcome \in [Atm -> Outcomes]

BankType ==
  /\ bankBalance \in Int
  /\ rate \in 0..5
  /\ tot \in Int
  /\ currBalance \in Int

ServiceType ==
  /\ isAtmFinished \in BOOLEAN
  /\ cursor \in [Service -> AccountId \cup {0}]
  /\ shown \in [AccountId -> Int]
  /\ finished \in [Service -> BOOLEAN]

TypeOK == BooksType /\ LocksType /\ PcType /\ AtmType /\ BankType /\ ServiceType

Nothing == [a \in AccountId |-> 0]

(* The label at which a new thread starts                                  *)
FirstLabel(t) == IF t \in Atm THEN "getline" ELSE "lock_global"

InitialValues ==
  /\ accounts = {}
  /\ password = Nothing
  /\ balance = Nothing
  /\ writers = [a \in AccountId |-> {}]
  /\ readers = [a \in AccountId |-> {}]
  /\ bankBalance = 0
  /\ globalMutex = Free
  /\ logMutex = Free
  /\ isAtmFinished = FALSE
  /\ lines = [t \in Atm |-> 0]
  /\ cmd = [t \in Atm |-> NoCommand]
  /\ seen = [t \in Atm |-> 0]
  /\ seenTarget = [t \in Atm |-> 0]
  /\ outcome = [t \in Atm |-> "none"]
  /\ cursor = [t \in Service |-> 0]
  /\ rate = 0
  /\ tot = 0
  /\ currBalance = 0
  /\ shown = Nothing
  /\ finished = [t \in Service |-> FALSE]

Init == InitialValues /\ pc = [t \in Thread |-> FirstLabel(t)]

-----------------------------------------------------------------------------
(* Moves between labels and the locks *)

Step(t, from, to) == pc[t] = from /\ pc' = [pc EXCEPT ![t] = to]

lock_for_writers(t, a) ==
  /\ writers[a] = {} /\ readers[a] = {}
  /\ writers' = [writers EXCEPT ![a] = {t}]
  /\ UNCHANGED <<readers, globalMutex, logMutex>>

unlock_for_writers(t, a) ==
  /\ writers' = [writers EXCEPT ![a] = @ \ {t}]
  /\ UNCHANGED <<readers, globalMutex, logMutex>>

lock_for_readers(t, a) ==
  /\ writers[a] = {}
  /\ readers' = [readers EXCEPT ![a] = @ \cup {t}]
  /\ UNCHANGED <<writers, globalMutex, logMutex>>

unlock_for_readers(t, a) ==
  /\ readers' = [readers EXCEPT ![a] = @ \ {t}]
  /\ UNCHANGED <<writers, globalMutex, logMutex>>

LockGlobal(t, to) ==
  /\ Step(t, "lock_global", to)
  /\ globalMutex = Free
  /\ globalMutex' = t
  /\ UNCHANGED <<writers, readers, logMutex>>

LockLog(t, to) ==
  /\ Step(t, "lock_log", to)
  /\ logMutex = Free
  /\ logMutex' = t
  /\ UNCHANGED <<writers, readers, globalMutex>>

UnlockGlobal(t, from, to) ==
  /\ Step(t, from, to)
  /\ globalMutex' = Free
  /\ UNCHANGED <<writers, readers, logMutex>>

UnlockLog(t, from, to) ==
  /\ Step(t, from, to)
  /\ logMutex' = Free
  /\ UNCHANGED <<writers, readers, globalMutex>>

-----------------------------------------------------------------------------
(***************************************************************************)
(* all_functions_caller: read a line and call the function it names; an    *)
(* unknown letter is skipped; stop at the end of the file.                 *)
(***************************************************************************)
ReadLine(t) ==
  /\ lines[t] < MaxLines
  /\ lines' = [lines EXCEPT ![t] = @ + 1]
  /\ \E c \in Command :
       IF c.op \in Ops
       THEN Step(t, "getline", "lock_global") /\ cmd' = [cmd EXCEPT ![t] = c]
       ELSE Step(t, "getline", "getline") /\ UNCHANGED cmd
  /\ UNCHANGED <<books, locks, copies>>

EndOfFile(t) == Step(t, "getline", "exited") /\ UNCHANGED <<books, locks, lines, cmd, copies>>

all_functions_caller(t) == ReadLine(t) \/ EndOfFile(t)

-----------------------------------------------------------------------------
(* Steps that the six functions share *)

Proceed(t, from, to) == Step(t, from, to) /\ UNCHANGED outcome

(* Settle on a message; every message is logged under mutex_log_print.     *)
Answer(t, from, what) ==
  /\ Step(t, from, "lock_log")
  /\ outcome' = [outcome EXCEPT ![t] = what]

EnterBank(t) == LockGlobal(t, "find") /\ UNCHANGED <<books, cmd, copies>>

FindAccount(t) ==
  /\ IF cmd[t].acc \in accounts
     THEN Proceed(t, "find", "lock_acc")
     ELSE Answer(t, "find", "missing")
  /\ UNCHANGED <<books, locks, cmd, seen, seenTarget>>

LockAccount(t) ==
  /\ Step(t, "lock_acc", "read_acc")
  /\ lock_for_writers(t, cmd[t].acc)
  /\ UNCHANGED <<books, cmd, copies>>

(* The bug of the unlock that atm.cpp has commented out (165, 232): the    *)
(* bank is open to others while the copy is in use.                        *)
CopyAccountFreesBank(t) ==
  /\ writers' = [writers EXCEPT ![cmd[t].acc] = @ \ {t}]
  /\ globalMutex' = Free
  /\ seen' = [seen EXCEPT ![t] = balance[cmd[t].acc]]
  /\ IF cmd[t].pw = password[cmd[t].acc]
     THEN Proceed(t, "read_acc", "check")
     ELSE Answer(t, "read_acc", "password")
  /\ UNCHANGED <<books, readers, logMutex, cmd, seenTarget>>

CopyAccount(t) ==
  /\ unlock_for_writers(t, cmd[t].acc)
  /\ seen' = [seen EXCEPT ![t] = balance[cmd[t].acc]]
  /\ IF cmd[t].pw = password[cmd[t].acc]
     THEN Proceed(t, "read_acc", "check")
     ELSE Answer(t, "read_acc", "password")
  /\ UNCHANGED <<books, cmd, seenTarget>>

(* The bug of checking the wrong one of the two copies                     *)
CheckFundsOfTarget(t, from) ==
  /\ IF seenTarget[t] < cmd[t].amt
     THEN Answer(t, from, "low")
     ELSE Proceed(t, from, "lock_upd")
  /\ UNCHANGED <<books, locks, cmd, seen, seenTarget>>

(* The funds are checked on the copy, the balance changed later: only      *)
(* mutex_global_accounts keeps the copy current in between.                *)
CheckFunds(t, from) ==
  /\ IF seen[t] < cmd[t].amt
     THEN Answer(t, from, "low")
     ELSE Proceed(t, from, "lock_upd")
  /\ UNCHANGED <<books, locks, cmd, seen, seenTarget>>

LockBalance(t, a, from, to) ==
  /\ Step(t, from, to)
  /\ lock_for_readers(t, a)
  /\ UNCHANGED <<books, cmd, copies>>

(* balance += amount or balance -= amount, and unlock_for_readers          *)
AddToBalance(t, a, amount) ==
  /\ balance' = [balance EXCEPT ![a] = @ + amount]
  /\ unlock_for_readers(t, a)
  /\ UNCHANGED <<accounts, password, cmd, seen, seenTarget>>

TakeLog(t) == LockLog(t, "log") /\ UNCHANGED <<books, cmd, copies>>

WriteLog(t, to) == UnlockLog(t, "log", to) /\ UNCHANGED <<books, cmd, copies>>

(* Unlock the bank and return to all_functions_caller; locals go away.     *)
Return(t) ==
  /\ UnlockGlobal(t, "leave", "getline")
  /\ cmd' = [cmd EXCEPT ![t] = NoCommand]
  /\ seen' = [seen EXCEPT ![t] = 0]
  /\ seenTarget' = [seenTarget EXCEPT ![t] = 0]
  /\ outcome' = [outcome EXCEPT ![t] = "none"]
  /\ UNCHANGED books

(* D, W, B, Q and T begin alike: lock the bank, find the account, copy it. *)
Visit(t) == EnterBank(t) \/ FindAccount(t) \/ LockAccount(t) \/ CopyAccount(t)

(* And all but Q end alike.                                                *)
Report(t) == TakeLog(t) \/ WriteLog(t, "leave") \/ Return(t)

-----------------------------------------------------------------------------
(* The six functions *)

(* O: open an account, which is inserted before the success is logged.     *)
OpenAccount(t) ==
  LET c == cmd[t] IN
  /\ IF c.acc \in accounts
     THEN Answer(t, "find", "exists") /\ UNCHANGED books
     ELSE /\ Answer(t, "find", "ok")
          /\ accounts' = accounts \cup {c.acc}
          /\ password' = [password EXCEPT ![c.acc] = c.pw]
          /\ balance' = [balance EXCEPT ![c.acc] = c.amt]
  /\ UNCHANGED <<locks, cmd, seen, seenTarget>>

O_function(t) ==
  /\ cmd[t].op = "O"
  /\ EnterBank(t) \/ OpenAccount(t) \/ Report(t)

(* D: deposit *)
LockDeposit(t) == LockBalance(t, cmd[t].acc, "check", "update")

(* The bug of leaving the bank before the message is written               *)
DepositFreesBank(t) ==
  /\ Answer(t, "update", "ok")
  /\ balance' = [balance EXCEPT ![cmd[t].acc] = @ + cmd[t].amt]
  /\ readers' = [readers EXCEPT ![cmd[t].acc] = @ \ {t}]
  /\ globalMutex' = Free
  /\ UNCHANGED <<accounts, password, writers, logMutex, cmd, seen, seenTarget>>

Deposit(t) ==
  /\ Answer(t, "update", "ok")
  /\ AddToBalance(t, cmd[t].acc, cmd[t].amt)

D_function(t) ==
  /\ cmd[t].op = "D"
  /\ Visit(t) \/ LockDeposit(t) \/ Deposit(t) \/ Report(t)

(* W: withdraw *)
LockWithdrawal(t) == LockBalance(t, cmd[t].acc, "lock_upd", "update")

Withdraw(t) ==
  /\ Answer(t, "update", "ok")
  /\ AddToBalance(t, cmd[t].acc, -cmd[t].amt)

W_function(t) ==
  /\ cmd[t].op = "W"
  /\ Visit(t) \/ CheckFunds(t, "check") \/ LockWithdrawal(t) \/ Withdraw(t) \/ Report(t)

(* B: print a balance *)
TellBalance(t) ==
  /\ Answer(t, "check", "ok")
  /\ UNCHANGED <<books, locks, cmd, seen, seenTarget>>

B_function(t) ==
  /\ cmd[t].op = "B"
  /\ Visit(t) \/ TellBalance(t) \/ Report(t)

(* Q: close an account.  The balance is logged before the account, and its *)
(* two mutexes with it, are erased from the map.                           *)
EraseAccount(t) ==
  /\ Step(t, "erase", "leave")
  /\ accounts' = accounts \ {cmd[t].acc}
  /\ password' = [password EXCEPT ![cmd[t].acc] = 0]
  /\ balance' = [balance EXCEPT ![cmd[t].acc] = 0]
  /\ UNCHANGED <<locks, cmd, copies>>

Q_function(t) ==
  /\ cmd[t].op = "Q"
  /\ \/ Visit(t) \/ TellBalance(t) \/ TakeLog(t)
     \/ WriteLog(t, IF outcome[t] = "ok" THEN "erase" ELSE "leave")
     \/ EraseAccount(t) \/ Return(t)

(* T: transfer.  The target is looked up before the funds are checked.     *)
FindTarget(t) ==
  /\ IF cmd[t].tgt \in accounts
     THEN Proceed(t, "check", "lock_tgt")
     ELSE Answer(t, "check", "no_target")
  /\ UNCHANGED <<books, locks, cmd, seen, seenTarget>>

LockTarget(t) ==
  /\ Step(t, "lock_tgt", "read_tgt")
  /\ lock_for_writers(t, cmd[t].tgt)
  /\ UNCHANGED <<books, cmd, copies>>

CopyTarget(t) ==
  /\ Proceed(t, "read_tgt", "funds")
  /\ unlock_for_writers(t, cmd[t].tgt)
  /\ seenTarget' = [seenTarget EXCEPT ![t] = balance[cmd[t].tgt]]
  /\ UNCHANGED <<books, cmd, seen>>

Debit(t) ==
  /\ Proceed(t, "update", "lock_upd_tgt")
  /\ AddToBalance(t, cmd[t].acc, -cmd[t].amt)

LockCredit(t) == LockBalance(t, cmd[t].tgt, "lock_upd_tgt", "update_tgt")

Credit(t) ==
  /\ Answer(t, "update_tgt", "ok")
  /\ AddToBalance(t, cmd[t].tgt, cmd[t].amt)

T_function(t) ==
  /\ cmd[t].op = "T"
  /\ \/ Visit(t) \/ FindTarget(t) \/ LockTarget(t) \/ CopyTarget(t)
     \/ CheckFunds(t, "funds") \/ LockWithdrawal(t) \/ Debit(t)
     \/ LockCredit(t) \/ Credit(t) \/ Report(t)

AtmStep(t) ==
  /\ \/ all_functions_caller(t)
     \/ /\ O_function(t) \/ D_function(t) \/ W_function(t)
           \/ B_function(t) \/ Q_function(t) \/ T_function(t)
        /\ UNCHANGED lines
  /\ UNCHANGED <<isAtmFinished, bankVars, serviceVars>>

-----------------------------------------------------------------------------
(* The iteration of the two service threads over the map: the entry their  *)
(* iterator moves to is the smallest key beyond the current one.           *)

Beyond(t) == {a \in accounts : a > cursor[t]}

VisitNext(t) ==
  /\ Step(t, "next", "read")
  /\ \E a \in Beyond(t) :
       /\ \A b \in Beyond(t) : a <= b
       /\ cursor' = [cursor EXCEPT ![t] = a]
       /\ lock_for_writers(t, a)
  /\ UNCHANGED <<balance, bankVars, shown, finished>>

EndVisit(t) ==
  /\ Beyond(t) = {}
  /\ cursor' = [cursor EXCEPT ![t] = 0]

(* The bug of a flag read once, before the loop                            *)
ReadFlagHoisted(t) ==
  /\ Step(t, "flag", "sleep")
  /\ UNCHANGED <<balance, locks, bankVars, serviceVars>>

(* is_atm_finished is read with no mutex held, and then the thread sleeps. *)
ReadFlag(t) ==
  /\ Step(t, "flag", "sleep")
  /\ finished' = [finished EXCEPT ![t] = isAtmFinished]
  /\ UNCHANGED <<balance, locks, bankVars, cursor, shown>>

Sleep(t) ==
  /\ Step(t, "sleep", IF finished[t] THEN "exited" ELSE "lock_global")
  /\ UNCHANGED <<balance, locks, bankVars, serviceVars>>

-----------------------------------------------------------------------------
(* bank::commission and bank_commission_routine *)

(* The bug of trusting the locks of the single accounts                    *)
BeginChargeUnlocked ==
  /\ Step(Commission, "lock_global", "lock_log")
  /\ rate' \in Rates
  /\ UNCHANGED <<locks, balance, bankBalance, tot, currBalance, serviceVars>>

BeginCharge ==
  /\ LockGlobal(Commission, "lock_log")
  /\ rate' \in Rates
  /\ UNCHANGED <<balance, bankBalance, tot, currBalance, serviceVars>>

TakeLogForCharges == LockLog(Commission, "next") /\ UNCHANGED <<balance, bankVars, serviceVars>>

CopyCharged ==
  /\ Step(Commission, "read", "lock_charge")
  /\ unlock_for_writers(Commission, cursor[Commission])
  /\ currBalance' = balance[cursor[Commission]]
  /\ UNCHANGED <<balance, bankBalance, rate, tot, serviceVars>>

LockCharged ==
  /\ Step(Commission, "lock_charge", "charge")
  /\ lock_for_readers(Commission, cursor[Commission])
  /\ UNCHANGED <<balance, bankVars, serviceVars>>

(* curr_comiss, truncated to an int *)
Charge(r, amount) == (r * amount) \div 100

ChargeAccount ==
  LET fee == Charge(rate, currBalance) IN
  /\ Step(Commission, "charge", "next")
  /\ balance' = [balance EXCEPT ![cursor[Commission]] = currBalance - fee]
  /\ tot' = tot + fee
  /\ unlock_for_readers(Commission, cursor[Commission])
  /\ UNCHANGED <<bankBalance, rate, currBalance, serviceVars>>

EndCharge ==
  /\ UnlockLog(Commission, "next", "leave")
  /\ EndVisit(Commission)
  /\ currBalance' = 0
  /\ UNCHANGED <<balance, bankBalance, rate, tot, shown, finished>>

LeaveCharged ==
  UnlockGlobal(Commission, "leave", "credit") /\ UNCHANGED <<balance, bankVars, serviceVars>>

(* The bug of an assignment in the place of an addition                    *)
CreditBankOverwrites ==
  /\ Step(Commission, "credit", "flag")
  /\ bankBalance' = tot
  /\ tot' = 0
  /\ rate' = 0
  /\ UNCHANGED <<balance, locks, currBalance, serviceVars>>

(* The bank is paid after the accounts have been unlocked.                 *)
CreditBank ==
  /\ Step(Commission, "credit", "flag")
  /\ bankBalance' = bankBalance + tot
  /\ tot' = 0
  /\ rate' = 0
  /\ UNCHANGED <<balance, locks, currBalance, serviceVars>>

commission ==
  \/ BeginCharge \/ TakeLogForCharges
  \/ VisitNext(Commission) \/ CopyCharged \/ LockCharged \/ ChargeAccount
  \/ EndCharge \/ LeaveCharged \/ CreditBank \/ ReadFlag(Commission)

bank_commission_routine ==
  /\ commission \/ Sleep(Commission)
  /\ UNCHANGED <<accounts, password, isAtmFinished, atmVars>>

-----------------------------------------------------------------------------
(* bank::bank_balance_print and bank_status_routine *)

(* The bug of printing without mutex_global_accounts                       *)
BeginStatusUnlocked ==
  /\ Step(Status, "lock_global", "next")
  /\ UNCHANGED <<balance, locks, bankVars, serviceVars>>

BeginStatus == LockGlobal(Status, "next") /\ UNCHANGED <<balance, bankVars, serviceVars>>

(* The bug of a loop that forgets unlock_for_writers                       *)
ShowAccountKeepsLock ==
  /\ Step(Status, "read", "next")
  /\ shown' = [shown EXCEPT ![cursor[Status]] = balance[cursor[Status]]]
  /\ UNCHANGED <<balance, locks, bankVars, cursor, finished>>

ShowAccount ==
  /\ Step(Status, "read", "next")
  /\ unlock_for_writers(Status, cursor[Status])
  /\ shown' = [shown EXCEPT ![cursor[Status]] = balance[cursor[Status]]]
  /\ UNCHANGED <<balance, bankVars, cursor, finished>>

(* The bank's own balance completes the screen, then the unlock.           *)
ShowBank ==
  /\ UnlockGlobal(Status, "next", "flag")
  /\ EndVisit(Status)
  /\ shown' = Nothing
  /\ UNCHANGED <<balance, bankVars, finished>>

bank_balance_print ==
  BeginStatus \/ VisitNext(Status) \/ ShowAccount \/ ShowBank \/ ReadFlag(Status)

bank_status_routine ==
  /\ bank_balance_print \/ Sleep(Status)
  /\ UNCHANGED <<accounts, password, isAtmFinished, atmVars>>

-----------------------------------------------------------------------------
(* main has joined every ATM thread and sets is_atm_finished.              *)
AtmsJoined ==
  /\ \A t \in Atm : pc[t] = "exited"
  /\ ~isAtmFinished
  /\ isAtmFinished' = TRUE
  /\ UNCHANGED <<books, locks, pc, atmVars, bankVars, serviceVars>>

ThreadStep ==
  \/ \E t \in Atm : AtmStep(t)
  \/ bank_commission_routine
  \/ bank_status_routine

Next == ThreadStep \/ AtmsJoined

Spec == Init /\ [][Next]_vars
=============================================================================
