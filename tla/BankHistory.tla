----------------------------- MODULE BankHistory -----------------------------
(***************************************************************************)
(* Bank with three history variables: what the books were when             *)
(* mutex_global_accounts was last free, what each ATM has just logged, and *)
(* the cash that went over the counters.  They constrain no step of Bank;  *)
(* they say what its threads do together, as one bank.                     *)
(***************************************************************************)
EXTENDS BankProperties, Sums

VARIABLES committed, reply, cash

historyVars == <<vars, committed, reply, cash>>

Books == [accounts |-> accounts, password |-> password, balance |-> balance,
          gained |-> bankBalance + tot]

NoReply == [what |-> "none"]

Reply(t) == [what |-> outcome[t], cmd |-> cmd[t], source |-> seen[t], target |-> seenTarget[t]]

(* Cash paid in by a command that succeeded; Q pays the balance out.       *)
PaidIn(t) ==
  LET c == cmd[t] IN
  CASE outcome[t] # "ok"      -> 0
    [] outcome[t] = "ok" ->
         CASE c.op \in {"O", "D"} -> c.amt
           [] c.op = "W"          -> -c.amt
           [] c.op = "Q"          -> -seen[t]
           [] OTHER               -> 0

HistoryValues ==
  /\ committed = Books
  /\ reply = [t \in Atm |-> NoReply]
  /\ cash = 0

HistoryInit == Init /\ HistoryValues

Returns(t) == pc[t] = "leave" /\ pc'[t] = "getline"

Remember ==
  /\ committed' = IF globalMutex' = Free THEN Books' ELSE committed
  /\ reply' = [t \in Atm |-> CASE Returns(t)      -> Reply(t)
                               [] pc'[t] = pc[t]  -> reply[t]
                               [] OTHER           -> NoReply]
  /\ \/ \E t \in Atm : Returns(t) /\ cash' = cash + PaidIn(t)
     \/ (\A t \in Atm : ~Returns(t)) /\ UNCHANGED cash

HistoryNext == Next /\ Remember

HistorySpec == HistoryInit /\ [][HistoryNext]_historyVars

-----------------------------------------------------------------------------
(* Atm threads, commission and status together are the atomic bank: the    *)
(* commands take effect one at a time, in the order in which they leave    *)
(* mutex_global_accounts, each with the reply that the atomic bank gives,  *)
(* and each commission takes effect on all accounts at once.               *)
Atomic == INSTANCE AtomicBank WITH
            Client   <- Atm,
            accounts <- committed.accounts,
            password <- committed.password,
            balance  <- committed.balance,
            gained   <- committed.gained

ImplementsAtomicBank == Atomic!Spec

Total == SumOver(balance, AccountId)

(* No money is made or lost: whenever no thread is inside the bank, the    *)
(* accounts, the bank's own balance and a commission on its way to it add  *)
(* up to the cash that went over the counters (bank.cpp:48-57).            *)
MoneyConserved == globalMutex = Free => Total + bankBalance + tot = cash

(* "This function prints the bank's balance" (bank.cpp:62): the screen     *)
(* adds up, its accounts and its last line, "The Bank has ... $", making   *)
(* the cash there is.                                                      *)
ScreenAddsUp ==
  pc[Status] = "next" /\ Beyond(Status) = {} => Total + bankBalance = cash

-----------------------------------------------------------------------------
(***************************************************************************)
(* The inductive invariant of the refinement: how the books differ from    *)
(* what they were when mutex_global_accounts was last free depends on      *)
(* who the thread inside the bank is, and on how far it has come.          *)
(***************************************************************************)
HistoryType ==
  /\ committed \in [accounts : SUBSET AccountId, password : [AccountId -> Nat],
                    balance : [AccountId -> Nat], gained : Int]
  /\ DOMAIN reply = Atm /\ reply = [t \in Atm |-> reply[t]]
  /\ cash \in Int

BooksAsCommitted ==
  /\ accounts = committed.accounts
  /\ password = committed.password
  /\ balance = committed.balance

(* An ATM has taken a transfer's money and not passed it on.               *)
HalfDone(t) == pc[t] \in {"lock_upd_tgt", "update_tgt"}

(* It has carried out its command and has only to log it and to leave.     *)
Done(t) ==
  /\ outcome[t] = "ok"
  /\ pc[t] \in {"lock_log", "log", "leave"}
  /\ cmd[t].op = "Q" => pc[t] = "leave"

BooksOf(t) ==
  CASE Done(t)     -> /\ accounts = Atomic!Accounts(cmd[t])
                      /\ password = Atomic!Passwords(cmd[t])
                      /\ balance = Atomic!Balances(cmd[t])
    [] HalfDone(t) -> /\ accounts = committed.accounts
                      /\ password = committed.password
                      /\ balance = [committed.balance EXCEPT ![cmd[t].acc] = @ - cmd[t].amt]
    [] OTHER       -> BooksAsCommitted

(* Its reply is that of the atomic bank, as far as it is known.            *)
ReplyOf(t) ==
  /\ pc[t] \in {"lock_log", "log", "erase", "leave"} =>
       outcome[t] # "none" /\ Reply(t) = Atomic!Answer(cmd[t])
  /\ pc[t] = "erase" => outcome[t] = "ok"
  /\ HalfDone(t) =>
       Atomic!Answer(cmd[t]) = [what |-> "ok", cmd |-> cmd[t],
                                source |-> seen[t], target |-> seenTarget[t]]
  /\ pc[t] \in {"check", "lock_tgt", "read_tgt", "funds", "lock_upd", "update"} =>
       cmd[t].pw = password[cmd[t].acc]
  /\ pc[t] \in {"getline", "lock_global", "find", "lock_acc", "read_acc"} => seen[t] = 0
  /\ \/ pc[t] \in {"getline", "lock_global", "find", "lock_acc", "read_acc",
                   "check", "lock_tgt", "read_tgt"}
     \/ cmd[t].op # "T"
     => seenTarget[t] = 0
  /\ pc[t] \notin {"lock_log", "log", "erase", "leave"} => outcome[t] = "none"

AtmHistory(t) ==
  /\ reply[t] # NoReply => pc[t] = "getline"
  /\ ReplyOf(t)
  /\ InBank(t) => BooksOf(t) /\ bankBalance + tot = committed.gained

(* The accounts that the commission on its way has been charged to         *)
Charged ==
  CASE pc[Commission] = "next" -> {a \in accounts : a <= cursor[Commission]}
    [] pc[Commission] \in {"read", "lock_charge", "charge"} ->
         {a \in accounts : a < cursor[Commission]}
    [] pc[Commission] = "leave" -> accounts
    [] OTHER -> {}

Fees == [a \in AccountId |-> Charge(rate, committed.balance[a])]

CommissionHistory ==
  /\ pc[Commission] \notin {"next", "read", "lock_charge", "charge"} => cursor[Commission] = 0
  /\ pc[Commission] \in {"lock_global", "flag", "sleep", "exited"} => tot = 0
  /\ InBank(Commission) =>
       /\ rate \in Rates
       /\ accounts = committed.accounts /\ password = committed.password
       /\ \A a \in AccountId :
            balance[a] = committed.balance[a] - (IF a \in Charged THEN Fees[a] ELSE 0)
       /\ bankBalance + tot = committed.gained + SumOver(Fees, Charged)

StatusHistory ==
  InBank(Status) => BooksAsCommitted /\ bankBalance + tot = committed.gained

FreeHistory == globalMutex = Free => committed = Books

(* Cash that has changed the books and not yet the hands                   *)
InHand(t) ==
  CASE Done(t)     -> PaidIn(t)
    [] HalfDone(t) -> -cmd[t].amt
    [] OTHER       -> 0

MoneyInv ==
  Total + bankBalance + tot = cash + (IF globalMutex \in Atm THEN InHand(globalMutex) ELSE 0)

HistoryInv ==
  /\ HistoryType
  /\ \A t \in Atm : AtmHistory(t)
  /\ CommissionHistory
  /\ StatusHistory
  /\ FreeHistory
  /\ MoneyInv
=============================================================================
