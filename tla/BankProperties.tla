--------------------------- MODULE BankProperties ---------------------------
(***************************************************************************)
(* What the bank's threads must get right together.  No lock of wet02      *)
(* covers a whole command but mutex_global_accounts, and no statement of   *)
(* the code says which thread may touch what: these properties do.         *)
(***************************************************************************)
EXTENDS Bank

-----------------------------------------------------------------------------
(* Program points *)

(* Between pthread_mutex_lock and unlock of mutex_global_accounts          *)
OutsideBank == {"getline", "lock_global", "credit", "flag", "sleep", "exited"}

InBank(t) == pc[t] \notin OutsideBank

(* Accounts to which a thread holds an iterator it will still use          *)
Visited(t) ==
  IF t \in Service
  THEN IF pc[t] \in {"read", "lock_charge", "charge"} THEN {cursor[t]} ELSE {}
  ELSE (IF pc[t] \in {"lock_acc", "read_acc", "check", "lock_tgt", "read_tgt",
                      "funds", "lock_upd", "update", "erase"}
        THEN {cmd[t].acc} ELSE {})
       \cup
       (IF pc[t] \in {"lock_tgt", "read_tgt", "lock_upd_tgt", "update_tgt"}
           \/ (pc[t] \in {"funds", "lock_upd", "update"} /\ cmd[t].op = "T")
        THEN {cmd[t].tgt} ELSE {})

(* The account whose balance the next step of a thread stores to           *)
Stores(t) ==
  CASE pc[t] \in {"update", "erase"} -> {cmd[t].acc}
    [] pc[t] = "update_tgt"          -> {cmd[t].tgt}
    [] pc[t] = "charge"              -> {cursor[t]}
    [] OTHER                         -> {}

(* The account whose balance it loads                                      *)
Loads(t) ==
  CASE t \in Atm /\ pc[t] = "read_acc"    -> {cmd[t].acc}
    [] t \in Atm /\ pc[t] = "read_tgt"    -> {cmd[t].tgt}
    [] t \in Service /\ pc[t] = "read"    -> {cursor[t]}
    [] OTHER                              -> Stores(t)

(* Where a thread has an account's lock: to copy the balance, to change it *)
Copies(t)  == IF pc[t] \in {"read_acc", "read_tgt", "read"} THEN Loads(t) ELSE {}
Changes(t) == IF pc[t] \in {"update", "update_tgt", "charge"} THEN Stores(t) ELSE {}

(* The program points at which a thread holds mutex_log_print              *)
Logging(t) ==
  CASE t \in Atm      -> {"log"}
    [] t = Commission -> {"next", "read", "lock_charge", "charge"}
    [] OTHER          -> {}

(* Accounts a thread may be about to lock                                  *)
Wanted(t) ==
  CASE pc[t] \in {"lock_acc", "check", "lock_upd"} -> {cmd[t].acc}
    [] pc[t] \in {"lock_tgt", "lock_upd_tgt"}      -> {cmd[t].tgt}
    [] pc[t] = "lock_charge"                       -> {cursor[t]}
    [] pc[t] = "next"                              -> Beyond(t)
    [] OTHER                                       -> {}

(* A thread that stands at a lock that it may not take                     *)
Waits(t) ==
  \/ pc[t] = "lock_global" /\ globalMutex # Free
  \/ pc[t] = "lock_log" /\ logMutex # Free
  \/ \E a \in Wanted(t) : writers[a] \cup readers[a] # {}

(* A bound on the moves a thread has left before it unlocks the bank       *)
AtmLeft ==
  [find |-> 15, lock_acc |-> 14, read_acc |-> 13, check |-> 12, lock_tgt |-> 11,
   read_tgt |-> 10, funds |-> 9, lock_upd |-> 8, update |-> 7, lock_upd_tgt |-> 6,
   update_tgt |-> 5, lock_log |-> 4, log |-> 3, erase |-> 2, leave |-> 1]

RoundLeft == [lock_log |-> 6, read |-> 5, lock_charge |-> 4, charge |-> 3, next |-> 2]

MovesLeft(t) ==
  IF ~InBank(t) THEN 0
  ELSE IF t \in Atm THEN AtmLeft[pc[t]]
  ELSE IF pc[t] = "leave" THEN 1
  ELSE 4 * Cardinality(Beyond(t)) + RoundLeft[pc[t]]

-----------------------------------------------------------------------------
(* Safety *)

(* No data race on a balance: while one thread stores to an account no     *)
(* other thread loads or stores it.  The account's own lock does not give  *)
(* this, for the code stores under lock_for_readers (atm.cpp:176-178,      *)
(* bank.cpp:47-49), which admits any number of threads.                    *)
NoBalanceRace ==
  \A t, u \in Thread : t # u => Stores(t) \cap Loads(u) = {}

(* Nobody closes an account under another thread's iterator: erase, which  *)
(* also destroys the account's two mutexes, happens only when no other     *)
(* thread has found the account and is still to use it (atm.cpp:378).      *)
NoDanglingIterator == \A t \in Thread : Visited(t) \subseteq accounts

(* A withdrawal or a transfer decides on a copy of the balance that it     *)
(* took under a lock it has released (atm.cpp:233-253): no interleaving    *)
(* with other ATMs or the commission lets an account be overdrawn.         *)
NonNegative == \A a \in AccountId : balance[a] >= 0

(* Every line of the log is true when it is written: a success names the   *)
(* balances the accounts have now, a failure a reason that holds now,      *)
(* although both were worked out from copies some locks ago.  A transfer   *)
(* from an account to itself is left out: it logs balances it never had.   *)
Has(a, amount) == a \in accounts /\ balance[a] = amount

TrueLine(t) ==
  LET c == cmd[t] IN
  CASE outcome[t] = "exists"    -> c.acc \in accounts
    [] outcome[t] = "missing"   -> c.acc \notin accounts
    [] outcome[t] = "password"  -> c.acc \in accounts /\ password[c.acc] # c.pw
    [] outcome[t] = "low"       -> c.acc \in accounts /\ balance[c.acc] < c.amt
    [] outcome[t] = "no_target" -> c.tgt \notin accounts
    [] outcome[t] = "ok"        ->
         CASE c.op = "O"        -> Has(c.acc, c.amt) /\ password[c.acc] = c.pw
           [] c.op = "D"        -> Has(c.acc, seen[t] + c.amt)
           [] c.op = "W"        -> Has(c.acc, seen[t] - c.amt)
           [] c.op \in {"B", "Q"} -> Has(c.acc, seen[t])
           [] c.op = "T"        -> c.acc # c.tgt => /\ Has(c.acc, seen[t] - c.amt)
                                                    /\ Has(c.tgt, seenTarget[t] + c.amt)

LogTruth == \A t \in Atm : pc[t] = "log" => outcome[t] # "none" /\ TrueLine(t)

(* The screen shows one moment: the balances printed one after the other   *)
(* (bank.cpp:71-79) are all current when the screen is complete.           *)
ScreenIsSnapshot ==
  pc[Status] = "next" /\ Beyond(Status) = {} => shown = balance

(* Inside the bank nobody waits: the thread that has mutex_global_accounts *)
(* finds the log and the accounts it goes on to lock free (atm.cpp:170,    *)
(* 236, bank.cpp:36-47).  So locks nested as deep as the commission's, of  *)
(* mutex_log_print and an account inside the bank, deadlock with nobody.   *)
InsideNeverWaits == \A t \in Thread : InBank(t) => ~Waits(t)

(* And it leaves after a bounded number of its own steps, whatever the     *)
(* other threads do meanwhile: each brings it closer to the unlock, and no *)
(* step of another thread sets it back (a loop over a growing map would).  *)
HolderAdvances ==
  [][\A t \in Thread : InBank(t) =>
       IF pc'[t] = pc[t] THEN MovesLeft(t)' = MovesLeft(t)
                         ELSE MovesLeft(t)' < MovesLeft(t)]_vars

-----------------------------------------------------------------------------
(***************************************************************************)
(* The inductive invariant.  mutex_global_accounts is owned by exactly the *)
(* thread that is inside the bank; what such a thread has found and copied *)
(* is still so.                                                            *)
(***************************************************************************)
Ownership == \A t \in Thread : InBank(t) <=> globalMutex = t

ClosedIsEmpty == \A a \in AccountId \ accounts : balance[a] = 0

(* Which functions reach a label                                           *)
OpsAt(label) ==
  CASE label \in {"lock_acc", "read_acc", "check"}           -> Ops \ {"O"}
    [] label \in {"lock_tgt", "read_tgt", "funds",
                  "lock_upd_tgt", "update_tgt"}              -> {"T"}
    [] label = "lock_upd"                                    -> {"W", "T"}
    [] label = "update"                                      -> {"D", "W", "T"}
    [] label = "erase"                                       -> {"Q"}
    [] OTHER                                                 -> Ops

CommandKnown(t) ==
  InBank(t) \/ pc[t] = "lock_global" => cmd[t] \in Command /\ cmd[t].op \in OpsAt(pc[t])

AccountsFound(t) == Visited(t) \subseteq accounts

CopyCurrent(t) ==
  pc[t] \in {"check", "lock_tgt", "read_tgt", "funds", "lock_upd", "update"} =>
    seen[t] = balance[cmd[t].acc]

TargetCurrent(t) ==
  pc[t] \in {"funds", "lock_upd", "update"} /\ cmd[t].op = "T" =>
    seenTarget[t] = balance[cmd[t].tgt]

FundsSuffice(t) ==
  pc[t] \in {"lock_upd", "update"} /\ cmd[t].op # "D" => cmd[t].amt <= seen[t]

HalfTransferred(t) ==
  LET c == cmd[t] IN
  pc[t] \in {"lock_upd_tgt", "update_tgt"} =>
    /\ Has(c.acc, seen[t] - c.amt)
    /\ c.acc # c.tgt => balance[c.tgt] = seenTarget[t]

LineReady(t) == pc[t] \in {"lock_log", "log"} => outcome[t] # "none" /\ TrueLine(t)

AtmInv(t) ==
  /\ CommandKnown(t)
  /\ AccountsFound(t)
  /\ CopyCurrent(t)
  /\ TargetCurrent(t)
  /\ FundsSuffice(t)
  /\ HalfTransferred(t)
  /\ LineReady(t)

CommissionInv ==
  /\ pc[Commission] \in {"read", "lock_charge", "charge"} => cursor[Commission] \in accounts
  /\ pc[Commission] \in {"lock_charge", "charge"} => currBalance = balance[cursor[Commission]]

StatusInv ==
  /\ pc[Status] \notin {"lock_charge", "charge"}
  /\ pc[Status] = "read" => cursor[Status] \in accounts
  /\ pc[Status] \notin {"next", "read"} => shown = Nothing /\ cursor[Status] = 0
  /\ pc[Status] \in {"next", "read"} =>
       \A a \in AccountId :
         a \notin accounts \/ a < cursor[Status] \/ (a = cursor[Status] /\ pc[Status] = "next")
           => shown[a] = balance[a]

IInv ==
  /\ TypeOK
  /\ Ownership
  /\ ClosedIsEmpty
  /\ NonNegative
  /\ \A t \in Atm : AtmInv(t)
  /\ CommissionInv
  /\ StatusInv

(* Who has the locks inside the bank: those who are at the statements      *)
(* between lock and unlock.                                                *)
AccountsLocked ==
  \A a \in AccountId : /\ writers[a] = {t \in Thread : a \in Copies(t)}
                       /\ readers[a] = {t \in Thread : a \in Changes(t)}

LogInv == \A t \in Thread : logMutex = t => pc[t] \in Logging(t)

LocksInv == AccountsLocked /\ LogInv
=============================================================================
