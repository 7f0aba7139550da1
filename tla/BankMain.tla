------------------------------ MODULE BankMain ------------------------------
(***************************************************************************)
(* main() of wet02/src/bank.cpp around the threads of Bank: it creates     *)
(* them one by one, waits for the ATMs, tells the service threads to stop, *)
(* waits for them, and deletes the bank they all use.                      *)
(*                                                                         *)
(* The program's arguments have been checked (bank.cpp:157-171) and every  *)
(* pthread_create succeeds.  An atm object is alive from its creation      *)
(* until its thread exits, which deletes it (bank.cpp:102-109); the bank   *)
(* object, from before the first thread until main returns.                *)
(***************************************************************************)
EXTENDS BankHistory

VARIABLES
  mainPc,
  next,      (* i, the ATM that main creates or joins next                *)
  created    (* threads that pthread_create has started                   *)

mainVars == <<historyVars, mainPc, next, created>>

MainLabels ==
  {"create", "push", "create_status", "create_commission", "join_atm",
   "set_flag", "join_commission", "join_status", "delete", "returned"}

MainInit ==
  /\ HistoryInit
  /\ mainPc = "create"
  /\ next = 1
  /\ created = {}

MainGoto(from, to) == mainPc = from /\ mainPc' = to

Create(t) == created' = created \cup {t} /\ UNCHANGED historyVars

Join(t) == pc[t] = "exited" /\ UNCHANGED <<historyVars, created>>

-----------------------------------------------------------------------------
CreateAtm ==
  /\ next <= NumATM
  /\ MainGoto("create", "push")
  /\ Create(next)
  /\ UNCHANGED next

(* vector_of_atm.push_back( *temp_atm), a copy of the object that the      *)
(* running thread owns                                                     *)
PushAtm ==
  /\ MainGoto("push", "create")
  /\ next' = next + 1
  /\ UNCHANGED <<historyVars, created>>

AtmsCreated ==
  /\ next > NumATM
  /\ MainGoto("create", "create_status")
  /\ UNCHANGED <<historyVars, next, created>>

CreateStatus ==
  /\ MainGoto("create_status", "create_commission")
  /\ Create(Status)
  /\ UNCHANGED next

CreateCommission ==
  /\ MainGoto("create_commission", "join_atm")
  /\ Create(Commission)
  /\ next' = 1

JoinAtm ==
  /\ next <= NumATM
  /\ MainGoto("join_atm", "join_atm")
  /\ Join(next)
  /\ next' = next + 1

(* The bug of a join loop that stops one short                             *)
AtmsAreJoinedButOne ==
  /\ next >= NumATM
  /\ MainGoto("join_atm", "set_flag")
  /\ UNCHANGED <<historyVars, next, created>>

AtmsAreJoined ==
  /\ next > NumATM
  /\ MainGoto("join_atm", "set_flag")
  /\ UNCHANGED <<historyVars, next, created>>

SetFlag ==
  /\ MainGoto("set_flag", "join_commission")
  /\ isAtmFinished' = TRUE
  /\ UNCHANGED <<books, locks, pc, atmVars, bankVars, serviceVars, next, created>>
  /\ Remember

(* The bug of main not waiting for a service thread                        *)
JoinCommissionAtOnce ==
  MainGoto("join_commission", "join_status") /\ UNCHANGED <<historyVars, next, created>>

JoinCommission ==
  MainGoto("join_commission", "join_status") /\ Join(Commission) /\ UNCHANGED next

JoinStatusAtOnce ==
  MainGoto("join_status", "delete") /\ UNCHANGED <<historyVars, next, created>>

JoinStatus ==
  MainGoto("join_status", "delete") /\ Join(Status) /\ UNCHANGED next

(* Clear the vector, close the log, delete main_bank, return               *)
DeleteBank ==
  MainGoto("delete", "returned") /\ UNCHANGED <<historyVars, next, created>>

main ==
  \/ CreateAtm \/ PushAtm \/ AtmsCreated \/ CreateStatus \/ CreateCommission
  \/ JoinAtm \/ AtmsAreJoined \/ SetFlag
  \/ JoinCommission \/ JoinStatus \/ DeleteBank

(* A thread runs its routine once it is created.                           *)
Routine(t) ==
  \/ t \in Atm /\ AtmStep(t)
  \/ t = Commission /\ bank_commission_routine
  \/ t = Status /\ bank_status_routine

Run(t) == t \in created /\ Routine(t) /\ Remember /\ UNCHANGED <<mainPc, next, created>>

MainNext == main \/ \E t \in Thread : Run(t)

MainSpec == MainInit /\ [][MainNext]_mainVars

(***************************************************************************)
(* Every thread is scheduled again and again.  A thread waiting for        *)
(* mutex_global_accounts gets it: each holder returns after a bounded      *)
(* number of steps and then sleeps for half a second or more (atm.cpp:536, *)
(* bank.cpp:122 and 143), so the mutex is free for long stretches.         *)
(***************************************************************************)
MainFairness ==
  /\ WF_mainVars(main)
  /\ \A t \in Thread :
       WF_mainVars(Run(t)) /\ SF_mainVars(Run(t) /\ pc[t] = "lock_global")

MainFairSpec == MainSpec /\ MainFairness

-----------------------------------------------------------------------------
(* The bank is deleted, with the mutexes in it, only when every thread     *)
(* that points to it is gone and has left its mutexes unlocked             *)
(* (bank.cpp:206-217).                                                     *)
BankOutlivesThreads ==
  mainPc = "returned" =>
    /\ \A t \in Thread : pc[t] = "exited"
    /\ globalMutex = Free /\ logMutex = Free

(* When the program ends the books are closed: a commission charged to the *)
(* accounts has reached the bank, and the sum is the cash paid in.         *)
BooksClosed ==
  mainPc = "returned" => tot = 0 /\ Total + bankBalance = cash

(* Threads started one after another and stopped by main behave as those   *)
(* of Bank, which all run from the beginning and stop when the ATMs have.  *)
ImplementsBank == HistorySpec

(* main returns, and so every thread came to its end.                      *)
MainReturns == <>(mainPc = "returned")

(* The thread main waits for                                               *)
Awaited ==
  CASE mainPc = "join_atm" /\ next <= NumATM -> {next}
    [] mainPc = "join_commission"            -> {Commission}
    [] mainPc = "join_status"                -> {Status}
    [] OTHER                                 -> {}

(* The program never hangs: until main returns, main can move or a thread  *)
(* it has started can.  No cycle of joins and mutexes closes, whichever    *)
(* threads main has not started yet or has joined (bank.cpp:180-217).      *)
NobodyStuck ==
  \/ mainPc = "returned"
  \/ \A u \in Awaited : pc[u] = "exited"
  \/ \E t \in created : pc[t] # "exited" /\ ~Waits(t)

-----------------------------------------------------------------------------
(* The inductive invariant *)

MainTypeOK ==
  /\ mainPc \in MainLabels
  /\ next \in 1..(NumATM + 1)
  /\ mainPc = "push" => next \in Atm
  /\ created \subseteq Thread

(* Which threads main has started; the others stand where they will begin. *)
CreatedInv ==
  /\ \A t \in Thread \ created : pc[t] = FirstLabel(t)
  /\ mainPc = "push" => next \in created
  /\ mainPc \in {"create", "push"} => \A t \in Atm : t < next => t \in created
  /\ mainPc \notin {"create", "push"} => Atm \subseteq created
  /\ mainPc \notin {"create", "push", "create_status"} => Status \in created
  /\ mainPc \notin {"create", "push", "create_status", "create_commission"} =>
       Commission \in created

(* What main knows of the threads it has joined                            *)
JoinInv ==
  /\ mainPc = "join_atm" => \A t \in Atm : t < next => pc[t] = "exited"
  /\ mainPc \in {"set_flag", "join_commission", "join_status", "delete", "returned"} =>
       \A t \in Atm : pc[t] = "exited"
  /\ mainPc \in {"join_status", "delete", "returned"} => pc[Commission] = "exited"
  /\ mainPc \in {"delete", "returned"} => pc[Status] = "exited"

FlagInv == isAtmFinished => mainPc \in {"join_commission", "join_status", "delete", "returned"}

MainInv == MainTypeOK /\ CreatedInv /\ JoinInv /\ FlagInv
=============================================================================
