----------------------------- MODULE AtomicBank -----------------------------
(***************************************************************************)
(* The bank a customer believes in: every command of an ATM is carried out *)
(* at one moment, and every commission is charged to all accounts at one   *)
(* moment.  The threads of Bank, which lock, copy, check and update in     *)
(* separate steps, implement this specification (see BankHistory).         *)
(***************************************************************************)
EXTENDS Integers, Sums

CONSTANTS Client, AccountId, Command, Rates

VARIABLES
  accounts,   (* account numbers in use                                   *)
  password,
  balance,
  gained,     (* commissions the bank has charged so far                  *)
  reply       (* what each client was told of the command it gave last    *)

vars == <<accounts, password, balance, gained, reply>>

NoReply == [what |-> "none"]

Init ==
  /\ accounts = {}
  /\ password = [a \in AccountId |-> 0]
  /\ balance = [a \in AccountId |-> 0]
  /\ gained = 0
  /\ reply = [t \in Client |-> NoReply]

(* The first thing that is wrong with a command, in the order of the code  *)
Verdict(c) ==
  CASE c.op = "O" -> IF c.acc \in accounts THEN "exists" ELSE "ok"
    [] c.op # "O" /\ c.acc \notin accounts -> "missing"
    [] c.op # "O" /\ c.acc \in accounts ->
         CASE c.pw # password[c.acc]                       -> "password"
           [] c.pw = password[c.acc] ->
                CASE c.op = "T" /\ c.tgt \notin accounts   -> "no_target"
                  [] c.op \in {"W", "T"} /\ ~(c.op = "T" /\ c.tgt \notin accounts)
                     /\ balance[c.acc] < c.amt             -> "low"
                  [] OTHER                                 -> "ok"

Balances(c) ==
  CASE c.op = "O" -> [balance EXCEPT ![c.acc] = c.amt]
    [] c.op = "D" -> [balance EXCEPT ![c.acc] = @ + c.amt]
    [] c.op = "W" -> [balance EXCEPT ![c.acc] = @ - c.amt]
    [] c.op = "B" -> balance
    [] c.op = "Q" -> [balance EXCEPT ![c.acc] = 0]
    [] c.op = "T" -> [balance EXCEPT ![c.acc] = @ - c.amt, ![c.tgt] = @ + c.amt]

Passwords(c) ==
  CASE c.op = "O" -> [password EXCEPT ![c.acc] = c.pw]
    [] c.op = "Q" -> [password EXCEPT ![c.acc] = 0]
    [] OTHER      -> password

Accounts(c) ==
  CASE c.op = "O" -> accounts \cup {c.acc}
    [] c.op = "Q" -> accounts \ {c.acc}
    [] OTHER      -> accounts

(* The numbers in a reply are the balances the command found.              *)
Answer(c) ==
  [what   |-> Verdict(c),
   cmd    |-> c,
   source |-> IF c.op # "O" /\ Verdict(c) # "missing" THEN balance[c.acc] ELSE 0,
   target |-> IF c.op = "T" /\ Verdict(c) \in {"ok", "low"} THEN balance[c.tgt] ELSE 0]

Execute(t, c) ==
  /\ reply[t] = NoReply
  /\ IF Verdict(c) = "ok"
     THEN /\ accounts' = Accounts(c)
          /\ password' = Passwords(c)
          /\ balance' = Balances(c)
     ELSE UNCHANGED <<accounts, password, balance>>
  /\ reply' = [reply EXCEPT ![t] = Answer(c)]
  /\ UNCHANGED gained

(* The client goes on to its next line.                                    *)
GoOn(t) ==
  /\ reply[t] # NoReply
  /\ reply' = [reply EXCEPT ![t] = NoReply]
  /\ UNCHANGED <<accounts, password, balance, gained>>

Fee(r, a) == (r * balance[a]) \div 100

ChargeAll(r) ==
  /\ balance' = [a \in AccountId |-> balance[a] - Fee(r, a)]
  /\ gained' = gained + SumOver([a \in AccountId |-> Fee(r, a)], accounts)
  /\ UNCHANGED <<accounts, password, reply>>

Next ==
  \/ \E t \in Client : (\E c \in Command : Execute(t, c)) \/ GoOn(t)
  \/ \E r \in Rates : ChargeAll(r)

Spec == Init /\ [][Next]_vars
=============================================================================
