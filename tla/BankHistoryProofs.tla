-------------------------- MODULE BankHistoryProofs --------------------------
(***************************************************************************)
(* Proofs about the bank as a whole, for any number of ATMs, any finite    *)
(* set of accounts and any files: its threads implement the atomic bank,   *)
(* and no money is made or lost.                                           *)
(***************************************************************************)
EXTENDS BankHistory, BankProofs, FiniteSetTheorems

-----------------------------------------------------------------------------
(* Sums *)

LEMMA CoinsOfSplit ==
  ASSUME NEW f, NEW S, NEW a
  PROVE  Coins(f, S \cup {a}) = Coins(f, S) \cup ({a} \X (1..f[a]))
BY DEF Coins

LEMMA CoinsSame ==
  ASSUME NEW f, NEW g, NEW S, \A a \in S : f[a] = g[a]
  PROVE  SumOver(f, S) = SumOver(g, S)
BY DEF SumOver, Coins

(* Coins of a finite number of purses are finite in number.                *)
LEMMA CoinsFinite ==
  ASSUME NEW f, NEW S, IsFiniteSet(S), \A a \in S : f[a] \in Nat
  PROVE  IsFiniteSet(Coins(f, S)) /\ SumOver(f, S) \in Nat
<1> DEFINE Purse == [a \in S |-> {a} \X (1..f[a])]
           Purses == {Purse[a] : a \in S}
<1>1. Purse \in Surjection(S, Purses)
  BY DEF Surjection
<1>2. IsFiniteSet(Purses)
  BY <1>1, FS_Surjection
<1>3. \A T \in Purses : IsFiniteSet(T)
  <2> SUFFICES ASSUME NEW a \in S PROVE IsFiniteSet({a} \X (1..f[a]))
    OBVIOUS
  <2>a. f[a] \in Int /\ 1 \in Int
    OBVIOUS
  <2>1. IsFiniteSet({a}) /\ IsFiniteSet(1..f[a])
    BY <2>a, FS_Singleton, FS_Interval
  <2> QED
    BY <2>1, FS_Product
<1>4. Coins(f, S) = UNION Purses
  BY DEF Coins
<1>5. IsFiniteSet(Coins(f, S))
  BY <1>2, <1>3, <1>4, FS_UNION
<1> QED
  BY <1>5, FS_CardinalityType DEF SumOver

(* One purse more adds its content.                                        *)
LEMMA SumAdd ==
  ASSUME NEW f, NEW S, IsFiniteSet(S), NEW a, a \notin S, \A b \in S \cup {a} : f[b] \in Nat
  PROVE  SumOver(f, S \cup {a}) = SumOver(f, S) + f[a]
<1> DEFINE P == {a} \X (1..f[a])
<1>1. IsFiniteSet(Coins(f, S)) /\ Cardinality(Coins(f, S)) \in Nat
  BY CoinsFinite DEF SumOver
<1>2. IsFiniteSet(P) /\ Cardinality(P) = f[a]
  <2>1. IsFiniteSet({a}) /\ Cardinality({a}) = 1
    BY FS_Singleton
  <2>2. f[a] \in Nat /\ IsFiniteSet(1..f[a]) /\ Cardinality(1..f[a]) = f[a]
    BY FS_Interval
  <2> QED
    BY <2>1, <2>2, FS_Product
<1>3. Coins(f, S) \cap P = {}
  BY DEF Coins
<1>4. Cardinality(Coins(f, S) \cap P) = 0
  BY <1>3, FS_EmptySet
<1>5. Cardinality(Coins(f, S) \cup P) = Cardinality(Coins(f, S)) + Cardinality(P)
  <2> HIDE DEF P
  <2>1. Cardinality(Coins(f, S) \cup P) =
          Cardinality(Coins(f, S)) + Cardinality(P) - Cardinality(Coins(f, S) \cap P)
    BY <1>1, <1>2, FS_Union
  <2>2. Cardinality(P) \in Nat
    BY <1>2, FS_CardinalityType
  <2> QED
    BY <1>1, <1>4, <2>1, <2>2
<1>6. SumOver(f, S \cup {a}) = Cardinality(Coins(f, S) \cup P)
  BY CoinsOfSplit DEF SumOver
<1> QED
  BY <1>2, <1>5, <1>6 DEF SumOver

(* Changing one amount changes the sum by as much.                         *)
LEMMA SumChange ==
  ASSUME NEW S, IsFiniteSet(S), NEW a \in S, NEW f, NEW g,
         \A b \in S : f[b] \in Nat, g[a] \in Nat, \A b \in S \ {a} : g[b] = f[b]
  PROVE  /\ SumOver(g, S) = SumOver(f, S) - f[a] + g[a]
         /\ SumOver(f, S) \in Nat
<1> DEFINE R == S \ {a}
<1>1. IsFiniteSet(R) /\ R \cup {a} = S /\ a \notin R
  BY FS_RemoveElement
<1>2. SumOver(f, R \cup {a}) = SumOver(f, R) + f[a]
  BY <1>1, SumAdd
<1>3. SumOver(g, R \cup {a}) = SumOver(g, R) + g[a]
  BY <1>1, SumAdd
<1>4. SumOver(g, R) = SumOver(f, R)
  BY CoinsSame
<1>5. SumOver(f, R) \in Nat /\ f[a] \in Nat
  BY <1>1, CoinsFinite
<1>6. SumOver(g, S) = SumOver(f, R) + g[a] /\ SumOver(f, S) = SumOver(f, R) + f[a]
  BY <1>1, <1>2, <1>3, <1>4, <1>5
<1> QED
  BY <1>5, <1>6

LEMMA SumOfNothing ==
  ASSUME NEW f, NEW S, \A a \in S : f[a] = 0
  PROVE  SumOver(f, S) = 0
<1>1. Coins(f, S) = {}
  <2> SUFFICES ASSUME NEW p \in Coins(f, S) PROVE FALSE
    OBVIOUS
  <2>1. PICK a \in S : p \in {a} \X (1..f[a])
    BY DEF Coins
  <2>2. p[2] \in 1..0
    BY <2>1
  <2> QED
    BY <2>2
<1> QED
  BY <1>1, FS_EmptySet DEF SumOver

-----------------------------------------------------------------------------
(***************************************************************************)
(* The atomic bank                                                         *)
(***************************************************************************)
ReplyRecord(c, what, source, target) ==
  [what |-> what, cmd |-> c, source |-> source, target |-> target]

(* What the atomic bank answers, case by case                              *)
LEMMA Answers ==
  ASSUME NEW c, c.op \in Ops
  PROVE  LET has == committed.balance[c.acc]
             open == c.op # "O" /\ c.acc \in committed.accounts
             allowed == open /\ c.pw = committed.password[c.acc]
             known == allowed /\ c.op = "T" /\ c.tgt \in committed.accounts
             Is(what, source, target) ==
               Atomic!Answer(c) = ReplyRecord(c, what, source, target)
         IN  /\ c.op = "O" /\ c.acc \in committed.accounts => Is("exists", 0, 0)
             /\ c.op = "O" /\ c.acc \notin committed.accounts => Is("ok", 0, 0)
             /\ c.op # "O" /\ c.acc \notin committed.accounts => Is("missing", 0, 0)
             /\ open /\ c.pw # committed.password[c.acc] => Is("password", has, 0)
             /\ allowed /\ c.op \in {"D", "B", "Q"} => Is("ok", has, 0)
             /\ allowed /\ c.op = "W" /\ has < c.amt => Is("low", has, 0)
             /\ allowed /\ c.op = "W" /\ ~(has < c.amt) => Is("ok", has, 0)
             /\ allowed /\ c.op = "T" /\ c.tgt \notin committed.accounts => Is("no_target", has, 0)
             /\ known /\ has < c.amt => Is("low", has, committed.balance[c.tgt])
             /\ known /\ ~(has < c.amt) => Is("ok", has, committed.balance[c.tgt])
<1> DEFINE V == Atomic!Verdict(c)
           Answered(what, source, target) ==
             Atomic!Answer(c) = ReplyRecord(c, what, source, target)
<1>a. Atomic!Answer(c) = ReplyRecord(c, V,
        IF c.op # "O" /\ V # "missing" THEN committed.balance[c.acc] ELSE 0,
        IF c.op = "T" /\ V \in {"ok", "low"} THEN committed.balance[c.tgt] ELSE 0)
  BY DEF Atomic!Answer, ReplyRecord
<1>1. CASE c.op = "O"
  <2>1. V = IF c.acc \in committed.accounts THEN "exists" ELSE "ok"
    BY <1>1 DEF Atomic!Verdict
  <2> HIDE DEF V
  <2> QED
    BY <1>a, <1>1, <2>1
<1>2. CASE c.op # "O" /\ c.acc \notin committed.accounts
  <2>1. V = "missing"
    BY <1>2 DEF Atomic!Verdict
  <2> HIDE DEF V
  <2> QED
    BY <1>a, <1>2, <2>1
<1>3. CASE c.op # "O" /\ c.acc \in committed.accounts /\ c.pw # committed.password[c.acc]
  <2>1. V = "password"
    BY <1>3 DEF Atomic!Verdict
  <2> HIDE DEF V
  <2> QED
    BY <1>a, <1>3, <2>1
<1>4. CASE c.op # "O" /\ c.acc \in committed.accounts /\ c.pw = committed.password[c.acc]
  <2>1. CASE c.op = "T" /\ c.tgt \notin committed.accounts
    <3>1. V = "no_target"
      BY <1>4, <2>1 DEF Atomic!Verdict
    <3> HIDE DEF V
    <3> QED
      BY <1>a, <1>4, <2>1, <3>1
  <2>2. CASE c.op = "T" /\ c.tgt \in committed.accounts
    <3>1. V = IF committed.balance[c.acc] < c.amt THEN "low" ELSE "ok"
      BY <1>4, <2>2 DEF Atomic!Verdict
    <3> HIDE DEF V
    <3> QED
      BY <1>a, <1>4, <2>2, <3>1
  <2>3. CASE c.op = "W"
    <3>1. V = IF committed.balance[c.acc] < c.amt THEN "low" ELSE "ok"
      BY <1>4, <2>3 DEF Atomic!Verdict
    <3> HIDE DEF V
    <3> QED
      BY <1>a, <1>4, <2>3, <3>1
  <2>4. CASE c.op \in {"D", "B", "Q"}
    <3>1. V = "ok"
      BY <1>4, <2>4 DEF Atomic!Verdict
    <3> HIDE DEF V
    <3> QED
      BY <1>a, <1>4, <2>4, <3>1
  <2>5. c.op \in {"D", "B", "Q"} \/ c.op = "W" \/ c.op = "T"
    BY <1>4 DEF Ops
  <2> QED
    BY ONLY <2>1, <2>2, <2>3, <2>4, <2>5, Zenon
<1> QED
  BY <1>1, <1>2, <1>3, <1>4

(* The atomic bank's view of a command stays while the commit point does.  *)
LEMMA AtomicSame ==
  ASSUME NEW t, committed' = committed, cmd' = cmd
  PROVE  /\ Atomic!Answer(cmd[t])' = Atomic!Answer(cmd[t])
         /\ Atomic!Accounts(cmd[t])' = Atomic!Accounts(cmd[t])
         /\ Atomic!Passwords(cmd[t])' = Atomic!Passwords(cmd[t])
         /\ Atomic!Balances(cmd[t])' = Atomic!Balances(cmd[t])
BY DEF Atomic!Answer, Atomic!Verdict, Atomic!Accounts, Atomic!Passwords, Atomic!Balances

-----------------------------------------------------------------------------
(***************************************************************************)
(* An ATM inside the bank                                                  *)
(***************************************************************************)
Working(t) ==
  /\ IInv /\ IInv' /\ HistoryInv
  /\ InBank(t) /\ InBank(t)'
  /\ committed' = committed /\ cmd' = cmd

(* What each of its steps must do: keep the reply and the books in line    *)
(* with the atomic bank, and change the sum by what it has in its hands.   *)
Advances(t) ==
  /\ ReplyOf(t)'
  /\ BooksOf(t)'
  /\ Total' = Total + InHand(t)' - InHand(t)

LEMMA MoveOf ==
  ASSUME PcType, NEW t \in Thread, NEW from, NEW to, Step(t, from, to)
  PROVE  /\ pc[t] = from /\ pc'[t] = to
         /\ \A u \in Thread \ {t} : pc'[u] = pc[u]
BY DEF Step, PcType

LEMMA BooksTypes ==
  ASSUME IInv
  PROVE  /\ accounts \subseteq AccountId
         /\ password \in [AccountId -> Nat]
         /\ balance \in [AccountId -> Nat]
<1>1. accounts \subseteq AccountId /\ password \in [AccountId -> Nat] /\ balance \in [AccountId -> Int]
  BY DEF IInv, TypeOK, BooksType
<1>2. \A a \in AccountId : balance[a] \in Nat
  BY <1>1 DEF IInv, NonNegative
<1> QED
  BY <1>1, <1>2

LEMMA TotalIsNat ==
  ASSUME IInv
  PROVE  Total \in Nat
BY BankAssumption, BooksTypes, CoinsFinite DEF Total

LEMMA WorkingFacts ==
  ASSUME NEW t \in Atm, Working(t)
  PROVE  /\ cmd[t] \in Command /\ cmd[t].op \in OpsAt(pc[t]) /\ cmd[t].op \in Ops
         /\ cmd[t].acc \in AccountId /\ cmd[t].tgt \in AccountId
         /\ cmd[t].amt \in Nat /\ cmd[t].pw \in Nat
         /\ AtmInv(t) /\ ReplyOf(t) /\ BooksOf(t)
         /\ t \in Thread /\ t \notin Service /\ PcType
         /\ accounts \subseteq AccountId /\ password \in [AccountId -> Nat]
         /\ balance \in [AccountId -> Nat]
         /\ seen \in [Atm -> Int] /\ seenTarget \in [Atm -> Int] /\ outcome \in [Atm -> Outcomes]
         /\ committed.accounts \subseteq AccountId
         /\ committed.password \in [AccountId -> Nat]
         /\ committed.balance \in [AccountId -> Nat]
<1>1. /\ cmd[t] \in Command /\ cmd[t].op \in OpsAt(pc[t])
      /\ cmd[t].acc \in AccountId /\ cmd[t].tgt \in AccountId
      /\ cmd[t].amt \in Nat /\ cmd[t].pw \in Nat
  BY InBankCommand DEF Working
<1>2. cmd[t].op \in Ops
  BY <1>1 DEF OpsAt, Ops
<1>3. /\ t \in Thread /\ t \notin Service /\ PcType /\ AtmInv(t)
      /\ seen \in [Atm -> Int] /\ seenTarget \in [Atm -> Int] /\ outcome \in [Atm -> Outcomes]
  BY ThreadKinds DEF Working, IInv, TypeOK, AtmType, Service
<1>4. ReplyOf(t) /\ BooksOf(t)
  BY DEF Working, HistoryInv, AtmHistory
<1>5. /\ committed.accounts \subseteq AccountId
      /\ committed.password \in [AccountId -> Nat]
      /\ committed.balance \in [AccountId -> Nat]
  BY DEF Working, HistoryInv, HistoryType
<1> QED
  BY <1>1, <1>2, <1>3, <1>4, <1>5, BooksTypes DEF Working

(* Steps that only move on: a lock taken, a line logged                    *)
Moves ==
  { <<"lock_acc", "read_acc">>, <<"check", "update">>, <<"lock_upd", "update">>,
    <<"lock_tgt", "read_tgt">>, <<"lock_upd_tgt", "update_tgt">>,
    <<"lock_log", "log">>, <<"log", "leave">>, <<"log", "erase">> }

LEMMA MoveAdvances ==
  ASSUME NEW t \in Atm, Working(t), UNCHANGED <<books, copies>>,
         <<pc[t], pc'[t]>> \in Moves,
         pc[t] = "check" => cmd[t].op = "D",
         pc[t] = "log" => (pc'[t] = "erase" <=> cmd[t].op = "Q" /\ outcome[t] = "ok")
  PROVE  Advances(t)
<1>a. /\ UNCHANGED <<accounts, password, balance, seen, seenTarget, outcome, cmd>>
      /\ ReplyOf(t) /\ BooksOf(t) /\ cmd[t].op \in OpsAt(pc[t]) /\ committed' = committed
  BY WorkingFacts DEF Working, books, copies
<1>b. \/ pc[t] = "lock_acc" /\ pc'[t] = "read_acc"
      \/ pc[t] = "check" /\ pc'[t] = "update"
      \/ pc[t] = "lock_upd" /\ pc'[t] = "update"
      \/ pc[t] = "lock_tgt" /\ pc'[t] = "read_tgt"
      \/ pc[t] = "lock_upd_tgt" /\ pc'[t] = "update_tgt"
      \/ pc[t] = "lock_log" /\ pc'[t] = "log"
      \/ pc[t] = "log" /\ pc'[t] = "leave"
      \/ pc[t] = "log" /\ pc'[t] = "erase"
  BY DEF Moves
<1>1. ReplyOf(t)'
  BY <1>a, <1>b, AtomicSame DEF ReplyOf, Reply, HalfDone
<1>2. (Done(t)' <=> Done(t)) /\ (HalfDone(t)' <=> HalfDone(t))
  BY <1>a, <1>b DEF Done, HalfDone
<1>3. BooksOf(t)'
  BY <1>a, <1>2, AtomicSame DEF BooksOf, BooksAsCommitted
<1>4. InHand(t)' = InHand(t)
  BY <1>a, <1>2 DEF InHand, PaidIn
<1>5. Total' = Total /\ Total \in Int /\ InHand(t) \in Int
  <2>1. InHand(t) \in Int
    BY WorkingFacts DEF InHand, PaidIn
  <2> QED
    BY <1>a, <2>1, TotalIsNat DEF Total, Working
<1> QED
  BY <1>1, <1>3, <1>4, <1>5 DEF Advances

(* Steps that get closer to the books without changing them                *)
LEMMA ProceedAdvances ==
  ASSUME NEW t \in Atm, Working(t), UNCHANGED books,
         pc[t] \in {"find", "read_acc", "check", "read_tgt", "funds"},
         pc'[t] \in {"lock_acc", "check", "lock_tgt", "funds", "lock_upd"},
         outcome'[t] = outcome[t],
         pc'[t] # "lock_acc" => cmd[t].pw = password[cmd[t].acc],
         pc'[t] = "lock_acc" => seen'[t] = 0,
         pc'[t] \in {"lock_acc", "check", "lock_tgt"} \/ cmd[t].op # "T" => seenTarget'[t] = 0
  PROVE  Advances(t)
<1>a. /\ UNCHANGED <<accounts, password, balance, cmd>> /\ committed' = committed
      /\ ReplyOf(t) /\ BooksOf(t)
  BY WorkingFacts DEF Working, books
<1>b. outcome[t] = "none" /\ outcome'[t] = "none"
  BY <1>a DEF ReplyOf
<1>1. ReplyOf(t)'
  BY <1>a, <1>b DEF ReplyOf, HalfDone
<1>2. ~Done(t) /\ ~HalfDone(t) /\ ~Done(t)' /\ ~HalfDone(t)'
  BY DEF Done, HalfDone
<1>3. BooksOf(t)'
  BY <1>a, <1>2 DEF BooksOf, BooksAsCommitted
<1>4. Total' = Total /\ Total \in Int /\ InHand(t) = 0 /\ InHand(t)' = 0
  BY <1>a, <1>2, TotalIsNat DEF Total, InHand, Working
<1> QED
  BY <1>1, <1>3, <1>4 DEF Advances

(* A command comes to its answer, which is not to change the books, or not *)
(* yet.                                                                    *)
LEMMA AnswerAdvances ==
  ASSUME NEW t \in Atm, Working(t), UNCHANGED books,
         pc[t] \in {"find", "read_acc", "check", "funds"}, pc'[t] = "lock_log",
         outcome'[t] # "none",
         Atomic!Answer(cmd[t]) = ReplyRecord(cmd[t], outcome'[t], seen'[t], seenTarget'[t]),
         outcome'[t] = "ok" => cmd[t].op \in {"B", "Q"},
         cmd[t].op # "T" => seenTarget'[t] = 0
  PROVE  Advances(t)
<1>a. /\ UNCHANGED <<accounts, password, balance, cmd>> /\ committed' = committed
      /\ ReplyOf(t) /\ BooksOf(t)
  BY WorkingFacts DEF Working, books
<1>1. ReplyOf(t)'
  BY <1>a, AtomicSame DEF ReplyOf, HalfDone, Reply, ReplyRecord
<1>2. ~Done(t) /\ ~HalfDone(t) /\ ~HalfDone(t)' /\ (Done(t)' => cmd[t].op = "B")
  BY <1>a DEF Done, HalfDone
<1>3. BooksAsCommitted /\ BooksAsCommitted'
  BY <1>a, <1>2 DEF BooksOf, BooksAsCommitted
<1>4. BooksOf(t)'
  <2>1. CASE cmd[t].op = "B"
    <3>1. /\ Atomic!Accounts(cmd[t])' = committed.accounts
          /\ Atomic!Passwords(cmd[t])' = committed.password
          /\ Atomic!Balances(cmd[t])' = committed.balance
      BY <1>a, <2>1 DEF Atomic!Accounts, Atomic!Passwords, Atomic!Balances
    <3> QED
      BY <1>a, <1>2, <1>3, <3>1 DEF BooksOf, BooksAsCommitted
  <2>2. CASE cmd[t].op # "B"
    BY <1>2, <1>3, <2>2 DEF BooksOf
  <2> QED
    BY <2>1, <2>2
<1>5. Total' = Total /\ Total \in Int /\ InHand(t) = 0 /\ InHand(t)' = 0
  BY <1>a, <1>2, TotalIsNat DEF Total, InHand, PaidIn, Working
<1> QED
  BY <1>1, <1>4, <1>5 DEF Advances

LEMMA FindAdvances ==
  ASSUME NEW t \in Atm, Working(t), FindAccount(t), cmd[t].op # "O"
  PROVE  Advances(t)
<1>1. /\ UNCHANGED <<books, cmd, seen, seenTarget>> /\ pc[t] = "find" /\ PcType
      /\ ReplyOf(t) /\ BooksOf(t) /\ cmd[t].op \in Ops /\ outcome \in [Atm -> Outcomes] /\ t \in Thread
  BY WorkingFacts DEF FindAccount, Proceed, Answer, Step
<1>2. accounts = committed.accounts
  BY <1>1 DEF BooksOf, BooksAsCommitted, Done, HalfDone
<1>3. seen[t] = 0 /\ seenTarget[t] = 0
  BY <1>1 DEF ReplyOf
<1>4. CASE cmd[t].acc \in accounts
  <2>1. pc'[t] = "lock_acc" /\ outcome' = outcome
    BY <1>1, <1>4 DEF FindAccount, Proceed, Step, PcType
  <2> QED
    BY <1>1, <1>3, <2>1, ProceedAdvances
<1>5. CASE cmd[t].acc \notin accounts
  <2>1. pc'[t] = "lock_log" /\ outcome'[t] = "missing"
    BY <1>1, <1>5 DEF FindAccount, Answer, Step, PcType
  <2>2. Atomic!Answer(cmd[t]) = ReplyRecord(cmd[t], "missing", 0, 0)
    BY <1>1, <1>2, <1>5, Answers
  <2> QED
    BY <1>1, <1>3, <2>1, <2>2, AnswerAdvances
<1> QED
  BY <1>4, <1>5

LEMMA CopyAdvances ==
  ASSUME NEW t \in Atm, Working(t), CopyAccount(t), cmd[t].op # "O"
  PROVE  Advances(t)
<1>1. /\ UNCHANGED <<books, cmd, seenTarget>> /\ pc[t] = "read_acc" /\ PcType /\ t \in Thread
      /\ seen' = [seen EXCEPT ![t] = balance[cmd[t].acc]] /\ seen \in [Atm -> Int]
      /\ ReplyOf(t) /\ BooksOf(t) /\ AtmInv(t) /\ t \notin Service
      /\ cmd[t].op \in Ops /\ outcome \in [Atm -> Outcomes]
  BY WorkingFacts DEF CopyAccount, unlock_for_writers, Proceed, Answer, Step
<1>2. BooksAsCommitted
  BY <1>1 DEF BooksOf, Done, HalfDone
<1>3. seenTarget[t] = 0 /\ seen'[t] = balance[cmd[t].acc] /\ cmd[t].acc \in accounts
  BY <1>1 DEF ReplyOf, AtmInv, AccountsFound, Visited
<1>4. CASE cmd[t].pw = password[cmd[t].acc]
  <2>1. pc'[t] = "check" /\ outcome' = outcome
    BY <1>1, <1>4 DEF CopyAccount, Proceed, Step, PcType
  <2> QED
    BY <1>1, <1>3, <1>4, <2>1, ProceedAdvances
<1>5. CASE cmd[t].pw # password[cmd[t].acc]
  <2>1. pc'[t] = "lock_log" /\ outcome'[t] = "password"
    BY <1>1, <1>5 DEF CopyAccount, Answer, Step, PcType
  <2>2. Atomic!Answer(cmd[t]) = ReplyRecord(cmd[t], "password", committed.balance[cmd[t].acc], 0)
    BY <1>1, <1>2, <1>3, <1>5, Answers DEF BooksAsCommitted
  <2> QED
    BY <1>1, <1>2, <1>3, <2>1, <2>2, AnswerAdvances DEF BooksAsCommitted
<1> QED
  BY <1>4, <1>5

LEMMA FundsAdvance ==
  ASSUME NEW t \in Atm, Working(t), NEW from, CheckFunds(t, from),
         (from = "check" /\ cmd[t].op = "W") \/ (from = "funds" /\ cmd[t].op = "T")
  PROVE  Advances(t)
<1>1. /\ UNCHANGED <<books, cmd, seen, seenTarget>> /\ pc[t] = from /\ PcType /\ t \in Thread
      /\ ReplyOf(t) /\ BooksOf(t) /\ AtmInv(t) /\ t \notin Service
      /\ cmd[t].op \in Ops /\ outcome \in [Atm -> Outcomes]
  BY WorkingFacts DEF CheckFunds, Proceed, Answer, Step
<1>2. BooksAsCommitted
  BY <1>1 DEF BooksOf, Done, HalfDone
<1>3. /\ seen[t] = balance[cmd[t].acc] /\ cmd[t].acc \in accounts
      /\ cmd[t].pw = password[cmd[t].acc]
  BY <1>1 DEF ReplyOf, AtmInv, AccountsFound, CopyCurrent, Visited
<1>4. /\ cmd[t].op = "W" => seenTarget[t] = 0
      /\ cmd[t].op = "T" => seenTarget[t] = balance[cmd[t].tgt] /\ cmd[t].tgt \in accounts
  BY <1>1 DEF ReplyOf, AtmInv, AccountsFound, TargetCurrent, Visited
<1>5. CASE seen[t] < cmd[t].amt
  <2>1. pc'[t] = "lock_log" /\ outcome'[t] = "low"
    BY <1>1, <1>5 DEF CheckFunds, Answer, Step, PcType
  <2>2. Atomic!Answer(cmd[t]) = ReplyRecord(cmd[t], "low", seen[t], seenTarget[t])
    BY <1>1, <1>2, <1>3, <1>4, <1>5, Answers DEF BooksAsCommitted
  <2> QED
    BY <1>1, <1>4, <2>1, <2>2, AnswerAdvances
<1>6. CASE ~(seen[t] < cmd[t].amt)
  <2>1. pc'[t] = "lock_upd" /\ outcome' = outcome
    BY <1>1, <1>6 DEF CheckFunds, Proceed, Step, PcType
  <2> QED
    BY <1>1, <1>3, <1>4, <2>1, ProceedAdvances
<1> QED
  BY <1>5, <1>6

LEMMA FindTargetAdvances ==
  ASSUME NEW t \in Atm, Working(t), FindTarget(t), cmd[t].op = "T"
  PROVE  Advances(t)
<1>1. /\ UNCHANGED <<books, cmd, seen, seenTarget>> /\ pc[t] = "check" /\ PcType /\ t \in Thread
      /\ ReplyOf(t) /\ BooksOf(t) /\ AtmInv(t) /\ t \notin Service
      /\ cmd[t].op \in Ops /\ outcome \in [Atm -> Outcomes]
  BY WorkingFacts DEF FindTarget, Proceed, Answer, Step
<1>2. BooksAsCommitted
  BY <1>1 DEF BooksOf, Done, HalfDone
<1>3. /\ seen[t] = balance[cmd[t].acc] /\ cmd[t].acc \in accounts /\ seenTarget[t] = 0
      /\ cmd[t].pw = password[cmd[t].acc]
  BY <1>1 DEF ReplyOf, AtmInv, AccountsFound, CopyCurrent, Visited
<1>4. CASE cmd[t].tgt \in accounts
  <2>1. pc'[t] = "lock_tgt" /\ outcome' = outcome
    BY <1>1, <1>4 DEF FindTarget, Proceed, Step, PcType
  <2> QED
    BY <1>1, <1>3, <2>1, ProceedAdvances
<1>5. CASE cmd[t].tgt \notin accounts
  <2>1. pc'[t] = "lock_log" /\ outcome'[t] = "no_target"
    BY <1>1, <1>5 DEF FindTarget, Answer, Step, PcType
  <2>2. Atomic!Answer(cmd[t]) = ReplyRecord(cmd[t], "no_target", seen[t], 0)
    BY <1>1, <1>2, <1>3, <1>5, Answers DEF BooksAsCommitted
  <2> QED
    BY <1>1, <1>3, <2>1, <2>2, AnswerAdvances
<1> QED
  BY <1>4, <1>5

LEMMA CopyTargetAdvances ==
  ASSUME NEW t \in Atm, Working(t), CopyTarget(t), cmd[t].op = "T"
  PROVE  Advances(t)
<1>1. /\ UNCHANGED <<books, cmd, seen, outcome>> /\ pc[t] = "read_tgt" /\ PcType /\ t \in Thread
      /\ ReplyOf(t)
  BY WorkingFacts DEF CopyTarget, unlock_for_writers, Proceed, Step
<1>2. pc'[t] = "funds" /\ cmd[t].pw = password[cmd[t].acc]
  <2>1. cmd[t].op = "T" /\ AtmInv(t)
    BY WorkingFacts
  <2> QED
    BY <1>1, <2>1 DEF CopyTarget, Proceed, Step, PcType, ReplyOf
<1> QED
  BY <1>1, <1>2, ProceedAdvances

LEMMA TellAdvances ==
  ASSUME NEW t \in Atm, Working(t), TellBalance(t), cmd[t].op \in {"B", "Q"}
  PROVE  Advances(t)
<1>1. /\ UNCHANGED <<books, cmd, seen, seenTarget>> /\ pc[t] = "check" /\ PcType /\ t \in Thread
      /\ ReplyOf(t) /\ BooksOf(t) /\ AtmInv(t) /\ t \notin Service
      /\ cmd[t].op \in Ops /\ outcome \in [Atm -> Outcomes]
  BY WorkingFacts DEF TellBalance, Answer, Step
<1>2. BooksAsCommitted
  BY <1>1 DEF BooksOf, Done, HalfDone
<1>3. /\ seen[t] = balance[cmd[t].acc] /\ cmd[t].acc \in accounts /\ seenTarget[t] = 0
      /\ cmd[t].pw = password[cmd[t].acc]
  BY <1>1 DEF ReplyOf, AtmInv, AccountsFound, CopyCurrent, Visited
<1>4. pc'[t] = "lock_log" /\ outcome'[t] = "ok"
  BY <1>1 DEF TellBalance, Answer, Step, PcType
<1>5. Atomic!Answer(cmd[t]) = ReplyRecord(cmd[t], "ok", seen[t], 0)
  BY <1>1, <1>2, <1>3, Answers DEF BooksAsCommitted
<1> QED
  BY <1>1, <1>3, <1>4, <1>5, AnswerAdvances

(* Steps that change a balance                                             *)
LEMMA TotalChange ==
  ASSUME IInv, NEW a \in AccountId, NEW v \in Nat, balance' = [balance EXCEPT ![a] = v]
  PROVE  Total' = Total - balance[a] + v /\ Total \in Nat
<1>1. IsFiniteSet(AccountId) /\ balance \in [AccountId -> Nat]
  BY BankAssumption, BooksTypes
<1>2. /\ SumOver(balance', AccountId) = SumOver(balance, AccountId) - balance[a] + v
      /\ SumOver(balance, AccountId) \in Nat
  <2> DEFINE g == balance'
  <2>1. g[a] = v /\ \A b \in AccountId \ {a} : g[b] = balance[b]
    BY <1>1
  <2> HIDE DEF g
  <2>2. SumOver(g, AccountId) = SumOver(balance, AccountId) - balance[a] + g[a]
    BY <1>1, <2>1, SumChange
  <2>3. SumOver(balance, AccountId) \in Nat
    BY <1>1, CoinsFinite
  <2> QED
    BY <2>1, <2>2, <2>3 DEF g
<1>3. Total' = SumOver(balance', AccountId)
  BY DEF Total
<1> QED
  BY <1>2, <1>3 DEF Total

(* The step that carries out O, D, W or T                                  *)
LEMMA FinishAdvances ==
  ASSUME NEW t \in Atm, Working(t), cmd[t].op \in {"O", "D", "W", "T"},
         pc'[t] = "lock_log", outcome'[t] = "ok",
         Atomic!Answer(cmd[t]) = ReplyRecord(cmd[t], "ok", seen'[t], seenTarget'[t]),
         cmd[t].op # "T" => seenTarget'[t] = 0,
         accounts' = Atomic!Accounts(cmd[t]),
         password' = Atomic!Passwords(cmd[t]),
         balance' = Atomic!Balances(cmd[t])
  PROVE  /\ ReplyOf(t)' /\ BooksOf(t)'
         /\ InHand(t)' = CASE cmd[t].op \in {"O", "D"} -> cmd[t].amt
                           [] cmd[t].op = "W" -> -cmd[t].amt
                           [] cmd[t].op = "T" -> 0
<1>a. committed' = committed /\ cmd' = cmd
  BY DEF Working
<1>1. ReplyOf(t)'
  BY <1>a, AtomicSame DEF ReplyOf, HalfDone, Reply, ReplyRecord
<1>2. Done(t)' /\ ~HalfDone(t)'
  BY <1>a DEF Done, HalfDone
<1>3. BooksOf(t)'
  <2>1. /\ accounts' = Atomic!Accounts(cmd[t])'
        /\ password' = Atomic!Passwords(cmd[t])'
        /\ balance' = Atomic!Balances(cmd[t])'
    BY <1>a DEF Atomic!Accounts, Atomic!Passwords, Atomic!Balances
  <2> QED
    BY <1>2, <2>1 DEF BooksOf
<1>4. InHand(t)' = PaidIn(t)'
  BY <1>2 DEF InHand
<1> QED
  BY <1>a, <1>1, <1>3, <1>4 DEF PaidIn

LEMMA OpenAdvances ==
  ASSUME NEW t \in Atm, Working(t), OpenAccount(t), cmd[t].op = "O"
  PROVE  Advances(t)
<1>1. /\ UNCHANGED <<cmd, seen, seenTarget>> /\ pc[t] = "find" /\ pc'[t] = "lock_log"
      /\ PcType /\ t \in Thread /\ outcome \in [Atm -> Outcomes]
      /\ ReplyOf(t) /\ BooksOf(t) /\ cmd[t].op \in Ops
  BY WorkingFacts DEF OpenAccount, Answer, Step, PcType
<1>2. /\ BooksAsCommitted /\ seen[t] = 0 /\ seenTarget[t] = 0
      /\ ~Done(t) /\ ~HalfDone(t)
  BY <1>1 DEF BooksOf, ReplyOf, Done, HalfDone
<1>3. CASE cmd[t].acc \in accounts
  <2>1. outcome'[t] = "exists" /\ UNCHANGED books
    BY <1>1, <1>3 DEF OpenAccount, Answer
  <2>2. Atomic!Answer(cmd[t]) = ReplyRecord(cmd[t], "exists", 0, 0)
    BY <1>1, <1>2, <1>3, Answers DEF BooksAsCommitted
  <2> QED
    BY <1>1, <1>2, <2>1, <2>2, AnswerAdvances
<1>4. CASE cmd[t].acc \notin accounts
  <2>a. /\ cmd[t].acc \in AccountId /\ cmd[t].amt \in Nat
        /\ balance \in [AccountId -> Nat] /\ IInv
    BY WorkingFacts DEF Working
  <2>1. /\ outcome'[t] = "ok"
        /\ accounts' = accounts \cup {cmd[t].acc}
        /\ password' = [password EXCEPT ![cmd[t].acc] = cmd[t].pw]
        /\ balance' = [balance EXCEPT ![cmd[t].acc] = cmd[t].amt]
    BY <1>1, <1>4 DEF OpenAccount, Answer
  <2>2. Atomic!Answer(cmd[t]) = ReplyRecord(cmd[t], "ok", 0, 0)
    BY <1>1, <1>2, <1>4, Answers DEF BooksAsCommitted
  <2>3. /\ accounts' = Atomic!Accounts(cmd[t])
        /\ password' = Atomic!Passwords(cmd[t])
        /\ balance' = Atomic!Balances(cmd[t])
    BY <1>2, <2>1 DEF BooksAsCommitted, Atomic!Accounts, Atomic!Passwords, Atomic!Balances
  <2>4. ReplyOf(t)' /\ BooksOf(t)' /\ InHand(t)' = cmd[t].amt
    BY <1>1, <1>2, <2>1, <2>2, <2>3, FinishAdvances
  <2>5. Total' = Total - balance[cmd[t].acc] + cmd[t].amt /\ Total \in Nat
    BY <2>a, <2>1, TotalChange
  <2>6. balance[cmd[t].acc] = 0
    BY <1>4, <2>a DEF IInv, ClosedIsEmpty
  <2>7. InHand(t) = 0
    BY <1>2 DEF InHand
  <2> QED
    BY <2>a, <2>4, <2>5, <2>6, <2>7 DEF Advances
<1> QED
  BY <1>3, <1>4

(* What is known at the update of D, W and T                               *)
LEMMA AtUpdate ==
  ASSUME NEW t \in Atm, Working(t), pc[t] = "update"
  PROVE  /\ BooksAsCommitted /\ ~Done(t) /\ ~HalfDone(t) /\ InHand(t) = 0
         /\ cmd[t].op \in {"D", "W", "T"} /\ outcome[t] = "none"
         /\ cmd[t].acc \in accounts /\ cmd[t].pw = password[cmd[t].acc]
         /\ seen[t] = balance[cmd[t].acc]
         /\ cmd[t].op = "T" => cmd[t].tgt \in accounts /\ seenTarget[t] = balance[cmd[t].tgt]
         /\ cmd[t].op # "T" => seenTarget[t] = 0
         /\ cmd[t].op # "D" => cmd[t].amt <= balance[cmd[t].acc]
         /\ Atomic!Answer(cmd[t]) = ReplyRecord(cmd[t], "ok", seen[t], seenTarget[t])
<1>1. /\ AtmInv(t) /\ ReplyOf(t) /\ BooksOf(t) /\ t \notin Service
      /\ cmd[t].op \in {"D", "W", "T"} /\ cmd[t].op \in Ops
      /\ cmd[t].acc \in AccountId /\ cmd[t].amt \in Nat /\ balance \in [AccountId -> Nat]
  BY WorkingFacts DEF OpsAt
<1>2. BooksAsCommitted /\ ~Done(t) /\ ~HalfDone(t) /\ InHand(t) = 0
  BY <1>1 DEF BooksOf, Done, HalfDone, InHand
<1>3. /\ outcome[t] = "none" /\ cmd[t].pw = password[cmd[t].acc]
      /\ cmd[t].op # "T" => seenTarget[t] = 0
  BY <1>1 DEF ReplyOf
<1>4. /\ cmd[t].acc \in accounts /\ seen[t] = balance[cmd[t].acc]
      /\ cmd[t].op = "T" => cmd[t].tgt \in accounts /\ seenTarget[t] = balance[cmd[t].tgt]
      /\ cmd[t].op # "D" => cmd[t].amt <= balance[cmd[t].acc]
  BY <1>1 DEF AtmInv, AccountsFound, CopyCurrent, TargetCurrent, FundsSuffice, Visited
<1>5. Atomic!Answer(cmd[t]) = ReplyRecord(cmd[t], "ok", seen[t], seenTarget[t])
  <2>1. cmd[t].op # "D" => ~(balance[cmd[t].acc] < cmd[t].amt)
    BY <1>1, <1>4
  <2> QED
    BY <1>1, <1>2, <1>3, <1>4, <2>1, Answers DEF BooksAsCommitted
<1> QED
  BY <1>1, <1>2, <1>3, <1>4, <1>5

LEMMA DepositAdvances ==
  ASSUME NEW t \in Atm, Working(t), Deposit(t), cmd[t].op = "D"
  PROVE  Advances(t)
<1>1. /\ pc[t] = "update" /\ pc'[t] = "lock_log" /\ outcome'[t] = "ok"
      /\ UNCHANGED <<accounts, password, seen, seenTarget>>
      /\ balance' = [balance EXCEPT ![cmd[t].acc] = @ + cmd[t].amt]
  BY WorkingFacts DEF Deposit, AddToBalance, Answer, Step, PcType
<1>2. /\ cmd[t].acc \in AccountId /\ cmd[t].amt \in Nat
      /\ balance \in [AccountId -> Nat] /\ IInv
  BY WorkingFacts DEF Working
<1>3. /\ accounts' = Atomic!Accounts(cmd[t])
      /\ password' = Atomic!Passwords(cmd[t])
      /\ balance' = Atomic!Balances(cmd[t])
  BY <1>1, AtUpdate DEF BooksAsCommitted, Atomic!Accounts, Atomic!Passwords, Atomic!Balances
<1>4. ReplyOf(t)' /\ BooksOf(t)' /\ InHand(t)' = cmd[t].amt
  BY <1>1, <1>3, AtUpdate, FinishAdvances
<1>5. Total' = Total - balance[cmd[t].acc] + (balance[cmd[t].acc] + cmd[t].amt) /\ Total \in Nat
  <2>1. balance[cmd[t].acc] + cmd[t].amt \in Nat
    BY <1>2
  <2> QED
    BY <1>1, <1>2, <2>1, TotalChange
<1>6. InHand(t) = 0
  BY <1>1, AtUpdate
<1> QED
  BY <1>2, <1>4, <1>5, <1>6 DEF Advances

LEMMA WithdrawAdvances ==
  ASSUME NEW t \in Atm, Working(t), Withdraw(t), cmd[t].op = "W"
  PROVE  Advances(t)
<1>1. /\ pc[t] = "update" /\ pc'[t] = "lock_log" /\ outcome'[t] = "ok"
      /\ UNCHANGED <<accounts, password, seen, seenTarget>>
      /\ balance' = [balance EXCEPT ![cmd[t].acc] = @ + (-cmd[t].amt)]
  BY WorkingFacts DEF Withdraw, AddToBalance, Answer, Step, PcType
<1>2. /\ cmd[t].acc \in AccountId /\ cmd[t].amt \in Nat
      /\ balance \in [AccountId -> Nat] /\ IInv
  BY WorkingFacts DEF Working
<1>3. /\ accounts' = Atomic!Accounts(cmd[t])
      /\ password' = Atomic!Passwords(cmd[t])
  BY <1>1, AtUpdate DEF BooksAsCommitted, Atomic!Accounts, Atomic!Passwords
<1>4. balance' = Atomic!Balances(cmd[t])
  <2>1. balance[cmd[t].acc] + (-cmd[t].amt) = balance[cmd[t].acc] - cmd[t].amt
    BY <1>2
  <2>2. balance' = [balance EXCEPT ![cmd[t].acc] = @ - cmd[t].amt]
    BY <1>1, <2>1
  <2> QED
    BY <1>1, <2>2, AtUpdate DEF BooksAsCommitted, Atomic!Balances
<1>5. ReplyOf(t)' /\ BooksOf(t)' /\ InHand(t)' = -cmd[t].amt
  BY <1>1, <1>3, <1>4, AtUpdate, FinishAdvances
<1>6. Total' = Total - balance[cmd[t].acc] + (balance[cmd[t].acc] + (-cmd[t].amt)) /\ Total \in Nat
  <2>1. balance[cmd[t].acc] + (-cmd[t].amt) \in Nat
    BY <1>1, <1>2, AtUpdate
  <2> QED
    BY <1>1, <1>2, <2>1, TotalChange
<1>7. InHand(t) = 0
  BY <1>1, AtUpdate
<1> QED
  BY <1>2, <1>5, <1>6, <1>7 DEF Advances

(* The first half of a transfer                                            *)
LEMMA DebitAdvances ==
  ASSUME NEW t \in Atm, Working(t), Debit(t), cmd[t].op = "T"
  PROVE  Advances(t)
<1>1. /\ pc[t] = "update" /\ pc'[t] = "lock_upd_tgt" /\ outcome' = outcome
      /\ UNCHANGED <<accounts, password, seen, seenTarget>>
      /\ balance' = [balance EXCEPT ![cmd[t].acc] = @ + (-cmd[t].amt)]
  BY WorkingFacts DEF Debit, AddToBalance, Proceed, Step, PcType
<1>2. /\ cmd[t].acc \in AccountId /\ cmd[t].amt \in Nat
      /\ balance \in [AccountId -> Nat] /\ IInv /\ cmd' = cmd /\ committed' = committed
  BY WorkingFacts DEF Working
<1>3. balance' = [committed.balance EXCEPT ![cmd[t].acc] = @ - cmd[t].amt]
  <2>1. balance[cmd[t].acc] + (-cmd[t].amt) = balance[cmd[t].acc] - cmd[t].amt
    BY <1>2
  <2>2. balance' = [balance EXCEPT ![cmd[t].acc] = @ - cmd[t].amt]
    BY <1>1, <2>1
  <2> QED
    BY <1>1, <2>2, AtUpdate DEF BooksAsCommitted
<1>4. HalfDone(t)' /\ ~Done(t)'
  BY <1>1 DEF HalfDone, Done
<1>5. BooksOf(t)'
  BY <1>1, <1>2, <1>3, <1>4, AtUpdate DEF BooksOf, BooksAsCommitted
<1>6. ReplyOf(t)'
  BY <1>1, <1>2, AtUpdate, AtomicSame DEF ReplyOf, ReplyRecord
<1>7. Total' = Total - balance[cmd[t].acc] + (balance[cmd[t].acc] + (-cmd[t].amt)) /\ Total \in Nat
  <2>1. balance[cmd[t].acc] + (-cmd[t].amt) \in Nat
    BY <1>1, <1>2, AtUpdate
  <2> QED
    BY <1>1, <1>2, <2>1, TotalChange
<1>8. InHand(t) = 0 /\ InHand(t)' = -cmd[t].amt
  BY <1>1, <1>2, <1>4, AtUpdate DEF InHand
<1> QED
  BY <1>2, <1>5, <1>6, <1>7, <1>8 DEF Advances

(* And the second                                                          *)
LEMMA CreditAdvances ==
  ASSUME NEW t \in Atm, Working(t), Credit(t), cmd[t].op = "T"
  PROVE  Advances(t)
<1>1. /\ pc[t] = "update_tgt" /\ pc'[t] = "lock_log" /\ outcome'[t] = "ok"
      /\ UNCHANGED <<accounts, password, seen, seenTarget>>
      /\ balance' = [balance EXCEPT ![cmd[t].tgt] = @ + cmd[t].amt]
  BY WorkingFacts DEF Credit, AddToBalance, Answer, Step, PcType
<1>2. /\ cmd[t].acc \in AccountId /\ cmd[t].tgt \in AccountId /\ cmd[t].amt \in Nat
      /\ balance \in [AccountId -> Nat] /\ IInv /\ ReplyOf(t) /\ BooksOf(t)
  BY WorkingFacts DEF Working
<1>3. /\ HalfDone(t) /\ ~Done(t)
      /\ accounts = committed.accounts /\ password = committed.password
      /\ balance = [committed.balance EXCEPT ![cmd[t].acc] = @ - cmd[t].amt]
      /\ Atomic!Answer(cmd[t]) = ReplyRecord(cmd[t], "ok", seen[t], seenTarget[t])
  BY <1>1, <1>2 DEF HalfDone, Done, BooksOf, ReplyOf, ReplyRecord
<1>4. /\ accounts' = Atomic!Accounts(cmd[t])
      /\ password' = Atomic!Passwords(cmd[t])
      /\ balance' = Atomic!Balances(cmd[t])
  BY <1>1, <1>3 DEF Atomic!Accounts, Atomic!Passwords, Atomic!Balances
<1>5. ReplyOf(t)' /\ BooksOf(t)' /\ InHand(t)' = 0
  BY <1>1, <1>3, <1>4, FinishAdvances
<1>6. Total' = Total - balance[cmd[t].tgt] + (balance[cmd[t].tgt] + cmd[t].amt) /\ Total \in Nat
  <2>1. balance[cmd[t].tgt] + cmd[t].amt \in Nat
    BY <1>2
  <2> QED
    BY <1>1, <1>2, <2>1, TotalChange
<1>7. InHand(t) = -cmd[t].amt
  BY <1>3 DEF InHand
<1> QED
  BY <1>2, <1>5, <1>6, <1>7 DEF Advances

LEMMA EraseAdvances ==
  ASSUME NEW t \in Atm, Working(t), EraseAccount(t), cmd[t].op = "Q"
  PROVE  Advances(t)
<1>1. /\ pc[t] = "erase" /\ pc'[t] = "leave" /\ UNCHANGED <<seen, seenTarget, outcome>>
      /\ accounts' = accounts \ {cmd[t].acc}
      /\ password' = [password EXCEPT ![cmd[t].acc] = 0]
      /\ balance' = [balance EXCEPT ![cmd[t].acc] = 0]
  BY WorkingFacts DEF EraseAccount, Step, PcType, copies
<1>2. /\ cmd[t].acc \in AccountId /\ balance \in [AccountId -> Nat] /\ IInv
      /\ ReplyOf(t) /\ BooksOf(t) /\ committed' = committed /\ cmd' = cmd
      /\ cmd[t].op \in Ops
  BY WorkingFacts DEF Working
<1>3. /\ BooksAsCommitted /\ ~Done(t) /\ ~HalfDone(t) /\ outcome[t] = "ok"
      /\ Reply(t) = Atomic!Answer(cmd[t]) /\ seenTarget[t] = 0
  BY <1>1, <1>2 DEF BooksOf, ReplyOf, Done, HalfDone
<1>4. /\ accounts' = Atomic!Accounts(cmd[t])
      /\ password' = Atomic!Passwords(cmd[t])
      /\ balance' = Atomic!Balances(cmd[t])
  BY <1>1, <1>3 DEF BooksAsCommitted, Atomic!Accounts, Atomic!Passwords, Atomic!Balances
<1>5. Done(t)' /\ ~HalfDone(t)'
  BY <1>1, <1>2, <1>3 DEF Done, HalfDone
<1>6. BooksOf(t)'
  <2>1. /\ accounts' = Atomic!Accounts(cmd[t])'
        /\ password' = Atomic!Passwords(cmd[t])'
        /\ balance' = Atomic!Balances(cmd[t])'
    BY <1>2, <1>4 DEF Atomic!Accounts, Atomic!Passwords, Atomic!Balances
  <2> QED
    BY <1>5, <2>1 DEF BooksOf
<1>7. ReplyOf(t)'
  BY <1>1, <1>2, <1>3, AtomicSame DEF ReplyOf, Reply, HalfDone
<1>8. seen[t] = balance[cmd[t].acc]
  <2>1. Reply(t).what = "ok" /\ Reply(t).source = seen[t]
    BY <1>3 DEF Reply
  <2>2. Atomic!Answer(cmd[t]).what = "ok" /\ Atomic!Answer(cmd[t]).source = seen[t]
    BY <1>3, <2>1
  <2>3. Atomic!Verdict(cmd[t]) = "ok"
    BY <2>2 DEF Atomic!Answer
  <2>4. Atomic!Answer(cmd[t]).source = committed.balance[cmd[t].acc]
    BY <2>3 DEF Atomic!Answer
  <2> QED
    BY <1>3, <2>2, <2>4 DEF BooksAsCommitted
<1>9. InHand(t) = 0 /\ InHand(t)' = -seen[t]
  BY <1>1, <1>2, <1>3, <1>5 DEF InHand, PaidIn
<1>10. Total' = Total - balance[cmd[t].acc] + 0 /\ Total \in Nat
  BY <1>1, <1>2, TotalChange
<1> QED
  BY <1>2, <1>6, <1>7, <1>8, <1>9, <1>10 DEF Advances

(* Every step between entering the bank and leaving it                     *)
LEMMA InsideAdvances ==
  ASSUME NEW t \in Atm, Working(t), AtmStep(t)
  PROVE  Advances(t)
<1>a. /\ PcType /\ t \in Thread /\ InBank(t) /\ InBank(t)'
      /\ cmd[t].op \in Ops /\ cmd[t].op \in OpsAt(pc[t])
  BY WorkingFacts DEF Working
<1>1. ASSUME NEW from, NEW to, Step(t, from, to)
      PROVE  pc[t] = from /\ pc'[t] = to
  BY <1>a, <1>1, MoveOf
<1>2. ~all_functions_caller(t) /\ ~EnterBank(t) /\ ~Return(t)
  BY <1>a, <1>1 DEF all_functions_caller, ReadLine, EndOfFile, EnterBank, Return, LockGlobal,
     UnlockGlobal, Step, InBank, OutsideBank
<1>3. ASSUME LockAccount(t) \/ LockTarget(t) \/ LockWithdrawal(t) \/ LockCredit(t) \/ TakeLog(t)
      PROVE  Advances(t)
  <2>1. /\ UNCHANGED <<books, copies>>
        /\ <<pc[t], pc'[t]>> \in { <<"lock_acc", "read_acc">>, <<"lock_tgt", "read_tgt">>,
                                   <<"lock_upd", "update">>, <<"lock_upd_tgt", "update_tgt">>,
                                   <<"lock_log", "log">> }
    BY <1>1, <1>3 DEF LockAccount, LockTarget, LockWithdrawal, LockCredit, LockBalance,
       TakeLog, LockLog
  <2>2. <<pc[t], pc'[t]>> \in Moves /\ pc[t] # "check" /\ pc[t] # "log"
    BY <2>1 DEF Moves
  <2> QED
    BY <2>1, <2>2, MoveAdvances
<1>4. ASSUME LockDeposit(t), cmd[t].op = "D" PROVE Advances(t)
  <2>1. UNCHANGED <<books, copies>> /\ pc[t] = "check" /\ pc'[t] = "update"
    BY <1>1, <1>4 DEF LockDeposit, LockBalance
  <2> QED
    BY <1>4, <2>1, MoveAdvances DEF Moves
<1>5. ASSUME NEW to, WriteLog(t, to),
             to = IF cmd[t].op = "Q" /\ outcome[t] = "ok" THEN "erase" ELSE "leave"
      PROVE  Advances(t)
  <2>1. UNCHANGED <<books, copies>> /\ pc[t] = "log" /\ pc'[t] = to
    BY <1>1, <1>5 DEF WriteLog, UnlockLog
  <2>2. <<pc[t], pc'[t]>> \in Moves /\ (pc'[t] = "erase" <=> cmd[t].op = "Q" /\ outcome[t] = "ok")
    BY <1>5, <2>1 DEF Moves
  <2> QED
    BY <2>1, <2>2, MoveAdvances
<1>6. ASSUME NEW op \in Ops \ {"O"}, cmd[t].op = op, Visit(t) PROVE Advances(t)
  BY <1>2, <1>3, <1>6, FindAdvances, CopyAdvances DEF Visit
<1>7. ASSUME Report(t), cmd[t].op # "Q" PROVE Advances(t)
  BY <1>2, <1>3, <1>5, <1>7 DEF Report
<1>8. ASSUME O_function(t) PROVE Advances(t)
  BY <1>2, <1>7, <1>8, OpenAdvances DEF O_function
<1>9. ASSUME D_function(t) PROVE Advances(t)
  BY <1>4, <1>6, <1>7, <1>9, DepositAdvances DEF D_function, Ops
<1>10. ASSUME W_function(t) PROVE Advances(t)
  <2>1. cmd[t].op = "W" /\ cmd[t].op \in Ops \ {"O"}
    BY <1>10 DEF W_function, Ops
  <2>2. CheckFunds(t, "check") => Advances(t)
    BY <2>1, FundsAdvance
  <2>3. Visit(t) => Advances(t)
    BY <1>6, <2>1
  <2>4. Withdraw(t) => Advances(t)
    BY <2>1, WithdrawAdvances
  <2> QED
    BY <1>3, <1>7, <1>10, <2>1, <2>2, <2>3, <2>4 DEF W_function
<1>11. ASSUME B_function(t) PROVE Advances(t)
  BY <1>6, <1>7, <1>11, TellAdvances DEF B_function, Ops
<1>12. ASSUME Q_function(t) PROVE Advances(t)
  BY <1>2, <1>3, <1>5, <1>6, <1>12, TellAdvances, EraseAdvances DEF Q_function, Ops
<1>13. ASSUME T_function(t) PROVE Advances(t)
  BY <1>3, <1>6, <1>7, <1>13, FindTargetAdvances, CopyTargetAdvances, FundsAdvance,
     DebitAdvances, CreditAdvances DEF T_function, Ops
<1> QED
  BY <1>2, <1>8, <1>9, <1>10, <1>11, <1>12, <1>13 DEF AtmStep

-----------------------------------------------------------------------------
(***************************************************************************)
(* What a step leaves alone                                                *)
(***************************************************************************)
LEMMA AtmLeftAlone ==
  ASSUME NEW u \in Atm, AtmHistory(u), Untouched(u), reply'[u] = reply[u],
         InBank(u) => /\ UNCHANGED <<accounts, password, balance>> /\ committed' = committed
                      /\ bankBalance' + tot' = bankBalance + tot
  PROVE  AtmHistory(u)'
<1>a. /\ pc'[u] = pc[u] /\ cmd'[u] = cmd[u] /\ seen'[u] = seen[u]
      /\ seenTarget'[u] = seenTarget[u] /\ outcome'[u] = outcome[u]
  BY DEF Untouched
<1>1. CASE ~InBank(u)
  <2>1. ~InBank(u)' /\ pc[u] \in OutsideBank
    BY <1>a, <1>1 DEF InBank
  <2>2. ReplyOf(u)'
    BY <1>a, <2>1 DEF AtmHistory, ReplyOf, OutsideBank, HalfDone
  <2> QED
    BY <1>a, <2>1, <2>2 DEF AtmHistory
<1>2. CASE InBank(u)
  <2>a. /\ accounts' = accounts /\ password' = password /\ balance' = balance
        /\ committed' = committed /\ bankBalance' + tot' = bankBalance + tot
    BY <1>2
  <2>1. /\ Atomic!Answer(cmd[u])' = Atomic!Answer(cmd[u])
        /\ Atomic!Accounts(cmd[u])' = Atomic!Accounts(cmd[u])
        /\ Atomic!Passwords(cmd[u])' = Atomic!Passwords(cmd[u])
        /\ Atomic!Balances(cmd[u])' = Atomic!Balances(cmd[u])
    BY <1>a, <2>a
    DEF Atomic!Answer, Atomic!Verdict, Atomic!Accounts, Atomic!Passwords, Atomic!Balances
  <2>2. ReplyOf(u)'
    BY <1>a, <2>a, <2>1 DEF AtmHistory, ReplyOf, Reply, HalfDone
  <2>3. (Done(u)' <=> Done(u)) /\ (HalfDone(u)' <=> HalfDone(u)) /\ ~(Done(u) /\ HalfDone(u))
    BY <1>a DEF Done, HalfDone
  <2>4. BooksOf(u)'
    BY <1>a, <1>2, <2>a, <2>1, <2>3 DEF AtmHistory, BooksOf, BooksAsCommitted
  <2> QED
    BY <1>a, <1>2, <2>a, <2>2, <2>4 DEF AtmHistory
<1> QED
  BY <1>1, <1>2

LEMMA CommissionLeftAlone ==
  ASSUME CommissionHistory, pc'[Commission] = pc[Commission],
         UNCHANGED <<cursor[Commission], rate, tot>>,
         InBank(Commission) => UNCHANGED <<accounts, password, balance, committed, bankBalance>>
  PROVE  CommissionHistory'
<1>1. CASE ~InBank(Commission)
  BY <1>1 DEF CommissionHistory, InBank
<1>2. CASE InBank(Commission)
  <2>1. Charged' = Charged /\ Fees' = Fees
    BY <1>2 DEF Charged, Fees
  <2>2. SumOver(Fees, Charged)' = SumOver(Fees, Charged)
    BY <2>1
  <2> QED
    BY <1>2, <2>1, <2>2 DEF CommissionHistory, InBank
<1> QED
  BY <1>1, <1>2

LEMMA StatusLeftAlone ==
  ASSUME StatusHistory, pc'[Status] = pc[Status],
         InBank(Status) => /\ UNCHANGED <<accounts, password, balance, committed>>
                           /\ bankBalance' + tot' = bankBalance + tot
  PROVE  StatusHistory'
BY DEF StatusHistory, InBank, BooksAsCommitted

(* What Remember does to the replies when one thread steps                 *)
LEMMA Remembered ==
  ASSUME HistoryType, Remember, NEW t \in Thread, \A u \in Thread \ {t} : pc'[u] = pc[u]
  PROVE  /\ DOMAIN reply' = Atm /\ reply' = [u \in Atm |-> reply'[u]]
         /\ \A u \in Atm \ {t} : reply'[u] = reply[u]
         /\ t \in Atm => reply'[t] = IF Returns(t) THEN Reply(t)
                                     ELSE IF pc'[t] = pc[t] THEN reply[t] ELSE NoReply
         /\ cash' = IF t \in Atm /\ Returns(t) THEN cash + PaidIn(t) ELSE cash
         /\ FreeHistory'
         /\ globalMutex' # Free => committed' = committed
<1>1. ASSUME NEW u \in Atm
      PROVE  reply'[u] = IF Returns(u) THEN Reply(u)
                         ELSE IF pc'[u] = pc[u] THEN reply[u] ELSE NoReply
  BY DEF Remember, Returns
<1>2. \A u \in Atm \ {t} : ~Returns(u) /\ pc'[u] = pc[u]
  BY ThreadKinds DEF Returns
<1>3. DOMAIN reply' = Atm /\ reply' = [u \in Atm |-> reply'[u]]
  BY DEF Remember
<1>4. cash' = IF t \in Atm /\ Returns(t) THEN cash + PaidIn(t) ELSE cash
  BY <1>2 DEF Remember
<1>5. FreeHistory' /\ (globalMutex' # Free => committed' = committed)
  BY DEF Remember, FreeHistory
<1> QED
  BY <1>1, <1>2, <1>3, <1>4, <1>5

LEMMA CommittedType ==
  ASSUME IInv', HistoryType, Remember
  PROVE  committed' \in [accounts : SUBSET AccountId, password : [AccountId -> Nat],
                         balance : [AccountId -> Nat], gained : Int]
<1>1. /\ accounts' \subseteq AccountId
      /\ password' \in [AccountId -> Nat]
      /\ balance' \in [AccountId -> Nat]
      /\ bankBalance' + tot' \in Int
  <2>1. /\ accounts' \subseteq AccountId /\ password' \in [AccountId -> Nat]
        /\ balance' \in [AccountId -> Int]
        /\ bankBalance' \in Int /\ tot' \in Int
    BY DEF IInv, TypeOK, BooksType, BankType
  <2>2. \A a \in AccountId : balance'[a] \in Nat
    BY <2>1 DEF IInv, NonNegative
  <2> QED
    BY <2>1, <2>2
<1> QED
  BY <1>1 DEF Remember, HistoryType, Books

-----------------------------------------------------------------------------
(***************************************************************************)
(* The steps of an ATM                                                     *)
(***************************************************************************)

(* An ATM enters the bank, works inside, leaves it, or is outside.         *)
LEMMA AtmCases ==
  ASSUME IInv, NEW t \in Atm, AtmStep(t)
  PROVE  \/ all_functions_caller(t)
         \/ EnterBank(t)
         \/ Return(t)
         \/ InBank(t) /\ InBank(t)' /\ cmd' = cmd
<1>a. PcType /\ t \in Thread
  BY ThreadKinds DEF IInv, TypeOK
<1>1. ASSUME NEW from, NEW to, Step(t, from, to), from \notin OutsideBank, to \notin OutsideBank
      PROVE  InBank(t) /\ InBank(t)'
  BY <1>a, <1>1, MoveOf DEF InBank
<1> DEFINE Inside == InBank(t) /\ InBank(t)' /\ cmd' = cmd
<1>b. \A what \in {"find", "lock_acc", "read_acc", "check", "lock_tgt", "read_tgt", "funds",
                   "lock_upd", "update", "lock_upd_tgt", "update_tgt", "lock_log", "log",
                   "erase", "leave"} : what \notin OutsideBank
  BY DEF OutsideBank
<1> HIDE DEF Inside
<1>2. Visit(t) => EnterBank(t) \/ Inside
  BY <1>1, <1>b DEF Visit, FindAccount, LockAccount, CopyAccount, Proceed, Answer, Inside
<1>3. TakeLog(t) => Inside
  BY <1>1, <1>b DEF TakeLog, LockLog, Inside
<1>4. ASSUME NEW to \in {"leave", "erase"}, WriteLog(t, to) PROVE Inside
  BY <1>1, <1>4, <1>b DEF WriteLog, UnlockLog, Inside
<1>5. Report(t) => Return(t) \/ Inside
  BY <1>3, <1>4 DEF Report
<1>6. OpenAccount(t) \/ TellBalance(t) \/ EraseAccount(t) => Inside
  BY <1>1, <1>b DEF OpenAccount, TellBalance, EraseAccount, Answer, Inside
<1>7. LockDeposit(t) \/ LockWithdrawal(t) \/ LockCredit(t) \/ LockTarget(t) => Inside
  BY <1>1, <1>b DEF LockDeposit, LockWithdrawal, LockCredit, LockTarget, LockBalance, Inside
<1>8. Deposit(t) \/ Withdraw(t) \/ Debit(t) \/ Credit(t) => Inside
  BY <1>1, <1>b DEF Deposit, Withdraw, Debit, Credit, AddToBalance, Answer, Proceed, Inside
<1>9. CheckFunds(t, "check") \/ CheckFunds(t, "funds") \/ FindTarget(t) \/ CopyTarget(t) => Inside
  BY <1>1, <1>b DEF CheckFunds, FindTarget, CopyTarget, Answer, Proceed, Inside
<1>10. Q_function(t) => EnterBank(t) \/ Return(t) \/ Inside
  BY <1>2, <1>3, <1>4, <1>6 DEF Q_function
<1> QED
  BY <1>2, <1>5, <1>6, <1>7, <1>8, <1>9, <1>10
  DEF AtmStep, O_function, D_function, W_function, B_function, T_function, Inside

(* What is left to show of a step of an ATM                                *)
LEMMA AtmRest ==
  ASSUME IInv, IInv', HistoryInv, NEW t \in Atm, AtmStep(t), Remember,
         AtmHistory(t)', MoneyInv'
  PROVE  HistoryInv'
<1>a. /\ t \in Thread /\ Atm \subseteq Thread
      /\ Status \in Thread \ {t} /\ Commission \in Thread \ {t}
      /\ Status # Free /\ Commission # Free
  BY ThreadKinds
<1>b. /\ \A u \in Atm \ {t} : Untouched(u)
      /\ \A u \in Thread \ {t} : pc'[u] = pc[u]
      /\ UNCHANGED books \/ InBank(t)
      /\ UNCHANGED <<rate, tot, bankBalance, cursor>>
  BY AtmFrame, ThreadKinds DEF Untouched, bankVars, serviceVars
<1>c. /\ HistoryType /\ CommissionHistory /\ StatusHistory
      /\ \A u \in Atm : AtmHistory(u)
  BY DEF HistoryInv
<1>d. /\ DOMAIN reply' = Atm /\ reply' = [u \in Atm |-> reply'[u]]
      /\ \A u \in Atm \ {t} : reply'[u] = reply[u]
      /\ cash' = IF Returns(t) THEN cash + PaidIn(t) ELSE cash
      /\ FreeHistory'
      /\ globalMutex' # Free => committed' = committed
  BY <1>a, <1>b, <1>c, Remembered
<1>1. ASSUME NEW u \in Thread \ {t}, InBank(u)
      PROVE  UNCHANGED <<accounts, password, balance>> /\ committed' = committed
  <2>1. globalMutex = u /\ u # t
    BY <1>1 DEF IInv, Ownership
  <2>2. ~InBank(t)
    BY <1>a, <2>1 DEF IInv, Ownership
  <2>3. InBank(u)'
    BY <1>b, <1>1 DEF InBank
  <2>4. globalMutex' = u
    BY <1>1, <2>3 DEF IInv, Ownership
  <2> QED
    BY <1>b, <1>d, <2>2, <2>4, ThreadKinds DEF books
<1>2. ASSUME NEW u \in Atm PROVE AtmHistory(u)'
  <2>1. CASE u = t
    BY <2>1
  <2>2. CASE u # t
    <3>1. bankBalance' + tot' = bankBalance + tot
      BY <1>b
    <3> QED
      BY <1>a, <1>b, <1>c, <1>d, <1>1, <2>2, <3>1, AtmLeftAlone
  <2> QED
    BY <2>1, <2>2
<1>3. CommissionHistory'
  <2>1. InBank(Commission) => UNCHANGED <<accounts, password, balance, committed>>
    BY <1>a, <1>1
  <2> QED
    BY <1>a, <1>b, <1>c, <2>1, CommissionLeftAlone
<1>4. StatusHistory'
  <2>1. InBank(Status) => UNCHANGED <<accounts, password, balance, committed>>
    BY <1>a, <1>1
  <2> QED
    BY <1>a, <1>b, <1>c, <2>1, StatusLeftAlone
<1>5. HistoryType'
  <2>1. cash' \in Int
    <3>1. Returns(t) => PaidIn(t) \in Int
      <4>1. Returns(t) => cmd[t].amt \in Nat
        BY InBankCommand DEF Returns, InBank, OutsideBank
      <4>2. seen[t] \in Int
        BY DEF IInv, TypeOK, AtmType
      <4> QED
        BY <4>1, <4>2 DEF PaidIn
    <3> QED
      BY <1>c, <1>d, <3>1 DEF HistoryType
  <2> QED
    BY <1>c, <1>d, <2>1, CommittedType DEF HistoryType
<1> QED
  BY <1>d, <1>2, <1>3, <1>4, <1>5 DEF HistoryInv

(* A step that commits nothing is, to the atomic bank, that a client goes  *)
(* on to its next line, or no step.                                        *)
LEMMA GoesOn ==
  ASSUME HistoryType, NEW t \in Atm, committed' = committed,
         reply' = [u \in Atm |-> reply'[u]],
         \A u \in Atm \ {t} : reply'[u] = reply[u],
         reply'[t] = reply[t] \/ reply'[t] = NoReply
  PROVE  [Atomic!Next]_(Atomic!vars)
<1>a. reply = [u \in Atm |-> reply[u]]
  BY DEF HistoryType
<1>b. Atomic!NoReply = NoReply
  BY DEF Atomic!NoReply, NoReply
<1>1. CASE reply'[t] = reply[t]
  <2>1. reply' = reply
    BY <1>a, <1>1
  <2> QED
    BY <2>1 DEF Atomic!vars
<1>2. CASE reply'[t] = NoReply /\ reply[t] # NoReply
  <2>1. reply' = [reply EXCEPT ![t] = NoReply]
    BY <1>a, <1>2
  <2>2. Atomic!GoOn(t)
    BY <1>b, <1>2, <2>1 DEF Atomic!GoOn
  <2> QED
    BY <2>2 DEF Atomic!Next
<1> QED
  BY <1>1, <1>2

(* Whom the owner of the bank's mutex is                                   *)
LEMMA OwnerInBank ==
  ASSUME IInv, NEW u \in Thread
  PROVE  (globalMutex = u <=> InBank(u)) /\ globalMutex \in Thread \cup {Free}
BY DEF IInv, Ownership, TypeOK, LocksType

(* The sum keeps adding up while nobody inside the bank moves.             *)
LEMMA MoneyLeftAlone ==
  ASSUME MoneyInv, NEW S \in SUBSET Atm, \A u \in S : Untouched(u),
         globalMutex' = globalMutex, globalMutex \in Atm => globalMutex \in S,
         UNCHANGED <<balance, bankBalance, tot, cash>>
  PROVE  MoneyInv'
<1>1. \A u \in S : InHand(u)' = InHand(u)
  BY DEF Untouched, InHand, Done, HalfDone, PaidIn
<1>2. Total' = Total
  BY DEF Total
<1> QED
  BY <1>1, <1>2 DEF MoneyInv

(* The commit point when the books do not change                           *)
LEMMA CommitKept ==
  ASSUME HistoryInv, Remember, UNCHANGED <<accounts, password, balance>>,
         bankBalance' + tot' = bankBalance + tot,
         globalMutex' = Free => globalMutex = Free \/ committed = Books
  PROVE  committed' = committed
<1>1. Books' = Books
  BY DEF Books
<1> QED
  BY <1>1 DEF Remember, HistoryInv, FreeHistory

LEMMA CallerHistory ==
  ASSUME IInv, IInv', HistoryInv, NEW t \in Atm, AtmStep(t), all_functions_caller(t), Remember
  PROVE  HistoryInv' /\ [Atomic!Next]_(Atomic!vars)
<1>a. /\ t \in Thread /\ PcType /\ AtmHistory(t) /\ HistoryType /\ MoneyInv
  BY ThreadKinds DEF IInv, TypeOK, HistoryInv
<1>b. /\ pc[t] = "getline" /\ pc'[t] \in {"getline", "lock_global", "exited"}
      /\ UNCHANGED <<accounts, password, balance, globalMutex, seen, seenTarget, outcome>>
  <2>1. Step(t, "getline", "getline") \/ Step(t, "getline", "lock_global")
        \/ Step(t, "getline", "exited")
    BY DEF all_functions_caller, ReadLine, EndOfFile
  <2>2. UNCHANGED <<books, locks, copies>>
    BY DEF all_functions_caller, ReadLine, EndOfFile
  <2> QED
    BY <1>a, <2>1, <2>2, MoveOf DEF books, locks, copies
<1>c. /\ \A u \in Atm \ {t} : Untouched(u)
      /\ \A u \in Thread \ {t} : pc'[u] = pc[u]
      /\ UNCHANGED <<bankBalance, tot>>
  BY AtmFrame, ThreadKinds DEF Untouched, bankVars
<1>d. /\ reply' = [u \in Atm |-> reply'[u]]
      /\ \A u \in Atm \ {t} : reply'[u] = reply[u]
      /\ reply'[t] = IF pc'[t] = pc[t] THEN reply[t] ELSE NoReply
      /\ cash' = cash
  BY <1>a, <1>b, <1>c, Remembered DEF Returns
<1>1. AtmHistory(t)'
  <2>1. ReplyOf(t)'
    BY <1>a, <1>b DEF AtmHistory, ReplyOf, HalfDone
  <2>2. ~InBank(t)'
    BY <1>b DEF InBank, OutsideBank
  <2> QED
    BY <1>a, <1>b, <1>d, <2>1, <2>2 DEF AtmHistory
<1>2. MoneyInv'
  <2>1. globalMutex # t
    BY <1>a, <1>b, OwnerInBank DEF InBank, OutsideBank
  <2> QED
    BY <1>a, <1>b, <1>c, <1>d, <2>1, MoneyLeftAlone
<1>3. committed' = committed
  BY <1>b, <1>c, CommitKept
<1>4. [Atomic!Next]_(Atomic!vars)
  BY <1>a, <1>d, <1>3, GoesOn
<1> QED
  BY <1>1, <1>2, <1>4, AtmRest

LEMMA EnterHistory ==
  ASSUME IInv, IInv', HistoryInv, NEW t \in Atm, AtmStep(t), EnterBank(t), Remember
  PROVE  HistoryInv' /\ [Atomic!Next]_(Atomic!vars)
<1>a. /\ t \in Thread /\ PcType /\ AtmHistory(t) /\ HistoryType /\ MoneyInv /\ FreeHistory
      /\ t # Free /\ Free \notin Atm
  BY ThreadKinds DEF IInv, TypeOK, HistoryInv
<1>b. /\ pc[t] = "lock_global" /\ pc'[t] = "find"
      /\ globalMutex = Free /\ globalMutex' = t
      /\ UNCHANGED <<accounts, password, balance, seen, seenTarget, outcome, cmd>>
  BY <1>a, MoveOf DEF EnterBank, LockGlobal, books, copies
<1>c. /\ \A u \in Thread \ {t} : pc'[u] = pc[u]
      /\ UNCHANGED <<bankBalance, tot>>
  BY AtmFrame, ThreadKinds DEF Untouched, bankVars
<1>d. /\ reply' = [u \in Atm |-> reply'[u]]
      /\ \A u \in Atm \ {t} : reply'[u] = reply[u]
      /\ reply'[t] = NoReply /\ cash' = cash /\ committed' = committed
  BY <1>a, <1>b, <1>c, Remembered DEF Returns
<1>1. AtmHistory(t)'
  <2>1. ReplyOf(t)'
    BY <1>a, <1>b DEF AtmHistory, ReplyOf, HalfDone
  <2>2. BooksOf(t)'
    BY <1>a, <1>b, <1>d DEF FreeHistory, BooksOf, Books, BooksAsCommitted, Done, HalfDone
  <2>3. bankBalance' + tot' = committed'.gained
    BY <1>a, <1>b, <1>c, <1>d DEF FreeHistory, Books
  <2> QED
    BY <1>d, <2>1, <2>2, <2>3 DEF AtmHistory
<1>2. MoneyInv'
  <2>1. InHand(t)' = 0
    BY <1>b DEF InHand, Done, HalfDone
  <2>2. Total' = Total
    BY <1>b DEF Total
  <2> QED
    BY <1>a, <1>b, <1>c, <1>d, <2>1, <2>2 DEF MoneyInv
<1>3. [Atomic!Next]_(Atomic!vars)
  BY <1>a, <1>d, GoesOn
<1> QED
  BY <1>1, <1>2, <1>3, AtmRest

LEMMA InsideHistory ==
  ASSUME IInv, IInv', HistoryInv, NEW t \in Atm, AtmStep(t), Remember,
         InBank(t), InBank(t)', cmd' = cmd
  PROVE  HistoryInv' /\ [Atomic!Next]_(Atomic!vars)
<1>a. /\ t \in Thread /\ AtmHistory(t) /\ HistoryType /\ MoneyInv
      /\ globalMutex = t /\ globalMutex' = t /\ t # Free
  BY ThreadKinds DEF IInv, Ownership, HistoryInv
<1>b. /\ \A u \in Thread \ {t} : pc'[u] = pc[u]
      /\ UNCHANGED <<bankBalance, tot>>
  BY AtmFrame, ThreadKinds DEF Untouched, bankVars
<1>c. pc[t] # "getline" /\ pc'[t] # "getline"
  BY DEF InBank, OutsideBank
<1>d. /\ reply' = [u \in Atm |-> reply'[u]]
      /\ \A u \in Atm \ {t} : reply'[u] = reply[u]
      /\ reply'[t] = IF pc'[t] = pc[t] THEN reply[t] ELSE NoReply
      /\ cash' = cash /\ committed' = committed
  BY <1>a, <1>b, <1>c, Remembered DEF Returns
<1>e. reply[t] = NoReply
  BY <1>a, <1>c DEF AtmHistory
<1>1. Advances(t)
  BY <1>d, InsideAdvances DEF Working
<1>2. AtmHistory(t)'
  BY <1>a, <1>b, <1>d, <1>e, <1>1 DEF AtmHistory, Advances
<1>3. MoneyInv'
  <2>1. Total \in Nat /\ InHand(t) \in Int /\ InHand(t)' \in Int
    <3>1. InHand(t) \in Int
      BY InBankCommand DEF IInv, TypeOK, AtmType, InHand, PaidIn
    <3>2. InHand(t)' \in Int
      <4>1. cmd'[t].amt \in Nat /\ seen'[t] \in Int
        BY InBankCommand DEF IInv, TypeOK, AtmType
      <4> QED
        BY <4>1 DEF InHand, PaidIn
    <3> QED
      BY <3>1, <3>2, TotalIsNat
  <2>2. bankBalance \in Int /\ tot \in Int /\ cash \in Int
    BY <1>a DEF IInv, TypeOK, BankType, HistoryType
  <2>3. Total' = Total + InHand(t)' - InHand(t)
    BY <1>1 DEF Advances
  <2>4. Total + bankBalance + tot = cash + InHand(t)
    BY <1>a DEF MoneyInv
  <2>5. Total' + bankBalance' + tot' = cash' + InHand(t)'
    BY <1>b, <1>d, <2>1, <2>2, <2>3, <2>4
  <2> QED
    BY <1>a, <2>5 DEF MoneyInv
<1>4. [Atomic!Next]_(Atomic!vars)
  BY <1>a, <1>d, <1>e, GoesOn
<1> QED
  BY <1>2, <1>3, <1>4, AtmRest

(* An ATM that leaves the bank commits its command.                        *)
LEMMA ReturnHistory ==
  ASSUME IInv, IInv', HistoryInv, NEW t \in Atm, AtmStep(t), Return(t), Remember
  PROVE  HistoryInv' /\ [Atomic!Next]_(Atomic!vars)
<1>a. /\ t \in Thread /\ PcType /\ AtmType /\ AtmHistory(t) /\ HistoryType /\ MoneyInv
      /\ t # Free /\ Free \notin Atm
  BY ThreadKinds DEF IInv, TypeOK, HistoryInv
<1>b. /\ pc[t] = "leave" /\ pc'[t] = "getline" /\ globalMutex' = Free
      /\ UNCHANGED <<accounts, password, balance>>
      /\ seen'[t] = 0 /\ seenTarget'[t] = 0 /\ outcome'[t] = "none"
  BY <1>a, MoveOf DEF Return, UnlockGlobal, books, AtmType
<1>c. /\ \A u \in Thread \ {t} : pc'[u] = pc[u]
      /\ UNCHANGED <<bankBalance, tot>>
  BY AtmFrame, ThreadKinds DEF Untouched, bankVars
<1>d. /\ reply' = [u \in Atm |-> reply'[u]]
      /\ \A u \in Atm \ {t} : reply'[u] = reply[u]
      /\ reply'[t] = Reply(t) /\ cash' = cash + PaidIn(t)
  BY <1>a, <1>b, <1>c, Remembered DEF Returns
<1>e. committed' = Books'
  BY <1>b DEF Remember
<1>f. /\ InBank(t) /\ globalMutex = t /\ cmd[t] \in Command /\ cmd[t].op \in Ops
      /\ cmd[t].amt \in Nat
  <2>1. InBank(t)
    BY <1>b DEF InBank, OutsideBank
  <2> QED
    BY <1>a, <1>b, <2>1, InBankCommand, OwnerInBank DEF OpsAt, Ops
<1>g. /\ Reply(t) = Atomic!Answer(cmd[t]) /\ reply[t] = NoReply
      /\ BooksOf(t) /\ bankBalance + tot = committed.gained /\ ~HalfDone(t)
  BY <1>a, <1>b, <1>f DEF AtmHistory, ReplyOf, HalfDone
<1>h. Done(t) <=> outcome[t] = "ok"
  BY <1>b DEF Done
<1>1. AtmHistory(t)'
  BY <1>b DEF AtmHistory, ReplyOf, HalfDone, InBank, OutsideBank
<1>2. MoneyInv'
  <2>1. InHand(t) = PaidIn(t)
    BY <1>g, <1>h DEF InHand, PaidIn
  <2>2. Total' = Total
    BY <1>b DEF Total
  <2>3. Total + bankBalance + tot = cash + PaidIn(t)
    BY <1>a, <1>f, <2>1 DEF MoneyInv
  <2>4. cash + PaidIn(t) \in Int
    BY <1>a, <1>f DEF PaidIn, AtmType, HistoryType
  <2>5. Total' + bankBalance' + tot' = cash' + 0
    BY <1>c, <1>d, <2>2, <2>3, <2>4
  <2> QED
    BY <1>a, <1>b, <2>5 DEF MoneyInv
<1>3. Atomic!Execute(t, cmd[t])
  <2>1. Atomic!Verdict(cmd[t]) = outcome[t]
    <3>1. Reply(t).what = outcome[t]
      BY DEF Reply
    <3>2. Atomic!Answer(cmd[t]).what = Atomic!Verdict(cmd[t])
      BY DEF Atomic!Answer
    <3> QED
      BY <1>g, <3>1, <3>2
  <2>2. /\ committed'.accounts = accounts /\ committed'.password = password
        /\ committed'.balance = balance /\ committed'.gained = bankBalance + tot
    BY <1>b, <1>c, <1>e DEF Books
  <2>3. CASE outcome[t] = "ok"
    <3>1. /\ accounts = Atomic!Accounts(cmd[t])
          /\ password = Atomic!Passwords(cmd[t])
          /\ balance = Atomic!Balances(cmd[t])
      BY <1>g, <1>h, <2>3 DEF BooksOf
    <3>2. reply' = [reply EXCEPT ![t] = Atomic!Answer(cmd[t])]
      BY <1>a, <1>d, <1>g DEF HistoryType
    <3> QED
      BY <1>g, <2>1, <2>2, <2>3, <3>1, <3>2 DEF Atomic!Execute, Atomic!NoReply, NoReply
  <2>4. CASE outcome[t] # "ok"
    <3>1. /\ accounts = committed.accounts /\ password = committed.password
          /\ balance = committed.balance
      BY <1>g, <1>h, <2>4 DEF BooksOf, BooksAsCommitted
    <3>2. reply' = [reply EXCEPT ![t] = Atomic!Answer(cmd[t])]
      BY <1>a, <1>d, <1>g DEF HistoryType
    <3> QED
      BY <1>g, <2>1, <2>2, <2>4, <3>1, <3>2 DEF Atomic!Execute, Atomic!NoReply, NoReply
  <2> QED
    BY <2>3, <2>4
<1>4. [Atomic!Next]_(Atomic!vars)
  BY <1>f, <1>3 DEF Atomic!Next
<1> QED
  BY <1>1, <1>2, <1>4, AtmRest

LEMMA AtmHistoryStep ==
  ASSUME IInv, IInv', HistoryInv, NEW t \in Atm, AtmStep(t), Remember
  PROVE  HistoryInv' /\ [Atomic!Next]_(Atomic!vars)
BY AtmCases, CallerHistory, EnterHistory, InsideHistory, ReturnHistory

-----------------------------------------------------------------------------
(***************************************************************************)
(* The steps of the two service threads                                    *)
(***************************************************************************)
LEMMA ServiceRest ==
  ASSUME IInv, IInv', HistoryInv, NEW s \in Service, Remember,
         \A u \in Thread \ {s} : pc'[u] = pc[u],
         UNCHANGED <<accounts, password, atmVars>>,
         InBank(s) \/ (UNCHANGED balance /\ bankBalance' + tot' = bankBalance + tot),
         Total' + bankBalance' + tot' = Total + bankBalance + tot
  PROVE  /\ HistoryType' /\ FreeHistory' /\ MoneyInv'
         /\ \A u \in Atm : AtmHistory(u)'
         /\ reply' = reply
         /\ globalMutex' # Free => committed' = committed
         /\ \A u \in Thread \ {s} : InBank(u) =>
              UNCHANGED balance /\ bankBalance' + tot' = bankBalance + tot /\ committed' = committed
<1>a. /\ s \in Thread /\ s \notin Atm /\ Atm \subseteq Thread \ {s} /\ Free \notin Thread
  BY ThreadKinds DEF Service
<1>b. HistoryType /\ MoneyInv /\ \A u \in Atm : AtmHistory(u)
  BY DEF HistoryInv
<1>c. /\ DOMAIN reply' = Atm /\ reply' = [u \in Atm |-> reply'[u]]
      /\ \A u \in Atm : reply'[u] = reply[u]
      /\ cash' = cash /\ FreeHistory'
      /\ globalMutex' # Free => committed' = committed
  BY <1>a, <1>b, Remembered
<1>1. \A u \in Atm : Untouched(u)
  BY <1>a DEF Untouched, atmVars, copies
<1>2. ASSUME NEW u \in Thread \ {s}, InBank(u)
      PROVE  UNCHANGED balance /\ bankBalance' + tot' = bankBalance + tot /\ committed' = committed
  <2>1. globalMutex = u /\ ~InBank(s)
    BY <1>a, <1>2, OwnerInBank
  <2>2. InBank(u)'
    BY <1>2 DEF InBank
  <2>3. globalMutex' = u
    BY <1>2, <2>2 DEF IInv, Ownership
  <2> QED
    BY <1>a, <1>c, <2>1, <2>3
<1>3. ASSUME NEW u \in Atm PROVE AtmHistory(u)'
  <2>1. InBank(u) => /\ UNCHANGED <<accounts, password, balance>> /\ committed' = committed
                     /\ bankBalance' + tot' = bankBalance + tot
    BY <1>a, <1>2
  <2> QED
    BY <1>b, <1>c, <1>1, <2>1, AtmLeftAlone
<1>4. MoneyInv'
  <2>1. ASSUME NEW u \in Atm PROVE globalMutex' = u <=> globalMutex = u
    <3>1. InBank(u)' <=> InBank(u)
      BY <1>a DEF InBank
    <3>2. globalMutex' = u <=> InBank(u)'
      BY <1>a DEF IInv, Ownership
    <3> QED
      BY <1>a, <3>1, <3>2, OwnerInBank
  <2>2. \A u \in Atm : InHand(u)' = InHand(u)
    BY <1>1 DEF Untouched, InHand, Done, HalfDone, PaidIn
  <2>3. CASE globalMutex \in Atm
    <3>1. globalMutex' = globalMutex
      BY <2>1, <2>3
    <3> QED
      BY <1>b, <1>c, <2>2, <2>3, <3>1 DEF MoneyInv
  <2>4. CASE globalMutex \notin Atm
    <3>1. globalMutex' \notin Atm
      BY <2>1, <2>4
    <3> QED
      BY <1>b, <1>c, <2>4, <3>1 DEF MoneyInv
  <2> QED
    BY <2>3, <2>4
<1>5. reply' = reply
  BY <1>b, <1>c DEF HistoryType
<1>6. HistoryType'
  BY <1>b, <1>c, CommittedType DEF HistoryType
<1> QED
  BY <1>c, <1>2, <1>3, <1>4, <1>5, <1>6

(* A commission that goes on to where the charged accounts are the same    *)
LEMMA ChargingGoesOn ==
  ASSUME CommissionHistory, InBank(Commission), InBank(Commission)',
         UNCHANGED <<accounts, password, balance, bankBalance, rate, tot, committed>>,
         Charged' = Charged,
         pc'[Commission] \notin {"next", "read", "lock_charge", "charge"} => cursor'[Commission] = 0
  PROVE  CommissionHistory'
<1>1. Fees' = Fees
  BY DEF Fees
<1>2. SumOver(Fees, Charged)' = SumOver(Fees, Charged)
  BY <1>1
<1>3. pc'[Commission] \notin {"lock_global", "flag", "sleep", "exited"}
  BY DEF InBank, OutsideBank
<1> QED
  BY <1>1, <1>2, <1>3 DEF CommissionHistory

(* The fees are amounts.                                                   *)
LEMMA FeesType ==
  ASSUME HistoryType, BankType
  PROVE  Fees \in [AccountId -> Nat]
<1>1. ASSUME NEW a \in AccountId PROVE Charge(rate, committed.balance[a]) \in Nat
  <2>1. rate \in 0..5 /\ committed.balance[a] \in Nat
    BY DEF HistoryType, BankType
  <2>2. /\ Charge(rate, committed.balance[a]) \in Int
        /\ 0 <= Charge(rate, committed.balance[a])
    BY <2>1, ChargeBound
  <2> QED
    BY <2>2
<1> QED
  BY <1>1 DEF Fees

(* One more account is charged.                                            *)
LEMMA ChargeHistory ==
  ASSUME IInv, HistoryInv, ChargeAccount, UNCHANGED <<accounts, password>>,
         committed' = committed
  PROVE  CommissionHistory' /\ Total' + bankBalance' + tot' = Total + bankBalance + tot
<1> DEFINE c == cursor[Commission]
           fee == Charge(rate, currBalance)
<1>a. /\ Commission \in Thread /\ PcType /\ HistoryType /\ BankType /\ CommissionHistory
      /\ CommissionInv /\ accounts \subseteq AccountId /\ balance \in [AccountId -> Nat]
      /\ IsFiniteSet(AccountId)
  BY ThreadKinds, BooksTypes, BankAssumption DEF IInv, TypeOK, HistoryInv
<1>b. pc[Commission] = "charge" /\ pc'[Commission] = "next"
  BY <1>a, MoveOf DEF ChargeAccount
<1>c. /\ InBank(Commission) /\ c \in accounts /\ currBalance = balance[c]
      /\ rate \in Rates /\ accounts = committed.accounts /\ password = committed.password
      /\ \A a \in AccountId :
           balance[a] = committed.balance[a] - (IF a \in Charged THEN Fees[a] ELSE 0)
      /\ bankBalance + tot = committed.gained + SumOver(Fees, Charged)
  BY <1>a, <1>b DEF CommissionHistory, CommissionInv, InBank, OutsideBank
<1>d. /\ balance' = [balance EXCEPT ![c] = currBalance - fee]
      /\ tot' = tot + fee
      /\ UNCHANGED <<bankBalance, rate, cursor>>
  BY DEF ChargeAccount, serviceVars
<1>1. /\ Charged = {a \in accounts : a < c}
      /\ Charged' = {a \in accounts : a <= c}
  BY <1>b, <1>d DEF Charged
<1>2. /\ Charged' = Charged \cup {c} /\ c \notin Charged
      /\ Charged \subseteq AccountId /\ IsFiniteSet(Charged)
  <2>1. \A a \in accounts : a \in Nat
    BY <1>a, BankAssumption
  <2>2. Charged' = Charged \cup {c} /\ c \notin Charged /\ Charged \subseteq AccountId
    BY <1>a, <1>c, <1>1, <2>1
  <2> QED
    BY <1>a, <2>2, FS_Subset
<1>3. currBalance = committed.balance[c] /\ fee = Fees[c] /\ Fees' = Fees
  <2>1. balance[c] = committed.balance[c] /\ c \in AccountId
    <3>1. committed.balance[c] \in Nat
      BY <1>a, <1>c DEF HistoryType
    <3> QED
      BY <1>a, <1>c, <1>2, <3>1
  <2> QED
    BY <1>c, <1>d, <2>1 DEF Fees
<1>4. Fees \in [AccountId -> Nat] /\ fee \in Nat
  BY <1>a, <1>c, <1>3, FeesType
<1> HIDE DEF fee
<1>5. SumOver(Fees, Charged \cup {c}) = SumOver(Fees, Charged) + fee
      /\ SumOver(Fees, Charged) \in Nat
  BY <1>a, <1>c, <1>2, <1>3, <1>4, SumAdd, CoinsFinite
<1>6. ASSUME NEW a \in AccountId
      PROVE  balance'[a] = committed.balance[a] - (IF a \in Charged' THEN Fees[a] ELSE 0)
  BY <1>a, <1>c, <1>d, <1>2, <1>3, <1>4, <1>6
<1>7. bankBalance' + tot' = committed.gained + SumOver(Fees, Charged')
  <2>1. SumOver(Fees, Charged') = SumOver(Fees, Charged) + fee
    BY <1>2, <1>5
  <2>2. bankBalance \in Int /\ tot \in Int /\ committed.gained \in Int
    BY <1>a DEF BankType, HistoryType
  <2> QED
    BY <1>c, <1>d, <1>4, <1>5, <2>1, <2>2
<1>8. SumOver(Fees, Charged)' = SumOver(Fees, Charged')
  BY <1>3
<1>9. CommissionHistory'
  BY <1>b, <1>c, <1>d, <1>3, <1>6, <1>7, <1>8 DEF CommissionHistory, InBank, OutsideBank
<1>10. Total' + bankBalance' + tot' = Total + bankBalance + tot
  <2>1. fee <= currBalance
    BY <1>a, <1>c, ChargeBound DEF fee, BankType
  <2>2. Total' = Total - balance[c] + (currBalance - fee) /\ Total \in Nat
    <3>1. currBalance - fee \in Nat
      BY <1>a, <1>c, <1>4, <2>1
    <3> QED
      BY <1>a, <1>c, <1>d, <3>1, TotalChange
  <2>3. bankBalance \in Int /\ tot \in Int /\ balance[c] \in Nat
    BY <1>a, <1>c DEF BankType
  <2> QED
    BY <1>c, <1>d, <1>4, <2>2, <2>3
<1> QED
  BY <1>9, <1>10

(* The commission leaves the bank and commits the charge to all accounts.  *)
LEMMA ChargeCommits ==
  ASSUME IInv, HistoryInv, LeaveCharged, UNCHANGED <<accounts, password>>,
         committed' = Books', reply' = reply
  PROVE  Atomic!ChargeAll(rate) /\ rate \in Rates
<1>a. /\ Commission \in Thread /\ PcType /\ HistoryType /\ BankType /\ CommissionHistory
      /\ ClosedIsEmpty /\ accounts \subseteq AccountId /\ balance \in [AccountId -> Nat]
  BY ThreadKinds, BooksTypes DEF IInv, TypeOK, HistoryInv
<1>b. pc[Commission] = "leave" /\ UNCHANGED <<balance, bankBalance, tot>>
  BY <1>a, MoveOf DEF LeaveCharged, UnlockGlobal, bankVars
<1>c. /\ Charged = accounts /\ InBank(Commission)
  BY <1>b DEF Charged, InBank, OutsideBank
<1>d. /\ rate \in Rates /\ accounts = committed.accounts /\ password = committed.password
      /\ \A a \in AccountId :
           balance[a] = committed.balance[a] - (IF a \in accounts THEN Fees[a] ELSE 0)
      /\ bankBalance + tot = committed.gained + SumOver(Fees, accounts)
  BY <1>a, <1>c DEF CommissionHistory
<1>e. /\ committed'.accounts = accounts /\ committed'.password = password
      /\ committed'.balance = balance /\ committed'.gained = bankBalance + tot
  BY <1>b DEF Books
<1>1. \A a \in AccountId : Atomic!Fee(rate, a) = Fees[a]
  BY DEF Atomic!Fee, Fees, Charge
<1>2. ASSUME NEW a \in AccountId PROVE balance[a] = committed.balance[a] - Fees[a]
  <2>1. CASE a \in accounts
    BY <1>d, <2>1
  <2>2. CASE a \notin accounts
    <3>1. balance[a] = 0 /\ committed.balance[a] \in Nat
      BY <1>a, <2>2 DEF ClosedIsEmpty, HistoryType
    <3>2. committed.balance[a] = 0
      BY <1>d, <2>2, <3>1
    <3>3. Charge(rate, 0) = 0
      BY <1>a DEF Charge, BankType
    <3> QED
      BY <3>1, <3>2, <3>3 DEF Fees
  <2> QED
    BY <2>1, <2>2
<1>3. balance = [a \in AccountId |-> committed.balance[a] - Atomic!Fee(rate, a)]
  BY <1>a, <1>1, <1>2
<1>4. [a \in AccountId |-> Atomic!Fee(rate, a)] = Fees
  BY <1>1 DEF Fees
<1>5. Atomic!SumOver(Fees, accounts) = SumOver(Fees, accounts)
  BY DEF Atomic!SumOver, Atomic!Coins, Atomic!Cardinality, SumOver, Coins, Cardinality
<1> QED
  BY <1>d, <1>e, <1>3, <1>4, <1>5 DEF Atomic!ChargeAll

LEMMA CommissionHistoryStep ==
  ASSUME IInv, IInv', HistoryInv, bank_commission_routine, Remember
  PROVE  HistoryInv' /\ [Atomic!Next]_(Atomic!vars)
<1>a. /\ Commission \in Service /\ Commission \in Thread /\ Status \in Thread \ {Commission}
      /\ Commission # Free
  BY ThreadKinds
<1>b. /\ PcType /\ HistoryType /\ BankType /\ CommissionHistory /\ StatusHistory /\ FreeHistory
      /\ accounts \subseteq AccountId /\ cursor \in [Service -> AccountId \cup {0}]
      /\ \A a \in AccountId \cup {0} : a \in Nat
      /\ \A a \in accounts : a \in Nat /\ a > 0
      /\ bankBalance \in Int /\ tot \in Int
  <2>1. ASSUME NEW a \in accounts PROVE a \in Nat /\ a > 0
    <3>1. a \in Nat \ {0}
      BY BooksTypes, BankAssumption
    <3> QED
      BY <3>1
  <2> QED
    BY <2>1, BooksTypes, NumbersAreNat DEF IInv, TypeOK, HistoryInv, ServiceType, BankType
<1>c. UNCHANGED <<accounts, password, atmVars>>
  BY DEF bank_commission_routine
<1>d. ASSUME NEW from, NEW to, Step(Commission, from, to)
      PROVE  /\ pc[Commission] = from /\ pc'[Commission] = to
             /\ \A u \in Thread \ {Commission} : pc'[u] = pc[u]
  BY <1>a, <1>b, <1>d, MoveOf
(* What is left to show of a step, and of one that changes no balance      *)
<1>e. ASSUME \A u \in Thread \ {Commission} : pc'[u] = pc[u],
             InBank(Commission) \/ (UNCHANGED balance /\ bankBalance' + tot' = bankBalance + tot),
             Total' + bankBalance' + tot' = Total + bankBalance + tot,
             CommissionHistory'
      PROVE  HistoryInv'
  <2>1. /\ HistoryType' /\ FreeHistory' /\ MoneyInv'
        /\ \A u \in Atm : AtmHistory(u)'
        /\ \A u \in Thread \ {Commission} : InBank(u) =>
             UNCHANGED balance /\ bankBalance' + tot' = bankBalance + tot /\ committed' = committed
    BY <1>a, <1>c, <1>e, ServiceRest
  <2>2. StatusHistory'
    BY <1>a, <1>b, <1>c, <1>e, <2>1, StatusLeftAlone
  <2> QED
    BY <1>e, <2>1, <2>2 DEF HistoryInv
<1>f. ASSUME UNCHANGED <<balance, bankBalance, tot>> PROVE Total' + bankBalance' + tot' = Total + bankBalance + tot
  BY <1>f DEF Total
<1>g. ASSUME committed' = committed, reply' = reply PROVE [Atomic!Next]_(Atomic!vars)
  BY <1>g DEF Atomic!vars
<1>h. ASSUME \A u \in Thread \ {Commission} : pc'[u] = pc[u]
      PROVE  reply' = reply /\ (globalMutex' # Free => committed' = committed)
  <2>1. \A u \in Atm : u \in Thread \ {Commission}
    BY ThreadKinds
  <2> QED
    BY <1>a, <1>b, <1>h, <2>1, Remembered, ThreadKinds DEF HistoryType
(* Steps inside the bank that change no balance                            *)
<1>i. ASSUME \A u \in Thread \ {Commission} : pc'[u] = pc[u],
             InBank(Commission), InBank(Commission)',
             UNCHANGED <<balance, bankBalance, rate, tot>>, Charged' = Charged,
             pc'[Commission] \notin {"next", "read", "lock_charge", "charge"} => cursor'[Commission] = 0
      PROVE  HistoryInv' /\ [Atomic!Next]_(Atomic!vars)
  <2>1. globalMutex' # Free
    BY <1>a, <1>i DEF IInv, Ownership
  <2>2. committed' = committed /\ reply' = reply
    BY <1>h, <1>i, <2>1
  <2>3. CommissionHistory'
    BY <1>b, <1>c, <1>i, <2>2, ChargingGoesOn
  <2> QED
    BY <1>e, <1>f, <1>g, <1>i, <2>2, <2>3
(* And steps outside                                                       *)
<1>j. ASSUME \A u \in Thread \ {Commission} : pc'[u] = pc[u],
             ~InBank(Commission), ~InBank(Commission)',
             UNCHANGED <<balance, globalMutex, cursor>>, bankBalance' + tot' = bankBalance + tot,
             tot' = 0
      PROVE  HistoryInv' /\ [Atomic!Next]_(Atomic!vars)
  <2>1. committed' = committed /\ reply' = reply
    BY <1>c, <1>h, <1>j, CommitKept
  <2>2. cursor[Commission] = 0
    BY <1>b, <1>j DEF CommissionHistory, InBank, OutsideBank
  <2>3. CommissionHistory'
    BY <1>j, <2>2 DEF CommissionHistory
  <2>4. Total' + bankBalance' + tot' = Total + bankBalance + tot
    <3>1. Total' = Total /\ Total \in Nat /\ bankBalance' \in Int /\ tot' \in Int
      BY <1>j, TotalIsNat DEF Total, IInv, TypeOK, BankType
    <3>2. Total + bankBalance' + tot' = Total + (bankBalance' + tot')
          /\ Total + bankBalance + tot = Total + (bankBalance + tot)
      BY <1>b, <3>1
    <3> QED
      BY <1>j, <3>1, <3>2
  <2> QED
    BY <1>e, <1>g, <1>j, <2>1, <2>3, <2>4
<1>1. ASSUME BeginCharge PROVE HistoryInv' /\ [Atomic!Next]_(Atomic!vars)
  <2>1. /\ pc[Commission] = "lock_global" /\ pc'[Commission] = "lock_log"
        /\ \A u \in Thread \ {Commission} : pc'[u] = pc[u]
    BY <1>1, <1>d DEF BeginCharge, LockGlobal
  <2>2. /\ globalMutex = Free /\ globalMutex' = Commission /\ rate' \in Rates
        /\ UNCHANGED <<balance, bankBalance, tot, cursor>>
    BY <1>1 DEF BeginCharge, LockGlobal, serviceVars
  <2>3. committed' = committed /\ reply' = reply /\ committed = Books
    BY <1>a, <1>b, <1>h, <2>1, <2>2 DEF FreeHistory
  <2>4. Charged' = {} /\ cursor'[Commission] = 0
    BY <1>b, <2>1, <2>2 DEF Charged, CommissionHistory
  <2>5. SumOver(Fees, Charged)' = 0
    <3>1. SumOver(Fees', {}) = 0
      BY SumOfNothing
    <3> QED
      BY <2>4, <3>1
  <2>6. \A a \in AccountId : balance'[a] = committed'.balance[a] - 0
    BY <2>2, <2>3, BooksTypes DEF Books
  <2>7. bankBalance' + tot' = committed'.gained + 0
    BY <1>b, <2>2, <2>3 DEF Books
  <2>8. CommissionHistory'
    BY <1>c, <2>1, <2>2, <2>3, <2>4, <2>5, <2>6, <2>7 DEF CommissionHistory, Books
  <2> QED
    BY <1>e, <1>f, <1>g, <2>1, <2>2, <2>3, <2>8
<1>2. ASSUME TakeLogForCharges PROVE HistoryInv' /\ [Atomic!Next]_(Atomic!vars)
  <2>1. /\ pc[Commission] = "lock_log" /\ pc'[Commission] = "next"
        /\ \A u \in Thread \ {Commission} : pc'[u] = pc[u]
        /\ UNCHANGED <<balance, bankBalance, rate, tot, cursor>>
    BY <1>2, <1>d DEF TakeLogForCharges, LockLog, bankVars, serviceVars
  <2>2. cursor[Commission] = 0
    BY <1>b, <2>1 DEF CommissionHistory
  <2>3. Charged = {} /\ Charged' = {}
    BY <1>b, <1>c, <2>1, <2>2 DEF Charged
  <2> QED
    BY <1>i, <2>1, <2>3 DEF InBank, OutsideBank
<1>3. ASSUME VisitNext(Commission) PROVE HistoryInv' /\ [Atomic!Next]_(Atomic!vars)
  <2>1. /\ pc[Commission] = "next" /\ pc'[Commission] = "read"
        /\ \A u \in Thread \ {Commission} : pc'[u] = pc[u]
        /\ UNCHANGED <<balance, bankBalance, rate, tot>>
    BY <1>3, <1>d DEF VisitNext, bankVars
  <2>2. PICK a \in Beyond(Commission) : cursor' = [cursor EXCEPT ![Commission] = a]
    BY <1>3 DEF VisitNext
  <2>3. a \in accounts /\ a > cursor[Commission] /\ cursor'[Commission] = a
    BY <1>a, <1>b, <2>2 DEF Beyond
  <2>4. \A b \in accounts : b < a => b <= cursor[Commission]
    BY <1>3, <1>a, <2>3, NextVisited
  <2>5. \A b \in accounts : b <= cursor[Commission] <=> b < a
    <3>1. cursor[Commission] \in Nat /\ a \in Nat
      BY <1>a, <1>b, <2>3
    <3> QED
      BY <1>b, <2>3, <2>4, <3>1
  <2>6. Charged' = Charged
    BY <1>c, <2>1, <2>3, <2>5 DEF Charged
  <2> QED
    BY <1>i, <2>1, <2>6 DEF InBank, OutsideBank
<1>4. ASSUME CopyCharged \/ LockCharged PROVE HistoryInv' /\ [Atomic!Next]_(Atomic!vars)
  <2>1. /\ pc[Commission] \in {"read", "lock_charge"}
        /\ pc'[Commission] \in {"lock_charge", "charge"}
        /\ \A u \in Thread \ {Commission} : pc'[u] = pc[u]
        /\ UNCHANGED <<balance, bankBalance, rate, tot, cursor>>
    BY <1>4, <1>d DEF CopyCharged, LockCharged, bankVars, serviceVars
  <2>2. Charged' = Charged
    BY <1>c, <2>1 DEF Charged
  <2> QED
    BY <1>i, <2>1, <2>2 DEF InBank, OutsideBank
<1>5. ASSUME ChargeAccount PROVE HistoryInv' /\ [Atomic!Next]_(Atomic!vars)
  <2>1. /\ pc[Commission] = "charge" /\ pc'[Commission] = "next"
        /\ \A u \in Thread \ {Commission} : pc'[u] = pc[u]
    BY <1>5, <1>d DEF ChargeAccount
  <2>2. InBank(Commission) /\ InBank(Commission)'
    BY <2>1 DEF InBank, OutsideBank
  <2>3. committed' = committed /\ reply' = reply
    BY <1>a, <1>h, <2>1, <2>2 DEF IInv, Ownership
  <2>4. CommissionHistory' /\ Total' + bankBalance' + tot' = Total + bankBalance + tot
    BY <1>5, <1>c, <2>3, ChargeHistory
  <2> QED
    BY <1>e, <1>g, <2>1, <2>2, <2>3, <2>4
<1>6. ASSUME EndCharge PROVE HistoryInv' /\ [Atomic!Next]_(Atomic!vars)
  <2>1. /\ pc[Commission] = "next" /\ pc'[Commission] = "leave"
        /\ \A u \in Thread \ {Commission} : pc'[u] = pc[u]
        /\ UNCHANGED <<balance, bankBalance, rate, tot>>
        /\ Beyond(Commission) = {} /\ cursor' = [cursor EXCEPT ![Commission] = 0]
    BY <1>6, <1>d DEF EndCharge, UnlockLog, EndVisit
  <2>2. \A a \in accounts : a <= cursor[Commission]
    <3>1. cursor[Commission] \in Nat
      BY <1>a, <1>b
    <3> QED
      BY <1>b, <2>1, <3>1 DEF Beyond
  <2>3. Charged' = Charged
    BY <1>c, <2>1, <2>2 DEF Charged
  <2>4. cursor'[Commission] = 0
    BY <1>a, <1>b, <2>1
  <2> QED
    BY <1>i, <2>1, <2>3, <2>4 DEF InBank, OutsideBank
<1>7. ASSUME LeaveCharged PROVE HistoryInv' /\ [Atomic!Next]_(Atomic!vars)
  <2>1. /\ pc[Commission] = "leave" /\ pc'[Commission] = "credit"
        /\ \A u \in Thread \ {Commission} : pc'[u] = pc[u]
        /\ UNCHANGED <<balance, bankBalance, rate, tot, cursor>> /\ globalMutex' = Free
    BY <1>7, <1>d DEF LeaveCharged, UnlockGlobal, bankVars, serviceVars
  <2>2. committed' = Books' /\ reply' = reply
    BY <1>h, <2>1 DEF Remember
  <2>3. Atomic!ChargeAll(rate) /\ rate \in Rates
    BY <1>7, <1>c, <2>2, ChargeCommits
  <2>4. CommissionHistory'
    BY <1>b, <2>1 DEF CommissionHistory, InBank, OutsideBank
  <2>5. InBank(Commission)
    BY <2>1 DEF InBank, OutsideBank
  <2> QED
    BY <1>e, <1>f, <2>1, <2>3, <2>4, <2>5 DEF Atomic!Next
<1>8. ASSUME CreditBank PROVE HistoryInv' /\ [Atomic!Next]_(Atomic!vars)
  <2>1. /\ pc[Commission] = "credit" /\ pc'[Commission] = "flag"
        /\ \A u \in Thread \ {Commission} : pc'[u] = pc[u]
    BY <1>8, <1>d DEF CreditBank
  <2>2. /\ UNCHANGED <<balance, globalMutex, cursor>> /\ tot' = 0
        /\ bankBalance' = bankBalance + tot
    BY <1>8 DEF CreditBank, locks, serviceVars
  <2>3. bankBalance' + tot' = bankBalance + tot
    BY <1>b, <2>2
  <2> QED
    BY <1>j, <2>1, <2>2, <2>3 DEF InBank, OutsideBank
<1>9. ASSUME ReadFlag(Commission) \/ Sleep(Commission)
      PROVE  HistoryInv' /\ [Atomic!Next]_(Atomic!vars)
  <2>1. /\ pc[Commission] \in {"flag", "sleep"}
        /\ pc'[Commission] \in {"sleep", "exited", "lock_global"}
        /\ \A u \in Thread \ {Commission} : pc'[u] = pc[u]
    BY <1>9, <1>d DEF ReadFlag, Sleep
  <2>2. UNCHANGED <<balance, globalMutex, cursor, bankBalance, tot>>
    BY <1>9 DEF ReadFlag, Sleep, locks, bankVars, serviceVars
  <2>3. tot' = 0 /\ bankBalance' + tot' = bankBalance + tot
    BY <1>b, <2>1, <2>2 DEF CommissionHistory
  <2> QED
    BY <1>j, <2>1, <2>2, <2>3 DEF InBank, OutsideBank
<1> QED
  BY <1>1, <1>2, <1>3, <1>4, <1>5, <1>6, <1>7, <1>8, <1>9 DEF bank_commission_routine, commission

(* The status thread changes nothing of the books: it commits nothing.     *)
LEMMA StatusHistoryStep ==
  ASSUME IInv, IInv', HistoryInv, bank_status_routine, Remember
  PROVE  HistoryInv' /\ [Atomic!Next]_(Atomic!vars)
<1>a. /\ Status \in Service /\ Status \in Thread /\ Commission \in Thread \ {Status}
      /\ Commission \in Service \ {Status} /\ Status # Free
  BY ThreadKinds
<1>b. /\ PcType /\ HistoryType /\ CommissionHistory /\ StatusHistory /\ FreeHistory
      /\ cursor \in [Service -> AccountId \cup {0}]
  BY DEF IInv, TypeOK, HistoryInv, ServiceType
<1>c. UNCHANGED <<accounts, password, atmVars>>
  BY DEF bank_status_routine
<1>1. /\ \A u \in Thread \ {Status} : pc'[u] = pc[u]
      /\ UNCHANGED <<balance, bankBalance, tot, rate>>
      /\ cursor'[Commission] = cursor[Commission]
      /\ globalMutex' = Free => pc[Status] # "lock_global"
  <2>1. ASSUME NEW from, NEW to, Step(Status, from, to)
        PROVE  pc[Status] = from /\ \A u \in Thread \ {Status} : pc'[u] = pc[u]
    BY <1>a, <1>b, <2>1, MoveOf
  <2>2. CASE BeginStatus
    BY <1>a, <2>1, <2>2 DEF BeginStatus, LockGlobal, bankVars, serviceVars
  <2>3. CASE VisitNext(Status)
    BY <1>a, <1>b, <2>1, <2>3 DEF VisitNext, bankVars
  <2>4. CASE ShowAccount
    BY <2>1, <2>4 DEF ShowAccount, bankVars
  <2>5. CASE ShowBank
    BY <1>a, <1>b, <2>1, <2>5 DEF ShowBank, UnlockGlobal, EndVisit, bankVars
  <2>6. CASE ReadFlag(Status) \/ Sleep(Status)
    BY <2>1, <2>6 DEF ReadFlag, Sleep, bankVars, serviceVars
  <2> QED
    BY <2>2, <2>3, <2>4, <2>5, <2>6 DEF bank_status_routine, bank_balance_print
<1>2. InBank(Status) => BooksAsCommitted /\ bankBalance + tot = committed.gained
  BY <1>b DEF StatusHistory
<1>3. committed' = committed
  <2>1. CASE globalMutex' # Free
    BY <1>1, <1>a, <1>b, <2>1, Remembered
  <2>2. CASE globalMutex' = Free
    <3>1. globalMutex = Free \/ InBank(Status)
      <4>1. ASSUME NEW u \in Thread \ {Status} PROVE globalMutex # u
        <5>1. ~InBank(u)'
          BY <2>2, ThreadKinds DEF IInv, Ownership
        <5>2. ~InBank(u)
          BY <1>1, <5>1 DEF InBank
        <5> QED
          BY <5>2, OwnerInBank
      <4> QED
        BY <1>a, <4>1, OwnerInBank
    <3>2. InBank(Status) => committed = Books
      <4>1. HistoryType
        BY <1>b
      <4> QED
        BY <1>2, <4>1 DEF BooksAsCommitted, Books, HistoryType
    <3>3. committed = Books
      BY <1>b, <3>1, <3>2 DEF FreeHistory
    <3> QED
      BY <1>1, <1>c, <3>3, CommitKept
  <2> QED
    BY <2>1, <2>2
<1>4. /\ HistoryType' /\ FreeHistory' /\ MoneyInv'
      /\ \A u \in Atm : AtmHistory(u)'
      /\ reply' = reply
  <2>1. Total' + bankBalance' + tot' = Total + bankBalance + tot
        /\ bankBalance' + tot' = bankBalance + tot
    BY <1>1 DEF Total
  <2> QED
    BY <1>a, <1>c, <1>1, <2>1, ServiceRest
<1>5. CommissionHistory'
  <2>1. UNCHANGED <<cursor[Commission], rate, tot>> /\ pc'[Commission] = pc[Commission]
    BY <1>a, <1>1
  <2> QED
    BY <1>b, <1>c, <1>1, <1>3, <2>1, CommissionLeftAlone
<1>6. StatusHistory'
  <2>1. CASE InBank(Status)
    BY <1>2, <1>c, <1>1, <1>3, <2>1 DEF StatusHistory, BooksAsCommitted
  <2>2. CASE ~InBank(Status) /\ InBank(Status)'
    <3>1. globalMutex' = Status /\ globalMutex # Status
      BY <1>a, <2>2 DEF IInv, Ownership
    <3>2. globalMutex = Free
      <4>1. ASSUME NEW u \in Thread \ {Status} PROVE globalMutex # u
        <5>1. ~InBank(u)'
          BY <1>a, <3>1 DEF IInv, Ownership
        <5>2. ~InBank(u)
          BY <1>1, <5>1 DEF InBank
        <5> QED
          BY <5>2, OwnerInBank
      <4> QED
        BY <1>a, <3>1, <4>1, OwnerInBank
    <3> QED
      BY <1>b, <1>c, <1>1, <1>3, <3>2 DEF StatusHistory, FreeHistory, Books, BooksAsCommitted
  <2>3. CASE ~InBank(Status)'
    BY <2>3 DEF StatusHistory
  <2> QED
    BY <2>1, <2>2, <2>3
<1>7. [Atomic!Next]_(Atomic!vars)
  BY <1>3, <1>4 DEF Atomic!vars
<1> QED
  BY <1>4, <1>5, <1>6, <1>7 DEF HistoryInv

(* Nor does a step that changes neither the books nor a thread.            *)
LEMMA StillHistory ==
  ASSUME IInv, IInv', HistoryInv, Remember,
         UNCHANGED <<books, locks, pc, atmVars, bankVars, serviceVars>>
  PROVE  HistoryInv' /\ [Atomic!Next]_(Atomic!vars)
<1>a. /\ Status \in Service /\ Status \in Thread /\ Commission \in Thread /\ Atm \subseteq Thread
      /\ HistoryType /\ CommissionHistory /\ StatusHistory
  BY ThreadKinds DEF HistoryInv
<1>b. /\ UNCHANGED <<accounts, password, balance, globalMutex, pc, atmVars>>
      /\ UNCHANGED <<bankBalance, rate, tot, cursor>>
  BY DEF books, locks, bankVars, serviceVars
<1>1. committed' = committed
  BY <1>b, CommitKept
<1>2. Total' + bankBalance' + tot' = Total + bankBalance + tot
      /\ bankBalance' + tot' = bankBalance + tot
  BY <1>b DEF Total
<1>3. /\ HistoryType' /\ FreeHistory' /\ MoneyInv'
      /\ \A u \in Atm : AtmHistory(u)'
      /\ reply' = reply
  BY <1>a, <1>b, <1>2, ServiceRest
<1>4. CommissionHistory' /\ StatusHistory'
  BY <1>a, <1>b, <1>1, CommissionLeftAlone, StatusLeftAlone
<1>5. [Atomic!Next]_(Atomic!vars)
  BY <1>1, <1>3 DEF Atomic!vars
<1> QED
  BY <1>3, <1>4, <1>5 DEF HistoryInv

-----------------------------------------------------------------------------
(***************************************************************************)
(* The theorems                                                            *)
(***************************************************************************)
LEMMA InitHistory ==
  ASSUME IInv, InitialValues, HistoryValues, \A t \in Atm : pc[t] \in OutsideBank
  PROVE  HistoryInv /\ Atomic!Init
<1>a. /\ accounts = {} /\ password = Nothing /\ balance = Nothing /\ bankBalance = 0 /\ tot = 0
      /\ globalMutex = Free /\ cursor = [t \in Service |-> 0]
      /\ seen = [t \in Atm |-> 0] /\ seenTarget = [t \in Atm |-> 0]
      /\ outcome = [t \in Atm |-> "none"]
      /\ committed = Books /\ reply = [t \in Atm |-> NoReply] /\ cash = 0
  BY DEF InitialValues, HistoryValues
<1>b. Free \notin Atm /\ \A t \in Thread : ~InBank(t)
  BY <1>a, ThreadKinds DEF IInv, Ownership
<1>1. HistoryType
  BY <1>a DEF HistoryType, Books, Nothing
<1>2. ASSUME NEW t \in Atm PROVE AtmHistory(t)
  <2>1. ~InBank(t) /\ pc[t] \in OutsideBank
    BY <1>b, ThreadKinds
  <2>2. ReplyOf(t)
    BY <1>a, <2>1 DEF ReplyOf, HalfDone, OutsideBank
  <2> QED
    BY <1>a, <2>1, <2>2 DEF AtmHistory
<1>3. CommissionHistory /\ StatusHistory
  BY <1>a, <1>b, ThreadKinds DEF CommissionHistory, StatusHistory
<1>4. FreeHistory
  BY <1>a DEF FreeHistory
<1>5. MoneyInv
  <2>1. Total = 0
    BY <1>a, SumOfNothing DEF Total, Nothing
  <2> QED
    BY <1>a, <1>b, <2>1 DEF MoneyInv
<1>6. Atomic!Init
  BY <1>a DEF Atomic!Init, Atomic!NoReply, NoReply, Books, Nothing
<1> QED
  BY <1>1, <1>2, <1>3, <1>4, <1>5, <1>6 DEF HistoryInv

(* Every step of the threads keeps the invariant, and is a step of the     *)
(* atomic bank or none.                                                    *)
LEMMA HistoryStep ==
  ASSUME IInv, IInv', HistoryInv, Next, Remember
  PROVE  HistoryInv' /\ [Atomic!Next]_(Atomic!vars)
<1>1. CASE \E t \in Atm : AtmStep(t)
  BY <1>1, AtmHistoryStep
<1>2. CASE bank_commission_routine
  BY <1>2, CommissionHistoryStep
<1>3. CASE bank_status_routine
  BY <1>3, StatusHistoryStep
<1>4. CASE AtmsJoined
  <2>1. UNCHANGED <<books, locks, pc, atmVars, bankVars, serviceVars>>
    BY <1>4 DEF AtmsJoined
  <2> QED
    BY <2>1, StillHistory
<1> QED
  BY <1>1, <1>2, <1>3, <1>4 DEF Next, ThreadStep

LEMMA HistoryInitInv == HistoryInit => IInv /\ HistoryInv /\ Atomic!Init
<1> SUFFICES ASSUME HistoryInit PROVE IInv /\ HistoryInv /\ Atomic!Init
  OBVIOUS
<1>1. IInv
  BY InitIInv DEF HistoryInit
<1>2. \A t \in Atm : pc[t] \in OutsideBank
  BY ThreadKinds DEF HistoryInit, Init, FirstLabel, OutsideBank
<1> QED
  BY <1>1, <1>2, InitHistory DEF HistoryInit, Init

LEMMA HistoryInductive ==
  IInv /\ HistoryInv /\ [HistoryNext]_historyVars =>
    IInv' /\ HistoryInv' /\ [Atomic!Next]_(Atomic!vars)
<1> SUFFICES ASSUME IInv, HistoryInv, [HistoryNext]_historyVars
             PROVE  IInv' /\ HistoryInv' /\ [Atomic!Next]_(Atomic!vars)
  OBVIOUS
<1>1. CASE HistoryNext
  <2>1. IInv'
    BY <1>1, InductiveStep DEF HistoryNext
  <2> QED
    BY <1>1, <2>1, HistoryStep DEF HistoryNext
<1>2. CASE UNCHANGED historyVars
  <2>1. IInv'
    BY <1>2, InductiveStep DEF historyVars
  <2>2. /\ UNCHANGED <<accounts, password, balance, globalMutex, pc, cmd, seen, seenTarget>>
        /\ UNCHANGED <<outcome, bankBalance, rate, tot, cursor, committed, reply, cash>>
    BY <1>2 DEF historyVars, vars, books, locks, atmVars, copies, bankVars, serviceVars
  <2>3. \A u \in Atm : AtmHistory(u)'
    BY <2>2, AtmLeftAlone DEF HistoryInv, Untouched
  <2>4. CommissionHistory' /\ StatusHistory'
    BY <2>2, CommissionLeftAlone, StatusLeftAlone DEF HistoryInv
  <2>5. HistoryType' /\ FreeHistory'
    BY <2>2 DEF HistoryInv, HistoryType, FreeHistory, Books
  <2>6. MoneyInv'
    <3>1. MoneyInv /\ \A u \in Atm : Untouched(u)
      BY <2>2 DEF HistoryInv, Untouched
    <3> QED
      BY <2>2, <3>1, MoneyLeftAlone
  <2>7. [Atomic!Next]_(Atomic!vars)
    BY <2>2 DEF Atomic!vars
  <2> QED
    BY <2>1, <2>3, <2>4, <2>5, <2>6, <2>7 DEF HistoryInv
<1> QED
  BY <1>1, <1>2

(***************************************************************************)
(* What the books are, at every point of every thread, compared with what  *)
(* they were when mutex_global_accounts was last free.                     *)
(***************************************************************************)
THEOREM HistoryInvHolds == HistorySpec => [](IInv /\ HistoryInv)
BY HistoryInitInv, HistoryInductive, PTL DEF HistorySpec

(* Whatever the interleaving, the threads are one bank: each command takes *)
(* effect, with the atomic bank's reply, when its ATM leaves the bank's    *)
(* mutex, and a commission takes effect on all accounts at once            *)
(* (atm.cpp:93-449, bank.cpp:35-57).                                       *)
THEOREM ThreadsAreAtomicBank == HistorySpec => ImplementsAtomicBank
BY HistoryInitInv, HistoryInductive, PTL DEF HistorySpec, ImplementsAtomicBank, Atomic!Spec

(* No money is made or lost, by any number of ATMs and with a commission   *)
(* still on its way to the bank (bank.cpp:48-57).                          *)
THEOREM MoneyConservedHolds == HistorySpec => []MoneyConserved
<1>1. IInv /\ HistoryInv => MoneyConserved
  <2> SUFFICES ASSUME IInv, HistoryInv, globalMutex = Free
               PROVE  Total + bankBalance + tot = cash
    BY DEF MoneyConserved
  <2>1. globalMutex \notin Atm /\ cash \in Int
    BY ThreadKinds DEF HistoryInv, HistoryType
  <2> QED
    BY <2>1 DEF HistoryInv, MoneyInv
<1> QED
  BY <1>1, HistoryInvHolds, PTL
=============================================================================
