---------------------------- MODULE MCBankHistory ----------------------------
(* Values of BankHistory's constants for TLC *)
EXTENDS BankHistory

Line(op, acc, pw, amt, tgt) == [op |-> op, acc |-> acc, pw |-> pw, amt |-> amt, tgt |-> tgt]

(* All functions but D, with room for every failure: a second O, a wrong   *)
(* password, an account or a target that is not there, too little money,   *)
(* and a transfer of an account to itself.                                 *)
MCCommand ==
  { Line("O", 1, 1, 20, 1), Line("O", 2, 1, 20, 2),
    Line("W", 1, 1, 15, 1), Line("Q", 1, 1, 0, 1), Line("B", 2, 2, 0, 2),
    Line("T", 2, 1, 15, 1), Line("T", 1, 1, 15, 1) }

(* The behaviours in which the status thread, which only reads, has not    *)
(* been scheduled yet.                                                     *)
NoStatusSpec == HistoryInit /\ [][HistoryNext /\ pc'[Status] = pc[Status]]_historyVars
=============================================================================
