------------------------------- MODULE MCBank -------------------------------
(* Values of Bank's constants for TLC *)
EXTENDS BankProperties

Line(op, acc, pw, amt, tgt) == [op |-> op, acc |-> acc, pw |-> pw, amt |-> amt, tgt |-> tgt]

(* Two accounts, both openable by either ATM, with amounts that make the   *)
(* second withdrawal or transfer fail. (MCBankHistory has a wrong password.) *)
MCCommand ==
  { Line("O", 1, 1, 20, 1), Line("O", 2, 1, 20, 2), Line("D", 1, 1, 10, 1),
    Line("W", 1, 1, 15, 1), Line("Q", 1, 1, 0, 1),
    Line("T", 2, 1, 15, 1) }
=============================================================================
