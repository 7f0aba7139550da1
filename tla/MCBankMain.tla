----------------------------- MODULE MCBankMain -----------------------------
(* Values of BankMain's constants for TLC *)
EXTENDS BankMain

Line(op, acc, pw, amt, tgt) == [op |-> op, acc |-> acc, pw |-> pw, amt |-> amt, tgt |-> tgt]

(* Few lines, one with an unknown letter: main, not the six functions, is  *)
(* what this module looks at.                                              *)
MCCommand == { Line("O", 1, 1, 20, 1), Line("W", 1, 1, 15, 1), Line("X", 1, 1, 0, 1) }
=============================================================================
