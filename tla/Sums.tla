-------------------------------- MODULE Sums --------------------------------
(***************************************************************************)
(* The sum of amounts, which are natural numbers, as the number of coins   *)
(* that make them up: a definition without recursion, about which the      *)
(* theorems on finite sets say all that is needed.                         *)
(***************************************************************************)
EXTENDS Integers, FiniteSets

Coins(f, S) == UNION { {a} \X (1..f[a]) : a \in S }

SumOver(f, S) == Cardinality(Coins(f, S))
=============================================================================
