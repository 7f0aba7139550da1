------------------------------ MODULE MCTtftps ------------------------------
(* Values of Ttftps' constants for TLC *)
EXTENDS TtftpsProperties, TLC

CONSTANTS a1, a2, a3, a4, f1, f2, k1, k2

File(name, full, tail) == [name |-> name, full |-> full, tail |-> tail]

(* A file of one odd block, one from a client that strcmp cannot tell from *)
(* the first, one of the same name with more blocks than block numbers,    *)
(* and a client whose key is empty                                         *)
Uploads == a1 :> File(f1, 0, "odd") @@ a2 :> File(f2, 1, "short") @@ a3 :> File(f1, 2, "short")
  @@ a4 :> File(f1, 0, "short")

Keys == a1 :> k1 @@ a2 :> k1 @@ a3 :> k2 @@ a4 :> NoKey

Nothing == f1 :> <<>> @@ f2 :> <<>>

(* A file that an earlier run of the server has left                       *)
Leftover == f1 :> << [from |-> a3, n |-> 1] >> @@ f2 :> <<>>
=============================================================================
