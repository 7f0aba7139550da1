------------------------------ MODULE MCSmash ------------------------------
(* Values of Smash's constants for TLC *)
EXTENDS SmashProperties

(* Jobs are named by number, or not at all; job 2 may have one before it   *)
(* or one after it.                                                        *)
MCArgument == {2}

(* Signals that set each status, and one that sets none                    *)
MCTyped == {1, 6, 9, 18, 20}
=============================================================================
