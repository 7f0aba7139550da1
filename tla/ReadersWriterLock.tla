-------------------------- MODULE ReadersWriterLock --------------------------
(***************************************************************************)
(* What account.h promises of the lock inside an account: any number of    *)
(* threads may be inside as readers, or one thread as the writer, never    *)
(* both.  AccountLock models how the code builds this lock from two        *)
(* pthread mutexes and a counter, and implements this specification.       *)
(***************************************************************************)
CONSTANT Thread

VARIABLES
  readers,    (* threads between lock_for_readers and unlock_for_readers *)
  writers     (* threads between lock_for_writers and unlock_for_writers *)

vars == <<readers, writers>>

Init ==
  /\ readers = {}
  /\ writers = {}

StartRead(t) ==
  /\ t \notin readers
  /\ writers = {}
  /\ readers' = readers \cup {t}
  /\ UNCHANGED writers

EndRead(t) ==
  /\ t \in readers
  /\ readers' = readers \ {t}
  /\ UNCHANGED writers

StartWrite(t) ==
  /\ readers = {}
  /\ writers = {}
  /\ writers' = {t}
  /\ UNCHANGED readers

EndWrite(t) ==
  /\ writers = {t}
  /\ writers' = {}
  /\ UNCHANGED readers

Next ==
  \E t \in Thread : StartRead(t) \/ EndRead(t) \/ StartWrite(t) \/ EndWrite(t)

Spec == Init /\ [][Next]_vars
=============================================================================
