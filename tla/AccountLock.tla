----------------------------- MODULE AccountLock -----------------------------
(***************************************************************************)
(* The readers/writer lock of wet02/src/account.h (class bank repeats it   *)
(* in bank.h): two pthread mutexes and a counter.  Readers count           *)
(* themselves under read_access_lock; the first one takes                  *)
(* write_access_lock for all of them and the last one gives it back.       *)
(*                                                                         *)
(* One action is one statement of the four methods.  A pthread mutex is a  *)
(* Boolean: the default mutex the code initialises records no owner, and   *)
(* write_access_lock is indeed released by the last reader, which need not *)
(* be the thread that locked it.                                           *)
(***************************************************************************)
EXTENDS Naturals, FiniteSets

CONSTANT Thread

ASSUME ThreadAssumption == IsFiniteSet(Thread)

VARIABLES
  pc,                  (* next statement of each thread                  *)
  number_of_readers,
  read_access_lock,    (* TRUE when locked                               *)
  write_access_lock

vars == <<pc, number_of_readers, read_access_lock, write_access_lock>>

Labels == {"idle", "w_lock", "writing",
           "r_lock", "r_count", "r_first", "r_unlock", "reading",
           "x_lock", "x_count", "x_last", "x_unlock"}

TypeOK ==
  /\ pc \in [Thread -> Labels]
  /\ number_of_readers \in Nat
  /\ read_access_lock \in BOOLEAN
  /\ write_access_lock \in BOOLEAN

Init ==
  /\ pc = [t \in Thread |-> "idle"]
  /\ number_of_readers = 0
  /\ read_access_lock = FALSE
  /\ write_access_lock = FALSE

Goto(t, label) == pc' = [pc EXCEPT ![t] = label]

-----------------------------------------------------------------------------
(* lock_for_writers and unlock_for_writers *)

CallWriter(t) ==
  /\ pc[t] = "idle"
  /\ Goto(t, "w_lock")
  /\ UNCHANGED <<number_of_readers, read_access_lock, write_access_lock>>

lock_for_writers(t) ==
  /\ pc[t] = "w_lock"
  /\ ~write_access_lock
  /\ write_access_lock' = TRUE
  /\ Goto(t, "writing")
  /\ UNCHANGED <<number_of_readers, read_access_lock>>

unlock_for_writers(t) ==
  /\ pc[t] = "writing"
  /\ write_access_lock' = FALSE
  /\ Goto(t, "idle")
  /\ UNCHANGED <<number_of_readers, read_access_lock>>

-----------------------------------------------------------------------------
(* lock_for_readers, a statement at a time *)

CallReader(t) ==
  /\ pc[t] = "idle"
  /\ Goto(t, "r_lock")
  /\ UNCHANGED <<number_of_readers, read_access_lock, write_access_lock>>

LockReaders(t) ==
  /\ pc[t] = "r_lock"
  /\ ~read_access_lock
  /\ read_access_lock' = TRUE
  /\ Goto(t, "r_count")
  /\ UNCHANGED <<number_of_readers, write_access_lock>>

(* The bug of an author who tests the count before incrementing it: the    *)
(* second reader, not the first, goes for write_access_lock.               *)
CountReaderTestedEarly(t) ==
  /\ pc[t] = "r_count"
  /\ number_of_readers' = number_of_readers + 1
  /\ Goto(t, IF number_of_readers = 1 THEN "r_first" ELSE "r_unlock")
  /\ UNCHANGED <<read_access_lock, write_access_lock>>

CountReader(t) ==
  /\ pc[t] = "r_count"
  /\ number_of_readers' = number_of_readers + 1
  /\ Goto(t, IF number_of_readers' = 1 THEN "r_first" ELSE "r_unlock")
  /\ UNCHANGED <<read_access_lock, write_access_lock>>

FirstReader(t) ==
  /\ pc[t] = "r_first"
  /\ ~write_access_lock
  /\ write_access_lock' = TRUE
  /\ Goto(t, "r_unlock")
  /\ UNCHANGED <<number_of_readers, read_access_lock>>

(* The bug of a reader that takes the lock in with it: nobody can leave.   *)
AdmitReaderKeepsReadLock(t) ==
  /\ pc[t] = "r_unlock"
  /\ Goto(t, "reading")
  /\ UNCHANGED <<number_of_readers, read_access_lock, write_access_lock>>

AdmitReader(t) ==
  /\ pc[t] = "r_unlock"
  /\ read_access_lock' = FALSE
  /\ Goto(t, "reading")
  /\ UNCHANGED <<number_of_readers, write_access_lock>>

-----------------------------------------------------------------------------
(* unlock_for_readers, a statement at a time *)

LeaveReaders(t) ==
  /\ pc[t] = "reading"
  /\ Goto(t, "x_lock")
  /\ UNCHANGED <<number_of_readers, read_access_lock, write_access_lock>>

LockReadersToLeave(t) ==
  /\ pc[t] = "x_lock"
  /\ ~read_access_lock
  /\ read_access_lock' = TRUE
  /\ Goto(t, "x_count")
  /\ UNCHANGED <<number_of_readers, write_access_lock>>

(* The bug of forgetting that only the last reader reopens the lock.       *)
UncountReaderAlwaysLast(t) ==
  /\ pc[t] = "x_count"
  /\ number_of_readers' = number_of_readers - 1
  /\ Goto(t, "x_last")
  /\ UNCHANGED <<read_access_lock, write_access_lock>>

(* The bug of an early exit that leaves the last reader counted            *)
UncountReaderButLast(t) ==
  /\ pc[t] = "x_count"
  /\ number_of_readers' = IF number_of_readers = 1 THEN 1 ELSE number_of_readers - 1
  /\ Goto(t, IF number_of_readers = 1 THEN "x_last" ELSE "x_unlock")
  /\ UNCHANGED <<read_access_lock, write_access_lock>>

UncountReader(t) ==
  /\ pc[t] = "x_count"
  /\ number_of_readers' = number_of_readers - 1
  /\ Goto(t, IF number_of_readers' = 0 THEN "x_last" ELSE "x_unlock")
  /\ UNCHANGED <<read_access_lock, write_access_lock>>

(* The bug of releasing the wrong mutex: the writers stay shut out.        *)
LastReaderKeepsWriteLock(t) ==
  /\ pc[t] = "x_last"
  /\ Goto(t, "x_unlock")
  /\ UNCHANGED <<number_of_readers, read_access_lock, write_access_lock>>

LastReader(t) ==
  /\ pc[t] = "x_last"
  /\ write_access_lock' = FALSE
  /\ Goto(t, "x_unlock")
  /\ UNCHANGED <<number_of_readers, read_access_lock>>

ReaderLeft(t) ==
  /\ pc[t] = "x_unlock"
  /\ read_access_lock' = FALSE
  /\ Goto(t, "idle")
  /\ UNCHANGED <<number_of_readers, write_access_lock>>

-----------------------------------------------------------------------------
Call(t) == CallWriter(t) \/ CallReader(t)

lock_for_readers(t) ==
  LockReaders(t) \/ CountReader(t) \/ FirstReader(t) \/ AdmitReader(t)

unlock_for_readers(t) ==
  \/ LeaveReaders(t) \/ LockReadersToLeave(t)
  \/ UncountReader(t) \/ LastReader(t) \/ ReaderLeft(t)

Next ==
  \E t \in Thread :
    \/ Call(t)
    \/ lock_for_writers(t) \/ unlock_for_writers(t)
    \/ lock_for_readers(t) \/ unlock_for_readers(t)

Spec == Init /\ [][Next]_vars

(***************************************************************************)
(* A thread may never call the lock again, but one that has called it      *)
(* keeps running its statements (weak fairness), and a mutex that is free  *)
(* again and again is granted in the end to each thread waiting for it     *)
(* (strong fairness on the three kinds of pthread_mutex_lock).             *)
(***************************************************************************)
Fairness ==
  \A t \in Thread :
    /\ SF_vars(lock_for_writers(t))
    /\ WF_vars(unlock_for_writers(t))
    /\ SF_vars(LockReaders(t))
    /\ WF_vars(CountReader(t))
    /\ SF_vars(FirstReader(t))
    /\ WF_vars(AdmitReader(t))
    /\ WF_vars(LeaveReaders(t))
    /\ SF_vars(LockReadersToLeave(t))
    /\ WF_vars(UncountReader(t))
    /\ WF_vars(LastReader(t))
    /\ WF_vars(ReaderLeft(t))

FairSpec == Spec /\ Fairness

-----------------------------------------------------------------------------
(* Who is inside the lock *)

readersIn == {t \in Thread : pc[t] \in {"r_unlock", "reading", "x_lock", "x_count", "x_last"}}

writersIn == {t \in Thread : pc[t] = "writing"}

(* Threads counted in number_of_readers *)
counted == {t \in Thread : pc[t] \in {"r_first", "r_unlock", "reading", "x_lock", "x_count"}}

(* Threads that own read_access_lock *)
HoldsReadAccess(t) ==
  pc[t] \in {"r_count", "r_first", "r_unlock", "x_count", "x_last", "x_unlock"}

(* account.h:33-40: readers share the account, a writer has it alone.  The *)
(* code enforces this only through a count and two mutexes taken by        *)
(* different threads, so it takes three threads to break it.               *)
Exclusion ==
  /\ \A t, u \in writersIn : t = u
  /\ writersIn # {} => readersIn = {}

(* number_of_readers is unsigned (account.h:31): one unlock too many wraps *)
(* it and no writer ever gets in again.  The count is always the number of *)
(* threads that lock_for_readers has counted and not yet uncounted.        *)
ReadersCounted == number_of_readers = Cardinality(counted)

(* The mutexes carry no owner; these say which program points own them.    *)
OneHolder == \A t, u \in Thread : HoldsReadAccess(t) /\ HoldsReadAccess(u) => t = u

ReadAccessHeld == read_access_lock <=> \E t \in Thread : HoldsReadAccess(t)

WriteAccessHeld == write_access_lock <=> (readersIn \cup writersIn # {})

(* What the two tests of the count know when they succeed                  *)
CountTested ==
  \A t \in Thread : /\ pc[t] = "r_first" => number_of_readers = 1
                    /\ pc[t] = "x_last" => number_of_readers = 0

(* The invariant is inductive: the owners of the two mutexes, the count    *)
(* and the threads inside account for each other (account.h:57-74).        *)
IInv ==
  /\ TypeOK
  /\ ReadersCounted
  /\ Exclusion
  /\ OneHolder
  /\ ReadAccessHeld
  /\ WriteAccessHeld
  /\ CountTested

(* A thread that stands at a pthread_mutex_lock whose mutex is locked      *)
Blocked(t) ==
  \/ pc[t] \in {"w_lock", "r_first"} /\ write_access_lock
  \/ pc[t] \in {"r_lock", "x_lock"} /\ read_access_lock

(* The two mutexes never deadlock, although the first reader waits for one *)
(* while it holds the other (account.h:57-63): whenever threads are at the *)
(* lock, in it or on their way out, one of them can move.                  *)
NobodyStuck ==
  (\E t \in Thread : pc[t] # "idle") => \E t \in Thread : pc[t] # "idle" /\ ~Blocked(t)

(* The lock the header promises.                                           *)
RW == INSTANCE ReadersWriterLock WITH readers <- readersIn, writers <- writersIn

(* The two mutexes and the counter implement the lock account.h:33-40      *)
(* describes: threads enter and leave it one at a time, a reader only when *)
(* no writer is inside, a writer only when nobody is.                      *)
ImplementsReadersWriterLock == RW!Spec

(* A thread that calls lock_for_readers gets in, whatever the writers and  *)
(* the other readers do: the reader that holds read_access_lock while it   *)
(* waits for the writer blocks the readers behind it only for a while.     *)
ReaderGetsIn == \A t \in Thread : (pc[t] = "r_lock") ~> (pc[t] = "reading")

(* Every thread inside gets out, a reader as well as a writer, although a  *)
(* reader has to lock read_access_lock to leave, against all the readers   *)
(* that come.  The account need not become free: readers may overlap for   *)
(* ever.                                                                   *)
EveryoneGetsOut ==
  \A t \in Thread : (t \in readersIn \cup writersIn) ~> (pc[t] = "idle")
=============================================================================
