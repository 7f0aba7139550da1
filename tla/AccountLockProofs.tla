-------------------------- MODULE AccountLockProofs --------------------------
(***************************************************************************)
(* Proofs, for any finite set of threads, that the two mutexes and the     *)
(* count of account.h are a readers/writer lock.                           *)
(***************************************************************************)
EXTENDS AccountLock, FiniteSetTheorems, TLAPS

(* The count and its set, which TLAPS is told in one place                 *)
LEMMA CountedFinite ==
  ASSUME TypeOK
  PROVE  /\ IsFiniteSet(counted)
         /\ Cardinality(counted) \in Nat
         /\ Cardinality(counted) = 0 <=> counted = {}
<1>1. counted \in SUBSET Thread
  BY DEF counted
<1>2. IsFiniteSet(counted)
  BY <1>1, ThreadAssumption, FS_Subset
<1> QED
  BY <1>2, FS_CardinalityType, FS_EmptySet

(* With nobody at the lock, both mutexes are free and the count is zero.   *)
LEMMA InitIInv == Init => IInv
<1> SUFFICES ASSUME Init PROVE IInv
  OBVIOUS
<1>1. TypeOK
  BY DEF Init, TypeOK, Labels
<1>2. counted = {} /\ readersIn = {} /\ writersIn = {}
  BY DEF Init, counted, readersIn, writersIn
<1>3. Cardinality(counted) = 0
  BY <1>2, FS_EmptySet
<1> QED
  BY <1>1, <1>2, <1>3
  DEF Init, IInv, ReadersCounted, Exclusion, OneHolder, ReadAccessHeld,
      WriteAccessHeld, CountTested, HoldsReadAccess

(* The count never goes below zero: only a counted reader uncounts itself. *)
LEMMA TypeStep == TypeOK /\ ReadersCounted /\ [Next]_vars => TypeOK'
<1> SUFFICES ASSUME TypeOK, ReadersCounted, [Next]_vars PROVE TypeOK'
  OBVIOUS
<1> USE DEF TypeOK, Labels, Goto
<1>1. ASSUME NEW t \in Thread, CallWriter(t) PROVE TypeOK'
  BY <1>1 DEF CallWriter
<1>2. ASSUME NEW t \in Thread, lock_for_writers(t) PROVE TypeOK'
  BY <1>2 DEF lock_for_writers
<1>3. ASSUME NEW t \in Thread, unlock_for_writers(t) PROVE TypeOK'
  BY <1>3 DEF unlock_for_writers
<1>4. ASSUME NEW t \in Thread, CallReader(t) PROVE TypeOK'
  BY <1>4 DEF CallReader
<1>5. ASSUME NEW t \in Thread, LockReaders(t) PROVE TypeOK'
  BY <1>5 DEF LockReaders
<1>6. ASSUME NEW t \in Thread, CountReader(t) PROVE TypeOK'
  BY <1>6 DEF CountReader
<1>7. ASSUME NEW t \in Thread, FirstReader(t) PROVE TypeOK'
  BY <1>7 DEF FirstReader
<1>8. ASSUME NEW t \in Thread, AdmitReader(t) PROVE TypeOK'
  BY <1>8 DEF AdmitReader
<1>9. ASSUME NEW t \in Thread, LeaveReaders(t) PROVE TypeOK'
  BY <1>9 DEF LeaveReaders
<1>10. ASSUME NEW t \in Thread, LockReadersToLeave(t) PROVE TypeOK'
  BY <1>10 DEF LockReadersToLeave
<1>11. ASSUME NEW t \in Thread, UncountReader(t) PROVE TypeOK'
  <2>1. t \in counted
    BY <1>11 DEF UncountReader, counted
  <2>2. number_of_readers # 0
    BY <2>1, CountedFinite DEF ReadersCounted
  <2> QED
    BY <1>11, <2>2 DEF UncountReader
<1>12. ASSUME NEW t \in Thread, LastReader(t) PROVE TypeOK'
  BY <1>12 DEF LastReader
<1>13. ASSUME NEW t \in Thread, ReaderLeft(t) PROVE TypeOK'
  BY <1>13 DEF ReaderLeft
<1>14. CASE UNCHANGED vars
  BY <1>14 DEF vars
<1> QED
  BY <1>1, <1>2, <1>3, <1>4, <1>5, <1>6, <1>7, <1>8, <1>9, <1>10, <1>11, <1>12, <1>13, <1>14
  DEF Next, Call, lock_for_readers, unlock_for_readers

(***************************************************************************)
(* The inductive step: under each action, first how the three sets of      *)
(* threads change, then the parts of the invariant it can disturb.         *)
(***************************************************************************)
LEMMA InductiveStep == IInv /\ [Next]_vars => IInv'
<1> SUFFICES ASSUME IInv, [Next]_vars PROVE IInv'
  OBVIOUS
<1> USE DEF Goto, HoldsReadAccess
<1>0. TypeOK' /\ TypeOK
  BY TypeStep DEF IInv
<1>a. IsFiniteSet(counted) /\ number_of_readers = Cardinality(counted)
      /\ (number_of_readers = 0 <=> counted = {}) /\ number_of_readers \in Nat
  BY <1>0, CountedFinite DEF IInv, ReadersCounted
<1>1. ASSUME NEW t \in Thread, CallWriter(t) PROVE IInv'
  <2>1. /\ counted' = counted
        /\ readersIn' = readersIn
        /\ writersIn' = writersIn
    BY <1>0, <1>a, <1>1 DEF CallWriter, IInv, counted, readersIn, writersIn, TypeOK
  <2>2. ReadersCounted'
    BY <1>a, <1>1, <2>1, FS_AddElement, FS_RemoveElement DEF CallWriter, ReadersCounted, counted
  <2>3. Exclusion'
    BY <1>0, <1>a, <1>1, <2>1 DEF CallWriter, IInv, Exclusion, WriteAccessHeld, counted, readersIn, writersIn, TypeOK
  <2>4. OneHolder' /\ ReadAccessHeld'
    BY <1>0, <1>1 DEF CallWriter, IInv, OneHolder, ReadAccessHeld, TypeOK
  <2>5. WriteAccessHeld'
    BY <1>0, <1>a, <1>1, <2>1 DEF CallWriter, IInv, Exclusion, OneHolder, WriteAccessHeld, CountTested, counted, readersIn, writersIn, TypeOK
  <2>6. CountTested'
    BY <1>0, <1>a, <1>1 DEF CallWriter, IInv, OneHolder, CountTested, TypeOK
  <2> QED
    BY <1>0, <2>2, <2>3, <2>4, <2>5, <2>6 DEF IInv
<1>2. ASSUME NEW t \in Thread, lock_for_writers(t) PROVE IInv'
  <2>1. /\ counted' = counted
        /\ readersIn' = readersIn
        /\ writersIn' = writersIn \cup {t}
    BY <1>0, <1>a, <1>2 DEF lock_for_writers, IInv, counted, readersIn, writersIn, TypeOK
  <2>2. ReadersCounted'
    BY <1>a, <1>2, <2>1, FS_AddElement, FS_RemoveElement DEF lock_for_writers, ReadersCounted, counted
  <2>3. Exclusion'
    BY <1>0, <1>a, <1>2, <2>1 DEF lock_for_writers, IInv, Exclusion, WriteAccessHeld, counted, readersIn, writersIn, TypeOK
  <2>4. OneHolder' /\ ReadAccessHeld'
    BY <1>0, <1>2 DEF lock_for_writers, IInv, OneHolder, ReadAccessHeld, TypeOK
  <2>5. WriteAccessHeld'
    BY <1>0, <1>a, <1>2, <2>1 DEF lock_for_writers, IInv, Exclusion, OneHolder, WriteAccessHeld, CountTested, counted, readersIn, writersIn, TypeOK
  <2>6. CountTested'
    BY <1>0, <1>a, <1>2 DEF lock_for_writers, IInv, OneHolder, CountTested, TypeOK
  <2> QED
    BY <1>0, <2>2, <2>3, <2>4, <2>5, <2>6 DEF IInv
<1>3. ASSUME NEW t \in Thread, unlock_for_writers(t) PROVE IInv'
  <2>1. /\ counted' = counted
        /\ readersIn' = readersIn
        /\ writersIn' = writersIn \ {t}
    BY <1>0, <1>a, <1>3 DEF unlock_for_writers, IInv, counted, readersIn, writersIn, TypeOK
  <2>2. ReadersCounted'
    BY <1>a, <1>3, <2>1, FS_AddElement, FS_RemoveElement DEF unlock_for_writers, ReadersCounted, counted
  <2>3. Exclusion'
    BY <1>0, <1>a, <1>3, <2>1 DEF unlock_for_writers, IInv, Exclusion, WriteAccessHeld, counted, readersIn, writersIn, TypeOK
  <2>4. OneHolder' /\ ReadAccessHeld'
    BY <1>0, <1>3 DEF unlock_for_writers, IInv, OneHolder, ReadAccessHeld, TypeOK
  <2>5. WriteAccessHeld'
    BY <1>0, <1>a, <1>3, <2>1 DEF unlock_for_writers, IInv, Exclusion, OneHolder, WriteAccessHeld, CountTested, counted, readersIn, writersIn, TypeOK
  <2>6. CountTested'
    BY <1>0, <1>a, <1>3 DEF unlock_for_writers, IInv, OneHolder, CountTested, TypeOK
  <2> QED
    BY <1>0, <2>2, <2>3, <2>4, <2>5, <2>6 DEF IInv
<1>4. ASSUME NEW t \in Thread, CallReader(t) PROVE IInv'
  <2>1. /\ counted' = counted
        /\ readersIn' = readersIn
        /\ writersIn' = writersIn
    BY <1>0, <1>a, <1>4 DEF CallReader, IInv, counted, readersIn, writersIn, TypeOK
  <2>2. ReadersCounted'
    BY <1>a, <1>4, <2>1, FS_AddElement, FS_RemoveElement DEF CallReader, ReadersCounted, counted
  <2>3. Exclusion'
    BY <1>0, <1>a, <1>4, <2>1 DEF CallReader, IInv, Exclusion, WriteAccessHeld, counted, readersIn, writersIn, TypeOK
  <2>4. OneHolder' /\ ReadAccessHeld'
    BY <1>0, <1>4 DEF CallReader, IInv, OneHolder, ReadAccessHeld, TypeOK
  <2>5. WriteAccessHeld'
    BY <1>0, <1>a, <1>4, <2>1 DEF CallReader, IInv, Exclusion, OneHolder, WriteAccessHeld, CountTested, counted, readersIn, writersIn, TypeOK
  <2>6. CountTested'
    BY <1>0, <1>a, <1>4 DEF CallReader, IInv, OneHolder, CountTested, TypeOK
  <2> QED
    BY <1>0, <2>2, <2>3, <2>4, <2>5, <2>6 DEF IInv
<1>5. ASSUME NEW t \in Thread, LockReaders(t) PROVE IInv'
  <2>1. /\ counted' = counted
        /\ readersIn' = readersIn
        /\ writersIn' = writersIn
    BY <1>0, <1>a, <1>5 DEF LockReaders, IInv, counted, readersIn, writersIn, TypeOK
  <2>2. ReadersCounted'
    BY <1>a, <1>5, <2>1, FS_AddElement, FS_RemoveElement DEF LockReaders, ReadersCounted, counted
  <2>3. Exclusion'
    BY <1>0, <1>a, <1>5, <2>1 DEF LockReaders, IInv, Exclusion, WriteAccessHeld, counted, readersIn, writersIn, TypeOK
  <2>4. OneHolder' /\ ReadAccessHeld'
    BY <1>0, <1>5 DEF LockReaders, IInv, OneHolder, ReadAccessHeld, TypeOK
  <2>5. WriteAccessHeld'
    BY <1>0, <1>a, <1>5, <2>1 DEF LockReaders, IInv, Exclusion, OneHolder, WriteAccessHeld, CountTested, counted, readersIn, writersIn, TypeOK
  <2>6. CountTested'
    BY <1>0, <1>a, <1>5 DEF LockReaders, IInv, OneHolder, CountTested, TypeOK
  <2> QED
    BY <1>0, <2>2, <2>3, <2>4, <2>5, <2>6 DEF IInv
<1>6. ASSUME NEW t \in Thread, CountReader(t) PROVE IInv'
  <2>0. /\ number_of_readers = 0 => pc' = [pc EXCEPT ![t] = "r_first"]
        /\ number_of_readers # 0 => pc' = [pc EXCEPT ![t] = "r_unlock"]
    <3>1. number_of_readers' = 1 <=> number_of_readers = 0
      BY <1>a, <1>6 DEF CountReader
    <3> QED
      BY <1>6, <3>1, Zenon DEF CountReader
  <2>1. /\ counted' = counted \cup {t}
        /\ readersIn' = (IF number_of_readers = 0 THEN readersIn ELSE readersIn \cup {t})
        /\ writersIn' = writersIn
    <3>1. pc[t] = "r_count"
      BY <1>6 DEF CountReader
    <3>2. CASE number_of_readers = 0
      BY <1>0, <2>0, <3>1, <3>2 DEF counted, readersIn, writersIn, TypeOK
    <3>3. CASE number_of_readers # 0
      BY <1>0, <2>0, <3>1, <3>3 DEF counted, readersIn, writersIn, TypeOK
    <3> QED
      BY <3>2, <3>3
  <2>2. ReadersCounted'
    <3>1. t \notin counted /\ number_of_readers' = number_of_readers + 1
      BY <1>6 DEF CountReader, counted
    <3>2. Cardinality(counted \cup {t}) = Cardinality(counted) + 1
      BY <1>a, <3>1, FS_AddElement
    <3>3. Cardinality(counted') = Cardinality(counted \cup {t})
      BY <2>1
    <3> QED
      BY <1>a, <3>1, <3>2, <3>3 DEF ReadersCounted
  <2>3. Exclusion'
    <3>1. CASE number_of_readers = 0
      BY <2>1, <3>1 DEF IInv, Exclusion
    <3>2. CASE number_of_readers # 0
      <4>1. PICK u \in Thread : u \in counted
        BY <1>a, <3>2 DEF counted
      <4>2. pc[u] # "r_first"
        BY <1>6 DEF CountReader, IInv, OneHolder
      <4>3. u \in readersIn
        BY <4>1, <4>2 DEF counted, readersIn
      <4> QED
        BY <2>1, <4>3 DEF IInv, Exclusion
    <3> QED
      BY <3>1, <3>2
  <2>4. OneHolder' /\ ReadAccessHeld'
    BY <1>0, <1>6 DEF CountReader, IInv, OneHolder, ReadAccessHeld, TypeOK
  <2>5. WriteAccessHeld'
    BY <1>0, <1>a, <1>6, <2>1 DEF CountReader, IInv, Exclusion, OneHolder, WriteAccessHeld, CountTested, counted, readersIn, writersIn, TypeOK
  <2>6. CountTested'
    BY <1>0, <1>a, <1>6 DEF CountReader, IInv, OneHolder, CountTested, TypeOK
  <2> QED
    BY <1>0, <2>2, <2>3, <2>4, <2>5, <2>6 DEF IInv
<1>7. ASSUME NEW t \in Thread, FirstReader(t) PROVE IInv'
  <2>1. /\ counted' = counted
        /\ readersIn' = readersIn \cup {t}
        /\ writersIn' = writersIn
    BY <1>0, <1>a, <1>7 DEF FirstReader, IInv, counted, readersIn, writersIn, TypeOK
  <2>2. ReadersCounted'
    BY <1>a, <1>7, <2>1, FS_AddElement, FS_RemoveElement DEF FirstReader, ReadersCounted, counted
  <2>3. Exclusion'
    BY <1>0, <1>a, <1>7, <2>1 DEF FirstReader, IInv, Exclusion, WriteAccessHeld, counted, readersIn, writersIn, TypeOK
  <2>4. OneHolder' /\ ReadAccessHeld'
    BY <1>0, <1>7 DEF FirstReader, IInv, OneHolder, ReadAccessHeld, TypeOK
  <2>5. WriteAccessHeld'
    BY <1>0, <1>a, <1>7, <2>1 DEF FirstReader, IInv, Exclusion, OneHolder, WriteAccessHeld, CountTested, counted, readersIn, writersIn, TypeOK
  <2>6. CountTested'
    BY <1>0, <1>a, <1>7 DEF FirstReader, IInv, OneHolder, CountTested, TypeOK
  <2> QED
    BY <1>0, <2>2, <2>3, <2>4, <2>5, <2>6 DEF IInv
<1>8. ASSUME NEW t \in Thread, AdmitReader(t) PROVE IInv'
  <2>1. /\ counted' = counted
        /\ readersIn' = readersIn
        /\ writersIn' = writersIn
    BY <1>0, <1>a, <1>8 DEF AdmitReader, IInv, counted, readersIn, writersIn, TypeOK
  <2>2. ReadersCounted'
    BY <1>a, <1>8, <2>1, FS_AddElement, FS_RemoveElement DEF AdmitReader, ReadersCounted, counted
  <2>3. Exclusion'
    BY <1>0, <1>a, <1>8, <2>1 DEF AdmitReader, IInv, Exclusion, WriteAccessHeld, counted, readersIn, writersIn, TypeOK
  <2>4. OneHolder' /\ ReadAccessHeld'
    BY <1>0, <1>8 DEF AdmitReader, IInv, OneHolder, ReadAccessHeld, TypeOK
  <2>5. WriteAccessHeld'
    BY <1>0, <1>a, <1>8, <2>1 DEF AdmitReader, IInv, Exclusion, OneHolder, WriteAccessHeld, CountTested, counted, readersIn, writersIn, TypeOK
  <2>6. CountTested'
    BY <1>0, <1>a, <1>8 DEF AdmitReader, IInv, OneHolder, CountTested, TypeOK
  <2> QED
    BY <1>0, <2>2, <2>3, <2>4, <2>5, <2>6 DEF IInv
<1>9. ASSUME NEW t \in Thread, LeaveReaders(t) PROVE IInv'
  <2>1. /\ counted' = counted
        /\ readersIn' = readersIn
        /\ writersIn' = writersIn
    BY <1>0, <1>a, <1>9 DEF LeaveReaders, IInv, counted, readersIn, writersIn, TypeOK
  <2>2. ReadersCounted'
    BY <1>a, <1>9, <2>1, FS_AddElement, FS_RemoveElement DEF LeaveReaders, ReadersCounted, counted
  <2>3. Exclusion'
    BY <1>0, <1>a, <1>9, <2>1 DEF LeaveReaders, IInv, Exclusion, WriteAccessHeld, counted, readersIn, writersIn, TypeOK
  <2>4. OneHolder' /\ ReadAccessHeld'
    BY <1>0, <1>9 DEF LeaveReaders, IInv, OneHolder, ReadAccessHeld, TypeOK
  <2>5. WriteAccessHeld'
    BY <1>0, <1>a, <1>9, <2>1 DEF LeaveReaders, IInv, Exclusion, OneHolder, WriteAccessHeld, CountTested, counted, readersIn, writersIn, TypeOK
  <2>6. CountTested'
    BY <1>0, <1>a, <1>9 DEF LeaveReaders, IInv, OneHolder, CountTested, TypeOK
  <2> QED
    BY <1>0, <2>2, <2>3, <2>4, <2>5, <2>6 DEF IInv
<1>10. ASSUME NEW t \in Thread, LockReadersToLeave(t) PROVE IInv'
  <2>1. /\ counted' = counted
        /\ readersIn' = readersIn
        /\ writersIn' = writersIn
    BY <1>0, <1>a, <1>10 DEF LockReadersToLeave, IInv, counted, readersIn, writersIn, TypeOK
  <2>2. ReadersCounted'
    BY <1>a, <1>10, <2>1, FS_AddElement, FS_RemoveElement DEF LockReadersToLeave, ReadersCounted, counted
  <2>3. Exclusion'
    BY <1>0, <1>a, <1>10, <2>1 DEF LockReadersToLeave, IInv, Exclusion, WriteAccessHeld, counted, readersIn, writersIn, TypeOK
  <2>4. OneHolder' /\ ReadAccessHeld'
    BY <1>0, <1>10 DEF LockReadersToLeave, IInv, OneHolder, ReadAccessHeld, TypeOK
  <2>5. WriteAccessHeld'
    BY <1>0, <1>a, <1>10, <2>1 DEF LockReadersToLeave, IInv, Exclusion, OneHolder, WriteAccessHeld, CountTested, counted, readersIn, writersIn, TypeOK
  <2>6. CountTested'
    BY <1>0, <1>a, <1>10 DEF LockReadersToLeave, IInv, OneHolder, CountTested, TypeOK
  <2> QED
    BY <1>0, <2>2, <2>3, <2>4, <2>5, <2>6 DEF IInv
<1>11. ASSUME NEW t \in Thread, UncountReader(t) PROVE IInv'
  <2>0. /\ number_of_readers = 1 => pc' = [pc EXCEPT ![t] = "x_last"]
        /\ number_of_readers # 1 => pc' = [pc EXCEPT ![t] = "x_unlock"]
    <3>1. number_of_readers' = 0 <=> number_of_readers = 1
      BY <1>a, <1>11 DEF UncountReader
    <3> QED
      BY <1>11, <3>1, Zenon DEF UncountReader
  <2>1. /\ counted' = counted \ {t}
        /\ readersIn' = (IF number_of_readers = 1 THEN readersIn ELSE readersIn \ {t})
        /\ writersIn' = writersIn
    <3>1. pc[t] = "x_count"
      BY <1>11 DEF UncountReader
    <3>2. CASE number_of_readers = 1
      BY <1>0, <2>0, <3>1, <3>2 DEF counted, readersIn, writersIn, TypeOK
    <3>3. CASE number_of_readers # 1
      BY <1>0, <2>0, <3>1, <3>3 DEF counted, readersIn, writersIn, TypeOK
    <3> QED
      BY <3>2, <3>3
  <2>2. ReadersCounted'
    <3>1. t \in counted /\ number_of_readers' = number_of_readers - 1
      BY <1>11 DEF UncountReader, counted
    <3>2. Cardinality(counted \ {t}) = Cardinality(counted) - 1
      BY <1>a, <3>1, FS_RemoveElement
    <3>3. Cardinality(counted') = Cardinality(counted \ {t})
      BY <2>1
    <3> QED
      BY <1>a, <3>1, <3>2, <3>3 DEF ReadersCounted
  <2>3. Exclusion'
    BY <1>0, <1>a, <1>11, <2>1 DEF UncountReader, IInv, Exclusion, WriteAccessHeld, counted, readersIn, writersIn, TypeOK
  <2>4. OneHolder' /\ ReadAccessHeld'
    BY <1>0, <1>11 DEF UncountReader, IInv, OneHolder, ReadAccessHeld, TypeOK
  <2>5. WriteAccessHeld'
    <3>1. t \in readersIn /\ write_access_lock /\ write_access_lock'
      BY <1>11 DEF UncountReader, IInv, WriteAccessHeld, readersIn
    <3>2. CASE number_of_readers = 1
      BY <2>1, <3>1, <3>2 DEF WriteAccessHeld
    <3>3. CASE number_of_readers # 1
      <4>1. counted' # {}
        BY <1>0, <1>a, <1>11, <2>2, <3>3, CountedFinite, FS_EmptySet
        DEF UncountReader, ReadersCounted
      <4>2. PICK u \in Thread : u \in counted \ {t}
        BY <2>1, <4>1 DEF counted
      <4>3. pc[u] # "r_first"
        BY <1>11, <4>2 DEF UncountReader, IInv, OneHolder
      <4>4. u \in readersIn'
        BY <2>1, <3>3, <4>2, <4>3 DEF counted, readersIn
      <4> QED
        BY <3>1, <4>4 DEF WriteAccessHeld
    <3> QED
      BY <3>2, <3>3
  <2>6. CountTested'
    BY <1>0, <1>a, <1>11 DEF UncountReader, IInv, OneHolder, CountTested, TypeOK
  <2> QED
    BY <1>0, <2>2, <2>3, <2>4, <2>5, <2>6 DEF IInv
<1>12. ASSUME NEW t \in Thread, LastReader(t) PROVE IInv'
  <2>1. /\ counted' = counted
        /\ readersIn' = readersIn \ {t}
        /\ writersIn' = writersIn
    BY <1>0, <1>a, <1>12 DEF LastReader, IInv, counted, readersIn, writersIn, TypeOK
  <2>2. ReadersCounted'
    BY <1>a, <1>12, <2>1, FS_AddElement, FS_RemoveElement DEF LastReader, ReadersCounted, counted
  <2>3. Exclusion'
    BY <1>0, <1>a, <1>12, <2>1 DEF LastReader, IInv, Exclusion, WriteAccessHeld, counted, readersIn, writersIn, TypeOK
  <2>4. OneHolder' /\ ReadAccessHeld'
    BY <1>0, <1>12 DEF LastReader, IInv, OneHolder, ReadAccessHeld, TypeOK
  <2>5. WriteAccessHeld'
    BY <1>0, <1>a, <1>12, <2>1 DEF LastReader, IInv, Exclusion, OneHolder, WriteAccessHeld, CountTested, counted, readersIn, writersIn, TypeOK
  <2>6. CountTested'
    BY <1>0, <1>a, <1>12 DEF LastReader, IInv, OneHolder, CountTested, TypeOK
  <2> QED
    BY <1>0, <2>2, <2>3, <2>4, <2>5, <2>6 DEF IInv
<1>13. ASSUME NEW t \in Thread, ReaderLeft(t) PROVE IInv'
  <2>1. /\ counted' = counted
        /\ readersIn' = readersIn
        /\ writersIn' = writersIn
    BY <1>0, <1>a, <1>13 DEF ReaderLeft, IInv, counted, readersIn, writersIn, TypeOK
  <2>2. ReadersCounted'
    BY <1>a, <1>13, <2>1, FS_AddElement, FS_RemoveElement DEF ReaderLeft, ReadersCounted, counted
  <2>3. Exclusion'
    BY <1>0, <1>a, <1>13, <2>1 DEF ReaderLeft, IInv, Exclusion, WriteAccessHeld, counted, readersIn, writersIn, TypeOK
  <2>4. OneHolder' /\ ReadAccessHeld'
    BY <1>0, <1>13 DEF ReaderLeft, IInv, OneHolder, ReadAccessHeld, TypeOK
  <2>5. WriteAccessHeld'
    BY <1>0, <1>a, <1>13, <2>1 DEF ReaderLeft, IInv, Exclusion, OneHolder, WriteAccessHeld, CountTested, counted, readersIn, writersIn, TypeOK
  <2>6. CountTested'
    BY <1>0, <1>a, <1>13 DEF ReaderLeft, IInv, OneHolder, CountTested, TypeOK
  <2> QED
    BY <1>0, <2>2, <2>3, <2>4, <2>5, <2>6 DEF IInv
<1>14. CASE UNCHANGED vars
  BY <1>0, <1>14 DEF vars, IInv, ReadersCounted, Exclusion, OneHolder, ReadAccessHeld,
     WriteAccessHeld, CountTested, counted, readersIn, writersIn
<1> QED
  BY <1>1, <1>2, <1>3, <1>4, <1>5, <1>6, <1>7, <1>8, <1>9, <1>10, <1>11, <1>12, <1>13, <1>14
  DEF Next, Call, lock_for_readers, unlock_for_readers

(***************************************************************************)
(* Whatever the number of threads and the order of their statements, the   *)
(* mutexes, the count and the threads inside account for each other        *)
(* (account.h:57-74).                                                      *)
(***************************************************************************)
THEOREM Inductive == Spec => []IInv
<1> QED
  BY InitIInv, InductiveStep, PTL DEF Spec

(* A writer has the account to itself; readers share it (account.h:33-40). *)
THEOREM ExclusionHolds == Spec => []Exclusion
<1>1. IInv => Exclusion
  BY DEF IInv
<1> QED
  BY <1>1, Inductive, PTL

(* number_of_readers never wraps and never forgets a reader.               *)
THEOREM ReadersCountedHolds == Spec => []ReadersCounted
<1>1. IInv => ReadersCounted
  BY DEF IInv
<1> QED
  BY <1>1, Inductive, PTL

-----------------------------------------------------------------------------
(* The first reader waits for the writer with read_access_lock in hand;    *)
(* yet some thread that has called the lock can always move.               *)
THEOREM NobodyStuckHolds == Spec => []NobodyStuck
<1>1. IInv => NobodyStuck
  <2> SUFFICES ASSUME IInv,
                      \A t \in Thread : pc[t] # "idle" => Blocked(t),
                      NEW t \in Thread, pc[t] # "idle"
               PROVE  FALSE
    BY DEF NobodyStuck
  (* The writer inside could leave; so could a reader that owns            *)
  (* read_access_lock, unless it is the first one.                         *)
  <2>1. writersIn = {}
    BY DEF writersIn, Blocked
  <2>2. ASSUME NEW u \in Thread, HoldsReadAccess(u)
        PROVE  pc[u] = "r_first" /\ write_access_lock
    BY <2>2 DEF HoldsReadAccess, Blocked
  (* Then readers are inside: one at x_lock waits for the first reader.    *)
  <2>3. ~write_access_lock => FALSE
    BY <2>2 DEF Blocked, IInv, ReadAccessHeld
  <2>4. PICK u \in readersIn : TRUE
    BY <2>1, <2>3 DEF IInv, WriteAccessHeld
  <2>5. u \in Thread /\ pc[u] = "x_lock" /\ read_access_lock
    BY <2>4 DEF readersIn, Blocked
  <2>6. PICK v \in Thread : HoldsReadAccess(v)
    BY <2>5 DEF IInv, ReadAccessHeld
  <2>7. pc[v] = "r_first"
    BY <2>2, <2>6
  (* But the first reader has counted nobody but itself.                   *)
  <2>8. Cardinality(counted) = 1 /\ u \in counted /\ v \in counted /\ u # v
    BY <2>5, <2>6, <2>7 DEF IInv, CountTested, ReadersCounted, counted
  <2> QED
    BY <2>8, CountedFinite, FS_Singleton DEF IInv
<1> QED
  BY <1>1, Inductive, PTL

(***************************************************************************)
(* Refinement.  Each action changes at most one of the two sets, by one    *)
(* thread: a step of the abstract lock.  The others leave both alone.      *)
(***************************************************************************)
LEMMA StepRefines == IInv /\ IInv' /\ [Next]_vars => [RW!Next]_(RW!vars)
<1> SUFFICES ASSUME IInv, IInv', [Next]_vars PROVE [RW!Next]_(RW!vars)
  OBVIOUS
<1> USE DEF Goto
<1>0. TypeOK
  BY DEF IInv
<1>1. ASSUME NEW t \in Thread, lock_for_writers(t) PROVE RW!StartWrite(t)
  <2>1. readersIn = {} /\ writersIn = {}
    BY <1>1 DEF lock_for_writers, IInv, WriteAccessHeld
  <2>2. readersIn' = readersIn /\ writersIn' = writersIn \cup {t}
    BY <1>0, <1>1 DEF lock_for_writers, readersIn, writersIn, TypeOK
  <2> QED
    BY <2>1, <2>2 DEF RW!StartWrite
<1>2. ASSUME NEW t \in Thread, unlock_for_writers(t) PROVE RW!EndWrite(t)
  <2>1. writersIn = {t}
    BY <1>2 DEF unlock_for_writers, IInv, Exclusion, writersIn
  <2>2. readersIn' = readersIn /\ writersIn' = writersIn \ {t}
    BY <1>0, <1>2 DEF unlock_for_writers, readersIn, writersIn, TypeOK
  <2> QED
    BY <2>1, <2>2 DEF RW!EndWrite
<1>3. ASSUME NEW t \in Thread, CountReader(t) PROVE RW!StartRead(t) \/ UNCHANGED RW!vars
  <2>1. CASE pc'[t] = "r_first"
    BY <1>0, <1>3, <2>1 DEF CountReader, RW!vars, readersIn, writersIn, TypeOK
  <2>2. CASE pc'[t] = "r_unlock"
    <3>1. pc' = [pc EXCEPT ![t] = "r_unlock"] /\ pc[t] = "r_count"
      BY <1>0, <1>3, <2>2 DEF CountReader, TypeOK
    <3>2. readersIn' = readersIn \cup {t} /\ t \notin readersIn /\ writersIn' = writersIn
      BY <1>0, <3>1 DEF readersIn, writersIn, TypeOK
    <3>3. writersIn = {}
      BY <3>2 DEF IInv, Exclusion
    <3> QED
      BY <3>2, <3>3 DEF RW!StartRead
  <2> QED
    BY <1>0, <1>3, <2>1, <2>2 DEF CountReader, TypeOK
<1>4. ASSUME NEW t \in Thread, FirstReader(t) PROVE RW!StartRead(t)
  <2>1. readersIn = {} /\ writersIn = {}
    BY <1>4 DEF FirstReader, IInv, WriteAccessHeld
  <2>2. readersIn' = readersIn \cup {t} /\ writersIn' = writersIn
    BY <1>0, <1>4 DEF FirstReader, readersIn, writersIn, TypeOK
  <2> QED
    BY <2>1, <2>2 DEF RW!StartRead
<1>5. ASSUME NEW t \in Thread, UncountReader(t) PROVE RW!EndRead(t) \/ UNCHANGED RW!vars
  <2>1. CASE pc'[t] = "x_last"
    BY <1>0, <1>5, <2>1 DEF UncountReader, RW!vars, readersIn, writersIn, TypeOK
  <2>2. CASE pc'[t] = "x_unlock"
    <3>1. pc' = [pc EXCEPT ![t] = "x_unlock"] /\ pc[t] = "x_count"
      BY <1>0, <1>5, <2>2 DEF UncountReader, TypeOK
    <3>2. readersIn' = readersIn \ {t} /\ t \in readersIn /\ writersIn' = writersIn
      BY <1>0, <3>1 DEF readersIn, writersIn, TypeOK
    <3> QED
      BY <3>2 DEF RW!EndRead
  <2> QED
    BY <1>0, <1>5, <2>1, <2>2 DEF UncountReader, TypeOK
<1>6. ASSUME NEW t \in Thread, LastReader(t) PROVE RW!EndRead(t)
  BY <1>0, <1>6 DEF LastReader, RW!EndRead, readersIn, writersIn, TypeOK
<1>7. ASSUME NEW t \in Thread, Call(t) \/ LockReaders(t) \/ AdmitReader(t)
      PROVE  UNCHANGED RW!vars
  BY <1>0, <1>7 DEF Call, CallWriter, CallReader, LockReaders, AdmitReader,
     RW!vars, readersIn, writersIn, TypeOK
<1>8. ASSUME NEW t \in Thread, LeaveReaders(t) \/ LockReadersToLeave(t) \/ ReaderLeft(t)
      PROVE  UNCHANGED RW!vars
  BY <1>0, <1>8 DEF LeaveReaders, LockReadersToLeave, ReaderLeft,
     RW!vars, readersIn, writersIn, TypeOK
<1>9. CASE UNCHANGED vars
  BY <1>9 DEF vars, RW!vars, readersIn, writersIn
<1> QED
  BY <1>1, <1>2, <1>3, <1>4, <1>5, <1>6, <1>7, <1>8, <1>9
  DEF Next, lock_for_readers, unlock_for_readers, RW!Next

(* Any number of threads using the code's lock, whatever the order of      *)
(* their statements, are using the lock that the header describes.         *)
THEOREM Refinement == Spec => ImplementsReadersWriterLock
<1>1. Init => RW!Init
  BY DEF Init, RW!Init, readersIn, writersIn
<1> QED
  BY <1>1, Inductive, StepRefines, PTL DEF Spec, ImplementsReadersWriterLock, RW!Spec
=============================================================================
