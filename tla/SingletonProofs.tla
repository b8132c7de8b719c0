---------------------------- MODULE SingletonProofs ----------------------------
(***************************************************************************)
(* Proofs about Singleton, for any set of threads and of objects.          *)
(*                                                                         *)
(* The argument: mutex_ gives the critical sections of Construct() and     *)
(* Destruct() to one thread at a time and keeps readers out (LockInv), so  *)
(* the checks made under the lock still hold at the store (OwnerInv), so   *)
(* the life of the objects follows the pointer (ObjectInv).                *)
(***************************************************************************)
EXTENDS MCSingleton, TLAPS

\* Who holds mutex_, read off the program counters.
LockInv ==
    /\ \A t \in Threads : owner = t <=> pc[t] \in Critical
    /\ \A t \in Threads : t \in readers <=> pc[t] \in {"g_check", "g_unlock"}
    /\ owner # NoThread => readers = {}

\* What the lock's holder learnt from its checks, and what a reader learnt.
OwnerInv ==
    \A t \in Threads :
        /\ pc[t] \in {"c_new", "c_store"} => instance_ = Null
        /\ pc[t] = "c_store" => ptr[t] # Null /\ object[ptr[t]] = "alive"
        /\ pc[t] \in {"d_delete", "d_store"} => instance_ # Null /\ ptr[t] = instance_
        /\ pc[t] = "d_delete" => object[instance_] = "alive"
        /\ pc[t] = "d_store" => object[instance_] = "deleted"
        /\ pc[t] = "g_unlock" => ptr[t] = instance_

\* An object is alive exactly while it is published or about to be.
ObjectInv ==
    /\ instance_ # Null =>
          \/ object[instance_] = "alive"
          \/ \E t \in Threads : pc[t] = "d_store"
    /\ \A o \in Objects : object[o] = "alive" =>
          \/ instance_ = o
          \/ \E t \in Threads : pc[t] = "c_store" /\ ptr[t] = o

IInv == TypeOK /\ LockInv /\ OwnerInv /\ ObjectInv

-----------------------------------------------------------------------------
\* The initial state satisfies the inductive invariant.
LEMMA InitIInv == Init => IInv
  BY CallersAssumption
  DEF Init, IInv, TypeOK, LockInv, OwnerInv, ObjectInv, Critical

\* Every step keeps variables in their types.
LEMMA StepTypeOK == TypeOK /\ [Next]_vars => TypeOK'
<1> SUFFICES ASSUME TypeOK, [Next]_vars PROVE TypeOK'
  OBVIOUS
<1> USE CallersAssumption DEF TypeOK, ConstructPCs, DestructPCs, GetPCs, Goto
<1>1. ASSUME NEW t \in Threads, Call(t) PROVE TypeOK'
  BY <1>1 DEF Call
<1>2. ASSUME NEW t \in Threads, ConstructStep(t) PROVE TypeOK'
  BY <1>2 DEF ConstructStep, ConstructLoad, ConstructLock, ConstructCheck,
     ConstructNew, ConstructThrow, ConstructStore, Unlock, LockExclusive
<1>3. ASSUME NEW t \in Threads, DestructStep(t) PROVE TypeOK'
  BY <1>3 DEF DestructStep, DestructLoad, DestructLock, DestructCheck,
     DestructDelete, DestructStore, LockExclusive
<1>4. ASSUME NEW t \in Threads, GetStep(t) PROVE TypeOK'
  BY <1>4 DEF GetStep, GetLoad, GetLock, GetCheck, GetUnlock, Use, LockShared
<1>5. CASE UNCHANGED vars
  BY <1>5 DEF vars
<1>6. QED
  BY <1>1, <1>2, <1>3, <1>4, <1>5 DEF Next, Step

\* Every step of a call keeps the account of who holds mutex_.
LEMMA StepLockInv == TypeOK /\ LockInv /\ [Next]_vars => LockInv'
<1> SUFFICES ASSUME TypeOK, LockInv, [Next]_vars PROVE LockInv'
  OBVIOUS
<1> USE CallersAssumption DEF TypeOK, LockInv, Critical, Goto
<1>1. ASSUME NEW t \in Threads, Call(t) PROVE LockInv'
  BY <1>1 DEF Call
<1>2. ASSUME NEW t \in Threads, ConstructStep(t) PROVE LockInv'
  <2>1. CASE ConstructLoad(t) BY <2>1 DEF ConstructLoad
  <2>2. CASE ConstructLock(t) BY <2>2 DEF ConstructLock, LockExclusive
  <2>3. CASE ConstructCheck(t) BY <2>3 DEF ConstructCheck
  <2>4. CASE ConstructNew(t) BY <2>4 DEF ConstructNew
  <2>5. CASE ConstructThrow(t) BY <2>5 DEF ConstructThrow
  <2>6. CASE ConstructStore(t) BY <2>6 DEF ConstructStore
  <2>7. CASE Unlock(t) BY <2>7 DEF Unlock
  <2>8. QED
    BY <1>2, <2>1, <2>2, <2>3, <2>4, <2>5, <2>6, <2>7 DEF ConstructStep
<1>3. ASSUME NEW t \in Threads, DestructStep(t) PROVE LockInv'
  <2>1. CASE DestructLoad(t) BY <2>1 DEF DestructLoad
  <2>2. CASE DestructLock(t) BY <2>2 DEF DestructLock, LockExclusive
  <2>3. CASE DestructCheck(t) BY <2>3 DEF DestructCheck
  <2>4. CASE DestructDelete(t) BY <2>4 DEF DestructDelete
  <2>5. CASE DestructStore(t) BY <2>5 DEF DestructStore
  <2>6. QED
    BY <1>3, <2>1, <2>2, <2>3, <2>4, <2>5 DEF DestructStep
<1>4. ASSUME NEW t \in Threads, GetStep(t) PROVE LockInv'
  <2>1. CASE GetLoad(t) BY <2>1 DEF GetLoad
  <2>2. CASE GetLock(t) BY <2>2 DEF GetLock, LockShared
  <2>3. CASE GetCheck(t) BY <2>3 DEF GetCheck
  <2>4. CASE GetUnlock(t) BY <2>4 DEF GetUnlock
  <2>5. CASE Use(t) BY <2>5 DEF Use
  <2>6. QED
    BY <1>4, <2>1, <2>2, <2>3, <2>4, <2>5 DEF GetStep
<1>5. CASE UNCHANGED vars
  BY <1>5 DEF vars
<1>6. QED
  BY <1>1, <1>2, <1>3, <1>4, <1>5 DEF Next, Step

\* Two threads are never both in the exclusive critical section, and no reader
\* holds the lock while a thread is in it.
LEMMA MutualExclusion ==
    ASSUME TypeOK, LockInv, NEW t \in Threads, pc[t] \in Critical
    PROVE  /\ \A u \in Threads : pc[u] \in Critical => u = t
           /\ \A u \in Threads : pc[u] \notin {"g_check", "g_unlock"}
  BY CallersAssumption DEF TypeOK, LockInv

\* Every step keeps what the holder of the lock knows, and the life of objects.
LEMMA StepDataInv == IInv /\ [Next]_vars => OwnerInv' /\ ObjectInv'
<1> SUFFICES ASSUME IInv, [Next]_vars PROVE OwnerInv' /\ ObjectInv'
  OBVIOUS
<1>t. TypeOK /\ LockInv /\ OwnerInv /\ ObjectInv /\ TypeOK'
  BY StepTypeOK DEF IInv
<1> USE <1>t, CallersAssumption DEF OwnerInv, ObjectInv
<1>1. ASSUME NEW t \in Threads, Call(t) PROVE OwnerInv' /\ ObjectInv'
  BY <1>1 DEF Call, TypeOK, Goto
<1>2. ASSUME NEW t \in Threads, ConstructStep(t) PROVE OwnerInv' /\ ObjectInv'
  <2> USE DEF TypeOK, Goto
  <2>1. CASE ConstructLoad(t) BY <2>1 DEF ConstructLoad
  <2>2. CASE ConstructLock(t) BY <2>2 DEF ConstructLock, LockExclusive
  <2>3. CASE ConstructCheck(t) BY <2>3 DEF ConstructCheck
  <2>4. CASE ConstructNew(t)
    <3>1. pc[t] \in Critical
      BY <2>4 DEF ConstructNew, Critical
    <3>2. \A u \in Threads : pc[u] \in Critical => u = t
      BY <3>1, MutualExclusion
    <3>3. QED
      BY <2>4, <3>2 DEF ConstructNew, Critical
  <2>5. CASE ConstructThrow(t) BY <2>5 DEF ConstructThrow
  <2>6. CASE ConstructStore(t)
    <3>1. pc[t] \in Critical
      BY <2>6 DEF ConstructStore, Critical
    <3>2. /\ \A u \in Threads : pc[u] \in Critical => u = t
          /\ \A u \in Threads : pc[u] \notin {"g_check", "g_unlock"}
      BY <3>1, MutualExclusion
    <3>3. QED
      BY <2>6, <3>2 DEF ConstructStore, Critical
  <2>7. CASE Unlock(t) BY <2>7 DEF Unlock
  <2>8. QED
    BY <1>2, <2>1, <2>2, <2>3, <2>4, <2>5, <2>6, <2>7 DEF ConstructStep
<1>3. ASSUME NEW t \in Threads, DestructStep(t) PROVE OwnerInv' /\ ObjectInv'
  <2> USE DEF TypeOK, Goto
  <2>1. CASE DestructLoad(t) BY <2>1 DEF DestructLoad
  <2>2. CASE DestructLock(t) BY <2>2 DEF DestructLock, LockExclusive
  <2>3. CASE DestructCheck(t)
    <3>1. \A u \in Threads : pc[u] \in Critical => u = t
      BY <2>3, MutualExclusion DEF DestructCheck, Critical
    <3>2. QED
      BY <2>3, <3>1 DEF DestructCheck, Critical
  <2>4. CASE DestructDelete(t)
    <3>1. /\ \A u \in Threads : pc[u] \in Critical => u = t
          /\ \A u \in Threads : pc[u] \notin {"g_check", "g_unlock"}
      BY <2>4, MutualExclusion DEF DestructDelete, Critical
    <3>2. OwnerInv'
      BY <2>4, <3>1 DEF DestructDelete, Critical
    <3>3. ObjectInv'
      BY <2>4, <3>1 DEF DestructDelete, Critical
    <3>4. QED
      BY <3>2, <3>3
  <2>5. CASE DestructStore(t)
    <3>1. /\ \A u \in Threads : pc[u] \in Critical => u = t
          /\ \A u \in Threads : pc[u] \notin {"g_check", "g_unlock"}
      BY <2>5, MutualExclusion DEF DestructStore, Critical
    <3>2. QED
      BY <2>5, <3>1 DEF DestructStore, Critical
  <2>6. QED
    BY <1>3, <2>1, <2>2, <2>3, <2>4, <2>5 DEF DestructStep
<1>4. ASSUME NEW t \in Threads, GetStep(t) PROVE OwnerInv' /\ ObjectInv'
  BY <1>4 DEF GetStep, GetLoad, GetLock, GetCheck, GetUnlock, Use, LockShared,
     TypeOK, Goto
<1>5. CASE UNCHANGED vars
  BY <1>5 DEF vars
<1>6. QED
  BY <1>1, <1>2, <1>3, <1>4, <1>5 DEF Next, Step

\* IInv is an invariant.
LEMMA Inductive == Spec => []IInv
<1>1. IInv /\ [Next]_vars => IInv'
  BY StepTypeOK, StepLockInv, StepDataInv DEF IInv
<1>2. QED
  BY InitIInv, <1>1, PTL DEF Spec

-----------------------------------------------------------------------------
\* Singleton's variables always have their types.
THEOREM TypeCorrect == Spec => []TypeOK
<1>1. IInv => TypeOK
  BY DEF IInv
<1>2. QED
  BY Inductive, <1>1, PTL

\* However Construct(), Destruct() and throwing constructors interleave, two
\* instances never exist at once.
THEOREM OneInstance == Spec => []AtMostOneInstance
<1>1. IInv => AtMostOneInstance
  <2> SUFFICES ASSUME IInv, NEW o1 \in Objects, NEW o2 \in Objects,
                      object[o1] = "alive", object[o2] = "alive"
               PROVE  o1 = o2
    BY DEF AtMostOneInstance
  <2>1. \A t, u \in Threads :
            pc[t] = "c_store" /\ pc[u] = "c_store" => t = u
    BY MutualExclusion DEF IInv, Critical
  <2>2. QED
    BY <2>1, CallersAssumption DEF IInv, OwnerInv, ObjectInv
<1>2. QED
  BY Inductive, <1>1, PTL

\* No object leaks, and none is deleted twice.
THEOREM NoLeak == Spec => []NoLeakNoDoubleDelete
<1>1. IInv => NoLeakNoDoubleDelete
  BY DEF IInv, OwnerInv, ObjectInv, NoLeakNoDoubleDelete
<1>2. QED
  BY Inductive, <1>1, PTL

\* The pointer refers to a constructed object except inside Destruct(), and
\* what the slow path of GetInstance() reads is alive while it holds the lock.
THEOREM PointersAreLive == Spec => []PointersLive
<1>1. ASSUME IInv PROVE PointersLive
  <2>1. ASSUME NEW t \in Threads, pc[t] = "g_unlock", ptr[t] # Null
        PROVE  object[ptr[t]] = "alive"
    <3>1. \A u \in Threads : pc[u] # "d_store"
      BY <1>1, <2>1, MutualExclusion DEF IInv, Critical
    <3>2. QED
      BY <1>1, <2>1, <3>1 DEF IInv, OwnerInv, ObjectInv
  <2>2. QED
    BY <1>1, <2>1 DEF IInv, ObjectInv, PointersLive
<1>2. QED
  BY Inductive, <1>1, PTL

(***************************************************************************)
(* The discipline of the callers: construct first, never destroy.          *)
(***************************************************************************)
\* A thread that may call GetInstance() has seen an instance, which stays.
UseInv ==
    \A t \in Threads :
        /\ pc[t] \notin DestructPCs
        /\ pc[t] \in GetPCs \cup {"built", "c_unlock"} => instance_ # Null
        /\ pc[t] \in {"g_unlock", "use"} => ptr[t] = instance_

\* Every step of callers with this discipline keeps it.
LEMMA StepUseInv ==
    ASSUME Destructors = {}, ConstructFirst, IInv, UseInv, [Next]_vars
    PROVE  UseInv'
<1> USE CallersAssumption DEF UseInv, DestructPCs, GetPCs, Goto, IInv, TypeOK
<1>1. ASSUME NEW t \in Threads, Call(t) PROVE UseInv'
  BY <1>1 DEF Call
<1>2. ASSUME NEW t \in Threads, ConstructStep(t) PROVE UseInv'
  <2>1. CASE ConstructLoad(t) BY <2>1 DEF ConstructLoad
  <2>2. CASE ConstructLock(t) BY <2>2 DEF ConstructLock, LockExclusive
  <2>3. CASE ConstructCheck(t) BY <2>3 DEF ConstructCheck
  <2>4. CASE ConstructNew(t) BY <2>4 DEF ConstructNew
  <2>5. CASE ConstructThrow(t) BY <2>5 DEF ConstructThrow
  <2>6. CASE ConstructStore(t)
    <3>1. instance_ = Null /\ ptr[t] # Null
      BY <2>6 DEF ConstructStore, OwnerInv
    <3>2. QED
      BY <2>6, <3>1 DEF ConstructStore
  <2>7. CASE Unlock(t) BY <2>7 DEF Unlock
  <2>8. QED
    BY <1>2, <2>1, <2>2, <2>3, <2>4, <2>5, <2>6, <2>7 DEF ConstructStep
<1>3. ASSUME NEW t \in Threads, DestructStep(t) PROVE FALSE
  BY <1>3 DEF DestructStep, DestructLoad, DestructLock, DestructCheck, DestructDelete, DestructStore
<1>4. ASSUME NEW t \in Threads, GetStep(t) PROVE UseInv'
  BY <1>4 DEF GetStep, GetLoad, GetLock, GetCheck, GetUnlock, Use, LockShared
<1>5. CASE UNCHANGED vars
  BY <1>5 DEF vars
<1>6. QED
  BY <1>1, <1>2, <1>3, <1>4, <1>5 DEF Next, Step

\* For any number of threads that construct first and never destroy, as the
\* server and the hash library do, what GetInstance() returns can be used.
THEOREM UseNeedsDiscipline ==
    ASSUME Destructors = {}, ConstructFirst
    PROVE  Spec => []UseIsSafe
<1>1. Init => UseInv
  BY DEF Init, UseInv, DestructPCs, GetPCs
<1>2. IInv /\ UseInv => UseIsSafe
  BY CallersAssumption
  DEF IInv, UseInv, ObjectInv, TypeOK, UseIsSafe, GetPCs, DestructPCs
<1>3. IInv /\ UseInv /\ [Next]_vars => UseInv'
  BY StepUseInv
<1>4. QED
  BY Inductive, <1>1, <1>2, <1>3, PTL DEF Spec

\* Singleton implements the abstract cell: the double-checked publication and
\* the deletion map to Fill and Clear, everything else to stuttering.
THEOREM CellRefinement == Spec => ImplementsCell
<1> DEFINE Retired == {o \in Objects : object[o] = "deleted" /\ o # instance_}
<1>1. Init => Cell!CellInit
  BY DEF Init, Cell!CellInit
<1>2. IInv /\ [Next]_vars => [Cell!CellNext]_Cell!cellVars
  <2> SUFFICES ASSUME IInv, [Next]_vars,
                      ~ UNCHANGED <<instance_, Retired>>
               PROVE  Cell!CellNext
    BY DEF Cell!cellVars
  <2>t. TypeOK /\ LockInv /\ OwnerInv
    BY DEF IInv
  <2> USE <2>t, CallersAssumption DEF TypeOK
  <2>1. ASSUME NEW t \in Threads, ConstructStore(t) PROVE Cell!Fill
    <3>1. /\ instance_ = Null
          /\ ptr[t] \in Objects
          /\ object[ptr[t]] = "alive"
      BY <2>1 DEF ConstructStore, OwnerInv
    <3>2. instance_' = ptr[t] /\ object' = object
      BY <2>1 DEF ConstructStore
    <3>3. ptr[t] \notin Retired
      BY <3>1
    <3>4. Retired' = Retired
      BY <3>1, <3>2
    <3>5. QED
      BY <3>1, <3>2, <3>3, <3>4 DEF Cell!Fill
  <2>2. ASSUME NEW t \in Threads, DestructStore(t) PROVE Cell!Clear
    <3>1. instance_ # Null /\ object[instance_] = "deleted"
      BY <2>2 DEF DestructStore, OwnerInv
    <3>2. instance_' = Null /\ object' = object
      BY <2>2 DEF DestructStore
    <3>3. Retired' = Retired \cup {instance_}
      BY <3>1, <3>2
    <3>4. QED
      BY <3>1, <3>2, <3>3 DEF Cell!Clear
  <2>3. ASSUME NEW t \in Threads, ConstructNew(t) PROVE FALSE
    <3>1. instance_' = instance_ /\ Retired' = Retired
      BY <2>3 DEF ConstructNew
    <3>2. QED
      BY <3>1
  <2>4. ASSUME NEW t \in Threads, DestructDelete(t) PROVE FALSE
    <3>1. instance_' = instance_ /\ ptr[t] = instance_
      BY <2>4 DEF DestructDelete, OwnerInv
    <3>2. Retired' = Retired
      BY <2>4, <3>1 DEF DestructDelete
    <3>3. QED
      BY <3>1, <3>2
  <2>5. ASSUME UNCHANGED <<instance_, object>> PROVE FALSE
    BY <2>5
  <2>6. QED
    BY <2>1, <2>2, <2>3, <2>4, <2>5
    DEF Next, Step, Call, ConstructStep, DestructStep, GetStep, ConstructLoad,
        ConstructLock, ConstructCheck, ConstructThrow, Unlock, DestructLoad,
        DestructLock, DestructCheck, GetLoad, GetLock, GetCheck, GetUnlock,
        Use, vars, Cell!CellNext
<1>3. QED
  BY Inductive, <1>1, <1>2, PTL DEF Spec, ImplementsCell, Cell!CellSpec

=============================================================================
