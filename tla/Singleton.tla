------------------------------- MODULE Singleton -------------------------------
(***************************************************************************)
(* Singleton<Derived> of core/shared/utils/singleton.hpp: an instance      *)
(* pointer published with double-checked locking under a shared_mutex.     *)
(*                                                                         *)
(* A thread makes one call at a time.  Every atomic load or store of       *)
(* instance_, every lock and unlock, the construction and the deletion of  *)
(* the object are steps of their own, so that the calls interleave where   *)
(* the compiled code lets them.  An object is a member of Objects: "raw"   *)
(* before its constructor has run, "alive", or "deleted".                  *)
(***************************************************************************)
CONSTANTS
    Threads,      \* the threads that call the singleton
    Constructors, \* those that call Construct()
    Getters,      \* those that call GetInstance() and use the result
    Destructors,  \* those that call Destruct()
    Objects,      \* the objects `new Instance` can return, one per allocation
    ConstructFirst, \* TRUE when GetInstance() is only called after Construct()
    MayThrow,     \* TRUE when Derived's constructor can throw
    NoThread,     \* "nobody holds mutex_"
    Null          \* nullptr

ASSUME CallersAssumption ==
    /\ Constructors \subseteq Threads
    /\ Getters \subseteq Threads
    /\ Destructors \subseteq Threads
    /\ NoThread \notin Threads
    /\ Null \notin Objects
    /\ {ConstructFirst, MayThrow} \subseteq BOOLEAN

VARIABLES
    instance_, \* the atomic pointer
    owner,     \* the thread that holds mutex_ exclusively
    readers,   \* the threads that hold mutex_ shared
    object,    \* the life of every object
    pc,        \* where each thread is in its call
    ptr        \* the pointer each thread last obtained or is about to publish

vars == <<instance_, owner, readers, object, pc, ptr>>

ConstructPCs == {"c_load", "c_lock", "c_check", "c_new", "c_store", "c_unlock"}
DestructPCs == {"d_load", "d_lock", "d_check", "d_delete", "d_store", "d_unlock"}
GetPCs == {"g_load", "g_lock", "g_check", "g_unlock", "use"}

Init ==
    /\ instance_ = Null
    /\ owner = NoThread
    /\ readers = {}
    /\ object = [o \in Objects |-> "raw"]
    /\ pc = [t \in Threads |-> "idle"]
    /\ ptr = [t \in Threads |-> Null]

Goto(t, to) == pc' = [pc EXCEPT ![t] = to]

(***************************************************************************)
(* std::shared_mutex: exclusive when nobody holds it, shared when nobody   *)
(* holds it exclusively.                                                   *)
(***************************************************************************)
LockExclusive(t) ==
    /\ owner = NoThread
    /\ readers = {}
    /\ owner' = t

LockShared(t) ==
    /\ owner = NoThread
    /\ readers' = readers \cup {t}

(***************************************************************************)
(* The caller picks a call.  "built" is the caller back from Construct():  *)
(* the hash library and the test go on to GetInstance() from there.        *)
(***************************************************************************)
Call(t) ==
    /\ pc[t] \in {"idle", "built"}
    /\ \/ t \in Constructors /\ Goto(t, "c_load")
       \/ t \in Destructors /\ Goto(t, "d_load")
       \/ /\ t \in Getters
          /\ ConstructFirst => pc[t] = "built"
          /\ Goto(t, "g_load")
    /\ UNCHANGED <<instance_, owner, readers, object, ptr>>

(***************************************************************************)
(* Construct(): fast check, lock, second check, construction, publication. *)
(***************************************************************************)
ConstructLoad(t) ==
    /\ pc[t] = "c_load"
    /\ Goto(t, IF instance_ = Null THEN "c_lock" ELSE "built")
    /\ UNCHANGED <<instance_, owner, readers, object, ptr>>

\* Mutant: the shared lock instead of the exclusive one.
ConstructLockShared(t) ==
    /\ pc[t] = "c_lock"
    /\ LockShared(t)
    /\ Goto(t, "c_check")
    /\ UNCHANGED <<instance_, owner, object, ptr>>

ConstructLock(t) ==
    /\ pc[t] = "c_lock"
    /\ LockExclusive(t)
    /\ Goto(t, "c_check")
    /\ UNCHANGED <<instance_, readers, object, ptr>>

\* Mutant: no second check under the lock.
ConstructNoRecheck(t) ==
    /\ pc[t] = "c_check"
    /\ Goto(t, "c_new")
    /\ UNCHANGED <<instance_, owner, readers, object, ptr>>

ConstructCheck(t) ==
    /\ pc[t] = "c_check"
    /\ Goto(t, IF instance_ = Null THEN "c_new" ELSE "c_unlock")
    /\ UNCHANGED <<instance_, owner, readers, object, ptr>>

\* `new Instance`: the memory is obtained and the constructor has run.
ConstructNew(t) ==
    /\ pc[t] = "c_new"
    /\ \E o \in Objects :
          /\ object[o] = "raw"
          /\ object' = [object EXCEPT ![o] = "alive"]
          /\ ptr' = [ptr EXCEPT ![t] = o]
    /\ Goto(t, "c_store")
    /\ UNCHANGED <<instance_, owner, readers>>

\* Mutant: the object of a throwing constructor is neither freed nor published.
ConstructThrowLeaks(t) ==
    /\ MayThrow
    /\ pc[t] = "c_new"
    /\ \E o \in Objects : object[o] = "raw" /\ object' = [object EXCEPT ![o] = "alive"]
    /\ owner' = NoThread
    /\ Goto(t, "idle")
    /\ UNCHANGED <<instance_, readers, ptr>>

\* The constructor throws: `new` frees the memory, the lock_guard unlocks.
ConstructThrow(t) ==
    /\ MayThrow
    /\ pc[t] = "c_new"
    /\ owner' = NoThread
    /\ Goto(t, "idle")
    /\ UNCHANGED <<instance_, readers, object, ptr>>

ConstructStore(t) ==
    /\ pc[t] = "c_store"
    /\ instance_' = ptr[t]
    /\ Goto(t, "c_unlock")
    /\ UNCHANGED <<owner, readers, object, ptr>>

\* Mutant: the lock is not released.
UnlockForgotten(t) ==
    /\ pc[t] \in {"c_unlock", "d_unlock"}
    /\ Goto(t, IF pc[t] = "c_unlock" THEN "built" ELSE "idle")
    /\ UNCHANGED <<instance_, owner, readers, object, ptr>>

\* Mutant: the owner is cleared like the pointer, with nullptr.
UnlockToNull(t) ==
    /\ pc[t] \in {"c_unlock", "d_unlock"}
    /\ owner' = Null
    /\ Goto(t, "idle")
    /\ UNCHANGED <<instance_, readers, object, ptr>>

Unlock(t) ==
    /\ pc[t] \in {"c_unlock", "d_unlock"}
    /\ owner' = NoThread
    /\ Goto(t, IF pc[t] = "c_unlock" THEN "built" ELSE "idle")
    /\ UNCHANGED <<instance_, readers, object, ptr>>

(***************************************************************************)
(* Destruct(): the object is deleted first, the pointer cleared after.     *)
(***************************************************************************)
DestructLoad(t) ==
    /\ pc[t] = "d_load"
    /\ Goto(t, IF instance_ = Null THEN "idle" ELSE "d_lock")
    /\ UNCHANGED <<instance_, owner, readers, object, ptr>>

DestructLock(t) ==
    /\ pc[t] = "d_lock"
    /\ LockExclusive(t)
    /\ Goto(t, "d_check")
    /\ UNCHANGED <<instance_, readers, object, ptr>>

DestructCheck(t) ==
    /\ pc[t] = "d_check"
    /\ IF instance_ = Null
       THEN Goto(t, "d_unlock") /\ UNCHANGED ptr
       ELSE Goto(t, "d_delete") /\ ptr' = [ptr EXCEPT ![t] = instance_]
    /\ UNCHANGED <<instance_, owner, readers, object>>

DestructDelete(t) ==
    /\ pc[t] = "d_delete"
    /\ object' = [object EXCEPT ![ptr[t]] = "deleted"]
    /\ Goto(t, "d_store")
    /\ UNCHANGED <<instance_, owner, readers, ptr>>

DestructStore(t) ==
    /\ pc[t] = "d_store"
    /\ instance_' = Null
    /\ Goto(t, "d_unlock")
    /\ UNCHANGED <<owner, readers, object, ptr>>

(***************************************************************************)
(* GetInstance(): fast load; when it is null, a second load under the      *)
(* shared lock.  "use" is the caller with the returned pointer in hand.    *)
(***************************************************************************)
GetLoad(t) ==
    /\ pc[t] = "g_load"
    /\ ptr' = [ptr EXCEPT ![t] = instance_]
    /\ Goto(t, IF instance_ = Null THEN "g_lock" ELSE "use")
    /\ UNCHANGED <<instance_, owner, readers, object>>

\* Mutant: the slow path reads without the lock.
GetNoLock(t) ==
    /\ pc[t] = "g_lock"
    /\ readers' = readers \cup {t}
    /\ Goto(t, "g_check")
    /\ UNCHANGED <<instance_, owner, object, ptr>>

GetLock(t) ==
    /\ pc[t] = "g_lock"
    /\ LockShared(t)
    /\ Goto(t, "g_check")
    /\ UNCHANGED <<instance_, owner, object, ptr>>

GetCheck(t) ==
    /\ pc[t] = "g_check"
    /\ ptr' = [ptr EXCEPT ![t] = instance_]
    /\ Goto(t, "g_unlock")
    /\ UNCHANGED <<instance_, owner, readers, object>>

GetUnlock(t) ==
    /\ pc[t] = "g_unlock"
    /\ readers' = readers \ {t}
    /\ Goto(t, "use")
    /\ UNCHANGED <<instance_, owner, object, ptr>>

Use(t) ==
    /\ pc[t] = "use"
    /\ Goto(t, "idle")
    /\ UNCHANGED <<instance_, owner, readers, object, ptr>>

ConstructStep(t) ==
    \/ ConstructLoad(t) \/ ConstructLock(t) \/ ConstructCheck(t)
    \/ ConstructNew(t) \/ ConstructThrow(t) \/ ConstructStore(t) \/ Unlock(t)

DestructStep(t) ==
    \/ DestructLoad(t) \/ DestructLock(t) \/ DestructCheck(t)
    \/ DestructDelete(t) \/ DestructStore(t)

GetStep(t) ==
    GetLoad(t) \/ GetLock(t) \/ GetCheck(t) \/ GetUnlock(t) \/ Use(t)

Step(t) == ConstructStep(t) \/ DestructStep(t) \/ GetStep(t)

Next == \E t \in Threads : Call(t) \/ Step(t)

Spec == Init /\ [][Next]_vars

\* A thread inside a call is scheduled; nobody has to make a call.
FairSpec == Spec /\ \A t \in Threads : WF_vars(Step(t))

-----------------------------------------------------------------------------
(***************************************************************************)
(* Properties.                                                             *)
(***************************************************************************)
Critical == {"c_check", "c_new", "c_store", "c_unlock",
             "d_check", "d_delete", "d_store", "d_unlock"}

\* Type invariant of the model of Singleton.
TypeOK ==
    /\ instance_ \in Objects \cup {Null}
    /\ owner \in Threads \cup {NoThread}
    /\ readers \subseteq Threads
    /\ object \in [Objects -> {"raw", "alive", "deleted"}]
    /\ pc \in [Threads -> {"idle", "built"} \cup ConstructPCs \cup DestructPCs \cup GetPCs]
    /\ ptr \in [Threads -> Objects \cup {Null}]

\* At no time do two instances exist: what the test asserts with `init == 1`
\* for Construct() alone, here with deletions and throwing constructors too.
AtMostOneInstance ==
    \A o1, o2 \in Objects :
        object[o1] = "alive" /\ object[o2] = "alive" => o1 = o2

\* No instance leaks and none is deleted twice: an instance that exists is
\* published, or about to be published by the thread that built it; and the
\* object a thread is about to delete still exists.
NoLeakNoDoubleDelete ==
    /\ \A o \in Objects : object[o] = "alive" =>
          \/ instance_ = o
          \/ \E t \in Threads : pc[t] = "c_store" /\ ptr[t] = o
    /\ \A t \in Threads : pc[t] = "d_delete" => object[ptr[t]] = "alive"

\* A pointer is good when it can be followed: the published pointer refers to a
\* constructed object at every moment but one, between the delete and the store
\* of nullptr in Destruct(); and the slow path of GetInstance() never reads at
\* that moment, so what it has read is alive while it holds the shared lock.
PointersLive ==
    /\ instance_ # Null =>
          \/ object[instance_] = "alive"
          \/ \E t \in Threads : pc[t] = "d_store"
    /\ \A t \in Threads :
          pc[t] = "g_unlock" /\ ptr[t] # Null => object[ptr[t]] = "alive"

\* Without calls of Destruct(), and with Construct() called first - which is
\* how the server, the hash library and the test use the class - GetInstance()
\* never returns null, all callers get the same object and it stays alive.
UseIsSafe ==
    \A t \in Threads :
        pc[t] = "use" =>
            /\ ptr[t] # Null
            /\ ptr[t] = instance_
            /\ object[ptr[t]] = "alive"

\* A thread that waits for the exclusive lock in Construct() returns with an
\* instance in place, although nothing makes the lock fair (constructors that
\* do not throw, no Destruct(), and GetInstance() called after Construct()).
ConstructCompletes ==
    \A t \in Threads : pc[t] = "c_lock" ~> (pc[t] = "built" /\ instance_ # Null)

=============================================================================
