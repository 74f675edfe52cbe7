----------------------------- MODULE ScopedLock -----------------------------
(***************************************************************************)
(* One lock of components/thread.h, and the scoped lock objects that the   *)
(* threads of the program put on it: ScopedLockImpl on a Mutex or on a     *)
(* Spinlock (mode "write"), ReadScopedLockImpl and WriteScopedLockImpl on  *)
(* an RWMutex (modes "read" and "write").  The three classes differ only   *)
(* in the function that takes the lock.                                    *)
(*                                                                         *)
(* The destructor of a scoped lock object unlocks whatever the object      *)
(* knows, so that a scope that its thread has left by hand with unlock()   *)
(* is unlocked a second time when it ends, as that of Scheduler::start()   *)
(* is.  A mutex and a spinlock do not look at who unlocks them: the second *)
(* time may be the lock of another thread.  The other modules take a       *)
(* critical section for one step; MutualExclusion says what that rests on. *)
(***************************************************************************)
EXTENDS Integers, FiniteSets

CONSTANTS
  Threads,
  MaxTwice    \* bound on the scopes that are left by hand and not locked again

ASSUME LockAssumption ==
  /\ IsFiniteSet(Threads)
  /\ MaxTwice \in Nat

VARIABLES
  kind,       \* which lock it is: "mutex" (Mutex, Spinlock) or "rwlock" (RWMutex)
  exclusive,  \* the lock is taken for writing
  sharers,    \* how many times it is taken for reading
  scope,      \* per thread: the mode of its scoped lock object, or "none"
  m_locked,   \* per thread: the member of that object
  twice       \* history: how many scopes have ended after unlock()

vars == <<kind, exclusive, sharers, scope, m_locked, twice>>

Modes == IF kind = "mutex" THEN {"write"} ELSE {"read", "write"}

Init ==
  /\ kind \in {"mutex", "rwlock"}
  /\ exclusive = FALSE
  /\ sharers = 0
  /\ scope = [t \in Threads |-> "none"]
  /\ m_locked = [t \in Threads |-> FALSE]
  /\ twice = 0

-----------------------------------------------------------------------------
(* pthread_mutex_t, pthread_spinlock_t and pthread_rwlock_t.  A normal     *)
(* mutex and a spinlock do not look at who unlocks them.                   *)
\* Mutant of Acquire: a writer does not wait for readers.
AcquireBesideReaders(mode) ==
  /\ ~exclusive
  /\ \/ /\ mode = "write"
        /\ exclusive' = TRUE
        /\ UNCHANGED sharers
     \/ /\ mode = "read"
        /\ sharers' = sharers + 1
        /\ UNCHANGED exclusive

Acquire(mode) ==
  /\ ~exclusive
  /\ \/ /\ mode = "write"
        /\ sharers = 0
        /\ exclusive' = TRUE
        /\ UNCHANGED sharers
     \/ /\ mode = "read"
        /\ sharers' = sharers + 1
        /\ UNCHANGED exclusive

Release(mode) ==
  \/ /\ mode = "write"
     /\ exclusive' = FALSE
     /\ UNCHANGED sharers
  \/ /\ mode = "read"
     /\ sharers' = sharers - 1
     /\ UNCHANGED exclusive

-----------------------------------------------------------------------------
(* The scoped lock object. *)
Construct(t, mode) ==
  /\ scope[t] = "none"
  /\ Acquire(mode)
  /\ scope' = [scope EXCEPT ![t] = mode]
  /\ m_locked' = [m_locked EXCEPT ![t] = TRUE]
  /\ UNCHANGED <<kind, twice>>

\* lock() of an object that is not locked; otherwise it does nothing.
Lock(t) ==
  /\ scope[t] # "none"
  /\ ~m_locked[t]
  /\ Acquire(scope[t])
  /\ m_locked' = [m_locked EXCEPT ![t] = TRUE]
  /\ UNCHANGED <<kind, scope, twice>>

\* The scopes that their threads have left by hand.
LeftByHand == {t \in Threads : scope[t] # "none" /\ ~m_locked[t]}

\* unlock() of an object that is locked; otherwise it does nothing.  No code
\* of the program calls it for a scope of an RWMutex.
Unlock(t) ==
  /\ kind = "mutex"
  /\ Cardinality(LeftByHand) + twice < MaxTwice
  /\ m_locked[t]
  /\ Release(scope[t])
  /\ m_locked' = [m_locked EXCEPT ![t] = FALSE]
  /\ UNCHANGED <<kind, scope, twice>>

\* The destructor unlocks whatever m_locked is.
Destruct(t) ==
  /\ scope[t] # "none"
  /\ Release(scope[t])
  /\ scope' = [scope EXCEPT ![t] = "none"]
  /\ m_locked' = [m_locked EXCEPT ![t] = FALSE]
  /\ twice' = IF m_locked[t] THEN twice ELSE twice + 1
  /\ UNCHANGED kind

Next ==
  \E t \in Threads :
    \/ \E mode \in Modes : Construct(t, mode)
    \/ Lock(t) \/ Unlock(t) \/ Destruct(t)

Spec == Init /\ [][Next]_vars

-----------------------------------------------------------------------------
(* Properties. *)

Holders(mode) == {t \in Threads : scope[t] = mode /\ m_locked[t]}

\* The variables have their types.
TypeOK ==
  /\ kind \in {"mutex", "rwlock"}
  /\ exclusive \in BOOLEAN
  /\ sharers \in Nat
  /\ scope \in [Threads -> {"none"} \cup Modes]
  /\ m_locked \in [Threads -> BOOLEAN]
  /\ twice \in Nat

\* The lock is never left taken by a scope that is over or that has unlocked
\* it, and it is free under a holder only as often as scopes have ended after
\* unlock(): thread.h:50 releases a lock that the thread does not hold.
LockExact ==
  /\ sharers = Cardinality(Holders("read"))
  /\ exclusive => Holders("write") # {}
  /\ Cardinality(Holders("write")) <= twice + IF exclusive THEN 1 ELSE 0

\* As long as no scope has ended after unlock(), a thread in a scope that it
\* has locked for writing is alone; every scope that has, as that of
\* Scheduler::start() does (scheduler.cpp:79 and :85), lets one more thread in
\* beside it, and no more.  Readers and writers are never together.
MutualExclusion ==
  /\ Cardinality(Holders("write")) <= 1 + twice
  /\ Holders("write") = {} \/ Holders("read") = {}
=============================================================================
