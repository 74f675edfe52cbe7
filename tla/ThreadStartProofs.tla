-------------------------- MODULE ThreadStartProofs --------------------------
(* How far the scoped locks exclude each other, for any number of threads and *)
(* of scopes that are left by hand.  A thread and its object: the handshake   *)
(* of the constructor with run() keeps the object alive as long as run()      *)
(* needs it, and the lock that callbacks use is that of module ScopedLock.    *)
EXTENDS ThreadStart, FiniteSetTheorems, TLAPS

(* Locks. *)

\* No thread has locked an object that it does not have; and no scope of an
\* RWMutex is left by hand.
LockedInScope ==
  /\ \A t \in Threads : m_locked[t] => scope[t] # "none"
  /\ kind = "rwlock" => twice = 0 /\ \A t \in Threads : scope[t] # "none" => m_locked[t]

IInv == TypeOK /\ LockExact /\ MutualExclusion /\ LockedInScope

LEMMA HoldersFinite ==
  ASSUME NEW mode
  PROVE  /\ IsFiniteSet(Holders(mode))
         /\ Cardinality(Holders(mode)) \in Nat
         /\ Cardinality(Holders(mode)) = 0 <=> Holders(mode) = {}
BY FS_Subset, FS_EmptySet, FS_CardinalityType, LockAssumption DEF Holders

LEMMA ModesAre == TypeOK => /\ Modes \subseteq {"read", "write"}
                            /\ "none" \notin Modes
                            /\ "read" \in Modes => kind = "rwlock"
BY DEF Modes, TypeOK

\* A scoped lock object whose lock is now held joins the holders of its mode.
LEMMA Joins ==
  ASSUME IInv, NEW t \in Threads, NEW mode \in Modes,
         Acquire(mode), ~m_locked[t],
         scope' = [scope EXCEPT ![t] = mode],
         m_locked' = [m_locked EXCEPT ![t] = TRUE],
         UNCHANGED <<kind, twice>>
  PROVE  IInv'
<1>. mode \in {"read", "write"} /\ mode # "none" /\ Modes' = Modes
  BY ModesAre DEF IInv, Modes
<1>1. /\ Holders(mode)' = Holders(mode) \cup {t}
      /\ t \notin Holders(mode)
      /\ \A other \in {"read", "write"} \ {mode} : Holders(other)' = Holders(other)
  BY DEF Holders, IInv, TypeOK
<1>2. LockedInScope'
  BY DEF LockedInScope, IInv, TypeOK
<1>3. ~exclusive /\ Cardinality(Holders("write")) <= twice /\ twice \in Nat
  BY DEF Acquire, IInv, LockExact, TypeOK
<1>4. CASE mode = "write"
  <2>1. sharers = 0 /\ exclusive' = TRUE /\ sharers' = sharers
    BY <1>4 DEF Acquire
  <2>2. Holders("read")' = {} /\ Holders("read") = {}
    BY <1>1, <1>4, <2>1, HoldersFinite DEF IInv, LockExact
  <2>3. Cardinality(Holders("write")') = Cardinality(Holders("write")) + 1
    BY <1>1, <1>4, HoldersFinite, FS_AddElement
  <2>4. Cardinality(Holders("write")') <= 1 + twice'
    BY <1>3, <2>3, HoldersFinite
  <2>5. Holders("write")' # {}
    BY <1>1, <1>4
  <2>6. TypeOK'
    BY <2>1 DEF IInv, TypeOK
  <2>7. LockExact'
    BY <1>3, <2>1, <2>2, <2>4, <2>5, FS_EmptySet DEF LockExact
  <2>8. MutualExclusion'
    BY <2>2, <2>4 DEF MutualExclusion
  <2>. QED BY <1>2, <2>6, <2>7, <2>8 DEF IInv
<1>5. CASE mode = "read"
  <2>1. exclusive' = exclusive /\ sharers' = sharers + 1
    BY <1>5 DEF Acquire
  <2>2. kind = "rwlock" /\ twice = 0
    BY <1>5, ModesAre DEF IInv, LockedInScope
  <2>3. Holders("write") = {}
    BY <1>3, <2>2, HoldersFinite
  <2>4. Holders("write")' = {} /\ Cardinality(Holders("write")') = 0
    BY <1>1, <1>5, <2>3, FS_EmptySet
  <2>5. Cardinality(Holders("read")') = Cardinality(Holders("read")) + 1
    BY <1>1, <1>5, HoldersFinite, FS_AddElement
  <2>6. TypeOK'
    BY <2>1 DEF IInv, TypeOK
  <2>7. LockExact'
    BY <1>3, <2>1, <2>4, <2>5 DEF LockExact, IInv
  <2>8. MutualExclusion'
    BY <1>3, <2>4 DEF MutualExclusion
  <2>. QED BY <1>2, <2>6, <2>7, <2>8 DEF IInv
<1>. QED BY <1>4, <1>5

\* A holder whose lock is released leaves the holders of its mode.
LEMMA Leaves ==
  ASSUME IInv, NEW t \in Threads, NEW mode \in Modes,
         scope[t] = mode, m_locked[t], Release(mode),
         scope' \in [Threads -> {"none"} \cup Modes],
         \A u \in Threads \ {t} : scope'[u] = scope[u],
         m_locked' = [m_locked EXCEPT ![t] = FALSE],
         kind = "rwlock" => scope'[t] = "none",
         UNCHANGED <<kind, twice>>
  PROVE  IInv'
<1>. mode \in {"read", "write"} /\ mode # "none" /\ Modes' = Modes
  BY ModesAre DEF IInv, Modes
<1>1. /\ Holders(mode)' = Holders(mode) \ {t}
      /\ t \in Holders(mode)
      /\ \A other \in {"read", "write"} \ {mode} : Holders(other)' = Holders(other)
  BY DEF Holders, IInv, TypeOK
<1>2. LockedInScope'
  BY DEF LockedInScope, IInv, TypeOK
<1>3. /\ Cardinality(Holders(mode)') = Cardinality(Holders(mode)) - 1
      /\ Cardinality(Holders(mode)') \in Nat
  BY <1>1, HoldersFinite, FS_RemoveElement, FS_CardinalityType
<1>4. twice \in Nat /\ exclusive \in BOOLEAN
  BY DEF IInv, TypeOK
<1>5. CASE mode = "write"
  <2>1. exclusive' = FALSE /\ sharers' = sharers
    BY <1>5 DEF Release
  <2>2. Holders("read") = {} /\ Holders("read")' = {}
    BY <1>1, <1>5 DEF IInv, MutualExclusion
  <2>3. Cardinality(Holders("write")') <= twice'
    BY <1>3, <1>4, <1>5, HoldersFinite DEF IInv, LockExact
  <2>4. TypeOK'
    BY <2>1 DEF IInv, TypeOK
  <2>5. LockExact'
    BY <1>4, <2>1, <2>2, <2>3 DEF LockExact, IInv
  <2>6. MutualExclusion'
    BY <1>3, <1>4, <1>5, <2>2, <2>3 DEF MutualExclusion
  <2>. QED BY <1>2, <2>4, <2>5, <2>6 DEF IInv
<1>6. CASE mode = "read"
  <2>1. exclusive' = exclusive /\ sharers' = sharers - 1
    BY <1>6 DEF Release
  <2>2. Holders("write") = {} /\ Holders("write")' = {}
    BY <1>1, <1>6 DEF IInv, MutualExclusion
  <2>3. ~exclusive /\ Cardinality(Holders("write")') = 0
    BY <1>4, <2>2, FS_EmptySet DEF IInv, LockExact
  <2>4. sharers' = Cardinality(Holders("read")') /\ sharers' \in Nat
    BY <1>3, <1>6, <2>1 DEF IInv, LockExact
  <2>5. TypeOK'
    BY <2>1, <2>4 DEF IInv, TypeOK
  <2>6. LockExact'
    BY <1>4, <2>1, <2>3, <2>4 DEF LockExact
  <2>7. MutualExclusion'
    BY <1>4, <2>2, <2>3 DEF MutualExclusion
  <2>. QED BY <1>2, <2>5, <2>6, <2>7 DEF IInv
<1>. QED BY <1>5, <1>6

\* The end of a scope that its thread has left by hand: whoever holds the lock
\* holds it no longer for the lock itself.
LEMMA UnlocksAgain ==
  ASSUME IInv, NEW t \in Threads, ~m_locked[t], Destruct(t)
  PROVE  IInv'
<1>1. kind = "mutex" /\ scope[t] = "write"
  BY DEF Destruct, IInv, LockedInScope, TypeOK, Modes
<1>2. exclusive' = FALSE /\ sharers' = sharers
  BY <1>1 DEF Destruct, Release
<1>3. /\ twice \in Nat /\ exclusive \in BOOLEAN /\ twice' = twice + 1
      /\ kind' = kind /\ Modes' = Modes
  BY DEF Destruct, IInv, TypeOK, Modes
<1>4. Holders("write")' = Holders("write") /\ Holders("read")' = Holders("read")
  BY DEF Destruct, Holders, IInv, TypeOK
<1>5. Cardinality(Holders("write")') <= twice'
  BY <1>3, <1>4, HoldersFinite DEF IInv, LockExact
<1>6. TypeOK'
  <2>1. /\ scope' \in [Threads -> {"none"} \cup Modes']
        /\ m_locked' \in [Threads -> BOOLEAN]
    BY <1>3 DEF Destruct, IInv, TypeOK
  <2>2. exclusive' \in BOOLEAN
    BY <1>2, Zenon
  <2>3. sharers' \in Nat /\ twice' \in Nat
    BY <1>2, <1>3 DEF IInv, TypeOK
  <2>4. kind' \in {"mutex", "rwlock"}
    BY <1>3 DEF IInv, TypeOK
  <2>. QED BY ONLY <2>1, <2>2, <2>3, <2>4, Zenon DEF TypeOK
<1>7. LockExact'
  BY <1>2, <1>3, <1>4, <1>5 DEF LockExact, IInv
<1>8. MutualExclusion'
  BY <1>3, <1>4, <1>5, HoldersFinite DEF MutualExclusion, IInv
<1>9. LockedInScope'
  BY <1>1, <1>3 DEF Destruct, LockedInScope, IInv, TypeOK
<1>. QED BY <1>6, <1>7, <1>8, <1>9 DEF IInv

THEOREM IInvInductive == Spec => []IInv
<1>1. Init => IInv
  <2> SUFFICES ASSUME Init PROVE IInv
    OBVIOUS
  <2>1. Holders("write") = {} /\ Holders("read") = {}
    BY DEF Init, Holders
  <2>2. TypeOK
    <3>1. sharers \in Nat /\ twice \in Nat
      BY DEF Init
    <3>2. m_locked \in [Threads -> BOOLEAN]
      BY Zenon DEF Init
    <3>3. scope \in [Threads -> {"none"} \cup Modes]
      BY DEF Init
    <3>. QED BY <3>1, <3>2, <3>3 DEF Init, TypeOK
  <2>3. LockExact /\ MutualExclusion /\ LockedInScope
    BY <2>1, FS_EmptySet DEF Init, LockExact, MutualExclusion, LockedInScope
  <2>. QED BY <2>2, <2>3 DEF IInv
<1>2. IInv /\ [Next]_vars => IInv'
  <2> SUFFICES ASSUME IInv, [Next]_vars PROVE IInv'
    OBVIOUS
  <2>1. ASSUME NEW t \in Threads, NEW mode \in Modes, Construct(t, mode)
        PROVE  IInv'
    <3>1. ~m_locked[t]
      BY <2>1 DEF Construct, IInv, LockedInScope
    <3>. QED BY <2>1, <3>1, Joins DEF Construct
  <2>2. ASSUME NEW t \in Threads, Lock(t) PROVE IInv'
    <3>1. PICK mode \in Modes : scope[t] = mode
      BY <2>2 DEF Lock, IInv, TypeOK
    <3>2. scope' = [scope EXCEPT ![t] = mode]
      BY <2>2, <3>1 DEF Lock, IInv, TypeOK
    <3>. QED BY <2>2, <3>1, <3>2, Joins DEF Lock
  <2>3. ASSUME NEW t \in Threads, Unlock(t) PROVE IInv'
    <3>1. PICK mode \in Modes : scope[t] = mode
      BY <2>3 DEF Unlock, IInv, LockedInScope, TypeOK
    <3>. QED BY <2>3, <3>1, Leaves DEF Unlock, IInv, TypeOK
  <2>4. ASSUME NEW t \in Threads, Destruct(t), m_locked[t] PROVE IInv'
    <3>1. PICK mode \in Modes : scope[t] = mode
      BY <2>4 DEF Destruct, IInv, TypeOK
    <3>2. scope' \in [Threads -> {"none"} \cup Modes] /\ scope'[t] = "none"
      BY <2>4 DEF Destruct, IInv, TypeOK
    <3>3. \A u \in Threads \ {t} : scope'[u] = scope[u]
      BY <2>4 DEF Destruct, IInv, TypeOK
    <3>. QED BY <2>4, <3>1, <3>2, <3>3, Leaves DEF Destruct
  <2>5. CASE UNCHANGED vars
    BY <2>5 DEF vars, IInv, TypeOK, LockExact, MutualExclusion, LockedInScope, Holders,
                Modes
  <2>. QED BY <2>1, <2>2, <2>3, <2>4, <2>5, UnlocksAgain DEF Next
<1>. QED BY <1>1, <1>2, PTL DEF Spec

\* Whatever the number of threads, at most one more than the scopes that have
\* ended after unlock() are in scopes locked for writing: one as long as there
\* is none, and never a reader beside a writer.
THEOREM MutualExclusionHolds == Spec => []MutualExclusion
BY IInvInductive, PTL DEF IInv

\* The lock is never left taken without a holder, and it is free under one only
\* as often as scopes have ended after unlock().
THEOREM LockExactHolds == Spec => []LockExact
BY IInvInductive, PTL DEF IInv

-----------------------------------------------------------------------------
(* Threads. *)

\* What the object and its thread know of each other.  The semaphore is posted
\* only when run() has done with the object, and taken before the constructor
\* returns; the handle is given up only when the thread has ended.
Handshake(w) ==
  /\ object[w] = "building" <=> creating = w
  /\ object[w] = "none" <=> at[w] = "none"
  /\ object[w] = "none" => ~m_thread[w] /\ reaped[w] = 0
  /\ object[w] \in {"alive", "gone"} => at[w] \in {"callback", "ended"}
  /\ object[w] = "building" => m_thread[w]
  /\ m_semaphore[w] > 0 => at[w] \in {"callback", "ended"}
  /\ at[w] \in {"take", "notify", "callback", "ended"} =>
       m_id[w] = w /\ t_thread_name[w] = m_name[w]
  /\ at[w] \in {"notify", "callback", "ended"} => ~m_callback[w]
  /\ object[w] = "alive" /\ ~m_thread[w] => at[w] = "ended"
  /\ object[w] = "gone" => w \in Detached \/ at[w] = "ended"

TInv == StartTypeOK /\ Identified /\ ReapedOnce /\ \A w \in Workers : Handshake(w)

USE DEF Workers

LEMMA WorkerNotNull == \A w \in Workers : w # Null
BY ThreadAssumption

LEMMA StartInitTInv == StartInit => TInv
<1> SUFFICES ASSUME StartInit PROVE TInv
  OBVIOUS
<1>1. StartTypeOK
  BY ThreadAssumption DEF StartInit, StartTypeOK
<1>2. Identified
  BY DEF StartInit, Identified
<1>3. ReapedOnce
  BY DEF StartInit, ReapedOnce
<1>4. \A w \in Workers : Handshake(w)
  BY WorkerNotNull DEF StartInit, Handshake
<1>. QED BY <1>1, <1>2, <1>3, <1>4 DEF TInv

LEMMA CreateKeeps == ASSUME TInv, NEW w \in Workers, Create(w) PROVE TInv'
<1>. USE DEF TInv, Create, memberVars
<1>1. StartTypeOK'
  BY DEF StartTypeOK
<1>2. Identified'
  BY DEF StartTypeOK, Identified
<1>3. ReapedOnce'
  BY DEF StartTypeOK, ReapedOnce, Handshake
<1>4. ASSUME NEW v \in Workers PROVE Handshake(v)'
  BY <1>4, WorkerNotNull DEF StartTypeOK, Handshake
<1>. QED BY <1>1, <1>2, <1>3, <1>4

LEMMA CreatedKeeps == ASSUME TInv, NEW w \in Workers, Created(w) PROVE TInv'
<1>. USE DEF TInv, Created, Wait, memberVars
<1>1. StartTypeOK'
  BY DEF StartTypeOK
<1>2. Identified'
  BY DEF StartTypeOK, Identified, Handshake
<1>3. ReapedOnce'
  BY DEF StartTypeOK, ReapedOnce, Handshake
<1>4. ASSUME NEW v \in Workers PROVE Handshake(v)'
  BY <1>4, WorkerNotNull DEF StartTypeOK, Handshake
<1>. QED BY <1>1, <1>2, <1>3, <1>4

LEMMA JoinKeeps == ASSUME TInv, NEW w \in Workers, Join(w) PROVE TInv'
<1>. USE DEF TInv, Join, memberVars
<1>1. StartTypeOK'
  BY DEF StartTypeOK
<1>2. Identified'
  BY DEF StartTypeOK, Identified
<1>3. ReapedOnce'
  BY DEF StartTypeOK, ReapedOnce
<1>4. ASSUME NEW v \in Workers PROVE Handshake(v)'
  BY <1>4 DEF StartTypeOK, Handshake
<1>. QED BY <1>1, <1>2, <1>3, <1>4

LEMMA DestroyKeeps == ASSUME TInv, NEW w \in Workers, Destroy(w) PROVE TInv'
<1>. USE DEF TInv, Destroy, memberVars
<1>1. StartTypeOK'
  BY DEF StartTypeOK
<1>2. Identified'
  BY DEF StartTypeOK, Identified
<1>3. ReapedOnce'
  BY DEF StartTypeOK, ReapedOnce
<1>4. ASSUME NEW v \in Workers PROVE Handshake(v)'
  BY <1>4 DEF StartTypeOK, Handshake
<1>. QED BY <1>1, <1>2, <1>3, <1>4

LEMMA RunStepKeeps == ASSUME TInv, NEW w \in Workers, RunStep(w) PROVE TInv'
<1>. USE DEF TInv, memberVars
<1>1. CASE RunBegin(w)
  <2>. USE <1>1 DEF RunBegin, SetName
  <2>1. StartTypeOK'
    BY DEF StartTypeOK
  <2>2. Identified'
    BY DEF StartTypeOK, Identified, Handshake
  <2>3. ReapedOnce'
    BY DEF ReapedOnce
  <2>4. ASSUME NEW v \in Workers PROVE Handshake(v)'
    BY <2>4 DEF StartTypeOK, Handshake
  <2>. QED BY <2>1, <2>2, <2>3, <2>4
<1>2. CASE TakeCallback(w)
  <2>. USE <1>2 DEF TakeCallback
  <2>1. StartTypeOK'
    BY DEF StartTypeOK
  <2>2. Identified'
    BY DEF StartTypeOK, Identified
  <2>3. ReapedOnce'
    BY DEF ReapedOnce
  <2>4. ASSUME NEW v \in Workers PROVE Handshake(v)'
    BY <2>4 DEF StartTypeOK, Handshake
  <2>. QED BY <2>1, <2>2, <2>3, <2>4
<1>3. CASE Notify(w)
  <2>. USE <1>3 DEF Notify, Post
  <2>1. StartTypeOK'
    BY DEF StartTypeOK
  <2>2. Identified'
    BY DEF Identified
  <2>3. ReapedOnce'
    BY DEF ReapedOnce
  <2>4. ASSUME NEW v \in Workers PROVE Handshake(v)'
    BY <2>4 DEF StartTypeOK, Handshake
  <2>. QED BY <2>1, <2>2, <2>3, <2>4
<1>. QED BY <1>1, <1>2, <1>3 DEF RunStep

LEMMA RenameKeeps ==
  ASSUME TInv, NEW w \in Workers, NEW name \in Names, Rename(w, name)
  PROVE  TInv'
<1>. USE DEF TInv, Rename, SetName
<1>1. StartTypeOK'
  BY DEF StartTypeOK
<1>2. Identified'
  BY DEF StartTypeOK, Identified
<1>3. ReapedOnce'
  BY DEF ReapedOnce
<1>4. ASSUME NEW v \in Workers PROVE Handshake(v)'
  BY <1>4 DEF StartTypeOK, Handshake
<1>. QED BY <1>1, <1>2, <1>3, <1>4

LEMMA CallbackEndsKeeps == ASSUME TInv, NEW w \in Workers, CallbackEnds(w) PROVE TInv'
<1>. USE DEF TInv, CallbackEnds, memberVars
<1>1. StartTypeOK'
  BY DEF StartTypeOK
<1>2. Identified'
  BY DEF Identified
<1>3. ReapedOnce'
  BY DEF ReapedOnce
<1>4. ASSUME NEW v \in Workers PROVE Handshake(v)'
  BY <1>4 DEF StartTypeOK, Handshake
<1>. QED BY <1>1, <1>2, <1>3, <1>4

LEMMA UnchangedKeeps == ASSUME TInv, UNCHANGED threadVars PROVE TInv'
BY DEF TInv, threadVars, memberVars, StartTypeOK, Identified, ReapedOnce, Handshake

THEOREM TInvInductive == StartSpec => []TInv
<1>1. TInv /\ [StartNext]_allVars => TInv'
  <2> SUFFICES ASSUME TInv, [StartNext]_allVars PROVE TInv'
    OBVIOUS
  <2>1. ASSUME NEW w \in Workers,
               \/ Create(w) \/ Created(w) \/ Join(w) \/ Destroy(w)
               \/ RunStep(w) \/ CallbackEnds(w)
               \/ \E name \in Names : Rename(w, name)
        PROVE  TInv'
    BY <2>1, CreateKeeps, CreatedKeeps, JoinKeeps, DestroyKeeps, RunStepKeeps,
       CallbackEndsKeeps, RenameKeeps
  <2>2. ASSUME NEW t \in Threads, LockStep(t) PROVE TInv'
    BY <2>2, UnchangedKeeps DEF LockStep
  <2>3. CASE UNCHANGED allVars
    BY <2>3, UnchangedKeeps DEF allVars
  <2>. QED BY <2>1, <2>2, <2>3 DEF StartNext
<1>. QED BY <1>1, StartInitTInv, PTL DEF StartSpec

\* The variables keep their types; in particular no semaphore goes below zero.
THEOREM StartTypesHold == StartSpec => []StartTypeOK
BY TInvInductive, PTL DEF TInv

\* run() never uses a Thread object that is gone, for any number of threads,
\* joined or detached.
THEOREM ObjectAliveHolds == StartSpec => []ObjectAlive
<1>1. TInv => ObjectAlive
  BY DEF TInv, ObjectAlive, Handshake, StartTypeOK
<1>. QED BY <1>1, TInvInductive, PTL

\* getId() of a constructed object is the identifier of its thread, and both
\* have the same name.
THEOREM IdentifiedHolds == StartSpec => []Identified
BY TInvInductive, PTL DEF TInv

\* Every thread is joined or detached exactly once before its object goes.
THEOREM ReapedOnceHolds == StartSpec => []ReapedOnce
BY TInvInductive, PTL DEF TInv

\* What threads do with the lock are steps of ScopedLock, so that its theorems
\* hold of callbacks and of the owner: the composition implements the lock.
THEOREM ImplementsScopedLock == StartSpec => Spec
<1>1. StartInit => Init
  BY DEF StartInit
<1>2. [StartNext]_allVars => [Next]_vars
  BY DEF StartNext, LockStep, Next, vars, allVars, lockVars, threadVars, memberVars,
         Create, Created, Join, Destroy, RunStep, RunBegin, TakeCallback, Notify,
         Rename, CallbackEnds
<1>. QED BY <1>1, <1>2, PTL DEF StartSpec, Spec

\* The callbacks and the owner, whose start() ends a scope after unlock(), are
\* together in their critical sections no further than MutualExclusion says.
THEOREM CallbacksExclude == StartSpec => []MutualExclusion
BY ImplementsScopedLock, MutualExclusionHolds, PTL
=============================================================================
