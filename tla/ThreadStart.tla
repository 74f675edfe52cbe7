---------------------------- MODULE ThreadStart ----------------------------
(***************************************************************************)
(* Threads of components/thread.{h,cpp}: an owner constructs Thread        *)
(* objects, with the lock held (as Scheduler::start() does) or without it, *)
(* and joins or destroys them; each object starts a thread that executes   *)
(* Thread::run.                                                            *)
(*                                                                         *)
(* The constructor waits on m_semaphore until run() has taken what it      *)
(* needs out of the object, and run() must not wait for anything that the  *)
(* constructing thread holds.  The lock is that of module ScopedLock:      *)
(* callbacks take and leave scopes of it in any order and mode.            *)
(*                                                                         *)
(* A failing pthread_create throws; nothing in the repository catches it,  *)
(* and the program ends.                                                   *)
(***************************************************************************)
EXTENDS ScopedLock

CONSTANTS
  Owner,     \* the thread that constructs the others
  Detached,  \* the threads whose object may be destroyed without join()
  Null,      \* m_id of an object whose thread has not said its own
  Names      \* names that a callback may give its thread

Workers == Threads \ {Owner}

ASSUME ThreadAssumption ==
  /\ Owner \in Threads
  /\ Detached \subseteq Workers
  /\ Null \notin Threads
  /\ "given" \in Names       \* the name passed to the constructor

VARIABLES
  object,        \* per thread: the Thread object
  m_thread,      \* per thread: the member is not 0
  m_id,
  m_callback,    \* per thread: the member holds the callback
  m_semaphore,   \* per thread: the count of the semaphore
  m_name,
  t_thread_name, \* per thread: the thread-local copy of the name
  at,            \* per thread: where it is in run()
  reaped,        \* per thread: how often its pthread was joined or detached
  creating,      \* the object whose constructor the owner executes, or Null
  m_threadIds    \* what getId() of the constructed objects has returned

lockVars   == <<kind, exclusive, sharers, scope, m_locked, twice>>
memberVars == <<m_thread, m_id, m_callback, m_semaphore, m_name>>
threadVars == <<object, memberVars, t_thread_name, at, reaped, creating, m_threadIds>>
allVars    == <<lockVars, threadVars>>

StartInit ==
  /\ Init
  /\ object = [w \in Workers |-> "none"]
  /\ m_thread = [w \in Workers |-> FALSE]
  /\ m_id = [w \in Workers |-> Null]
  /\ m_callback = [w \in Workers |-> FALSE]
  /\ m_semaphore = [w \in Workers |-> 0]
  /\ m_name = [w \in Workers |-> "given"]
  /\ t_thread_name = [w \in Workers |-> "UNKNOWN"]
  /\ at = [w \in Workers |-> "none"]
  /\ reaped = [w \in Workers |-> 0]
  /\ creating = Null
  /\ m_threadIds = {}

\* The semaphore: sem_post, and the end of a sem_wait.
Post(w) == m_semaphore' = [m_semaphore EXCEPT ![w] = @ + 1]

\* Mutant of Wait: it does not wait.
WaitAtOnce(w) == m_semaphore' = [m_semaphore EXCEPT ![w] = @ - 1]

Wait(w) ==
  /\ m_semaphore[w] > 0
  /\ m_semaphore' = [m_semaphore EXCEPT ![w] = @ - 1]

-----------------------------------------------------------------------------
(* The constructor and the destructor, join(). *)

\* The constructor, as far as pthread_create.
Create(w) ==
  /\ creating = Null
  /\ object[w] = "none"
  /\ object' = [object EXCEPT ![w] = "building"]
  /\ m_callback' = [m_callback EXCEPT ![w] = TRUE]
  /\ m_thread' = [m_thread EXCEPT ![w] = TRUE]
  /\ at' = [at EXCEPT ![w] = "begin"]
  /\ creating' = w
  /\ UNCHANGED <<lockVars, m_id, m_semaphore, m_name, t_thread_name, reaped, m_threadIds>>

\* The constructor returns, and start() keeps the identifier.
Created(w) ==
  /\ creating = w
  /\ Wait(w)
  /\ object' = [object EXCEPT ![w] = "alive"]
  /\ creating' = Null
  /\ m_threadIds' = m_threadIds \cup {m_id[w]}
  /\ UNCHANGED <<lockVars, m_thread, m_id, m_callback, m_name, t_thread_name, at, reaped>>

\* Mutant of Join: the handle is kept, and the destructor detaches it.
JoinKeepsHandle(w) ==
  /\ creating = Null
  /\ object[w] = "alive" /\ m_thread[w]
  /\ at[w] = "ended"
  /\ reaped' = [reaped EXCEPT ![w] = @ + 1]
  /\ UNCHANGED <<lockVars, object, memberVars, t_thread_name, at, creating, m_threadIds>>

\* join() returns when the thread has ended; it does nothing for a thread that
\* was joined already.
Join(w) ==
  /\ creating = Null
  /\ object[w] = "alive" /\ m_thread[w]
  /\ at[w] = "ended"
  /\ reaped' = [reaped EXCEPT ![w] = @ + 1]
  /\ m_thread' = [m_thread EXCEPT ![w] = FALSE]
  /\ UNCHANGED <<lockVars, object, m_id, m_callback, m_semaphore, m_name,
                 t_thread_name, at, creating, m_threadIds>>

\* The destructor detaches a thread that was not joined.
Destroy(w) ==
  /\ creating = Null
  /\ object[w] = "alive"
  /\ w \in Detached \/ ~m_thread[w]
  /\ object' = [object EXCEPT ![w] = "gone"]
  /\ reaped' = IF m_thread[w] THEN [reaped EXCEPT ![w] = @ + 1] ELSE reaped
  /\ UNCHANGED <<lockVars, memberVars, t_thread_name, at, creating, m_threadIds>>

-----------------------------------------------------------------------------
(* The new thread: Thread::run. *)

\* Thread::SetName, by the thread itself: the name in the object that t_thread
\* points to, and the thread's own copy.
SetName(w, name) ==
  /\ m_name' = [m_name EXCEPT ![w] = name]
  /\ t_thread_name' = [t_thread_name EXCEPT ![w] = name]

\* The identifier and the name are set.
RunBegin(w) ==
  /\ at[w] = "begin"
  /\ m_id' = [m_id EXCEPT ![w] = w]
  /\ SetName(w, m_name[w])
  /\ at' = [at EXCEPT ![w] = "take"]
  /\ UNCHANGED <<lockVars, object, m_thread, m_callback, m_semaphore, reaped,
                 creating, m_threadIds>>

\* The callback is taken out of the object.
TakeCallback(w) ==
  /\ at[w] = "take"
  /\ m_callback' = [m_callback EXCEPT ![w] = FALSE]
  /\ at' = [at EXCEPT ![w] = "notify"]
  /\ UNCHANGED <<lockVars, object, m_thread, m_id, m_semaphore, m_name,
                 t_thread_name, reaped, creating, m_threadIds>>

\* Mutants of Notify: before the identifier is set; after the callback.
NotifyFirst(w) ==
  /\ at[w] = "begin" /\ m_semaphore[w] = 0 /\ object[w] = "building"
  /\ Post(w)
  /\ UNCHANGED <<lockVars, object, m_thread, m_id, m_callback, m_name,
                 t_thread_name, at, reaped, creating, m_threadIds>>

NotifyLast(w) ==
  /\ at[w] \in {"notify", "ended"}
  /\ IF at[w] = "ended" THEN m_semaphore[w] = 0 /\ Post(w) ELSE UNCHANGED m_semaphore
  /\ at' = [at EXCEPT ![w] = IF @ = "notify" THEN "callback" ELSE @]
  /\ UNCHANGED <<lockVars, object, m_thread, m_id, m_callback, m_name,
                 t_thread_name, reaped, creating, m_threadIds>>

\* The constructor is told; the object is left to its owner.
Notify(w) ==
  /\ at[w] = "notify"
  /\ Post(w)
  /\ at' = [at EXCEPT ![w] = "callback"]
  /\ UNCHANGED <<lockVars, object, m_thread, m_id, m_callback, m_name,
                 t_thread_name, reaped, creating, m_threadIds>>

\* The callback gives its thread another name.  Only a thread that is joined
\* may do so: t_thread points to the object.
Rename(w, name) ==
  /\ at[w] = "callback"
  /\ w \notin Detached
  /\ SetName(w, name)
  /\ UNCHANGED <<lockVars, object, m_thread, m_id, m_callback, m_semaphore, at,
                 reaped, creating, m_threadIds>>

\* The callback returns, with no scope left open.
CallbackEnds(w) ==
  /\ at[w] = "callback"
  /\ scope[w] = "none"
  /\ at' = [at EXCEPT ![w] = "ended"]
  /\ UNCHANGED <<lockVars, object, memberVars, t_thread_name, reaped, creating, m_threadIds>>

-----------------------------------------------------------------------------
\* Scopes of the lock: of the owner outside a constructor, of callbacks.
\* start() is a scope of the owner that holds constructors, is left by hand
\* and then ends.
LockStep(t) ==
  /\ IF t = Owner THEN creating = Null ELSE at[t] = "callback"
  /\ \/ \E mode \in Modes : Construct(t, mode)
     \/ Lock(t) \/ Unlock(t) \/ Destruct(t)
  /\ UNCHANGED threadVars

RunStep(w) == RunBegin(w) \/ TakeCallback(w) \/ Notify(w)

StartNext ==
  \/ \E w \in Workers :
       \/ Create(w) \/ Created(w) \/ Join(w) \/ Destroy(w)
       \/ RunStep(w) \/ CallbackEnds(w)
       \/ \E name \in Names : Rename(w, name)
  \/ \E t \in Threads : LockStep(t)

\* Every thread is run by the operating system as far as its callback, and the
\* owner inside a constructor.  Callbacks need not return.
StartFairness ==
  \A w \in Workers : WF_allVars(RunStep(w)) /\ WF_allVars(Created(w))

StartSpec == StartInit /\ [][StartNext]_allVars /\ StartFairness

-----------------------------------------------------------------------------
(* Properties. *)

\* The variables have their types.
StartTypeOK ==
  /\ object \in [Workers -> {"none", "building", "alive", "gone"}]
  /\ m_thread \in [Workers -> BOOLEAN]
  /\ m_id \in [Workers -> Workers \cup {Null}]
  /\ m_callback \in [Workers -> BOOLEAN]
  /\ m_semaphore \in [Workers -> Nat]
  /\ m_name \in [Workers -> Names]
  /\ t_thread_name \in [Workers -> Names \cup {"UNKNOWN"}]
  /\ at \in [Workers -> {"none", "begin", "take", "notify", "callback", "ended"}]
  /\ reaped \in [Workers -> Nat]
  /\ creating \in Workers \cup {Null}
  /\ m_threadIds \subseteq Threads \cup {Null}

\* run() uses its Thread object only while that exists: until it has notified
\* the constructor, and in a callback that renames its thread.
ObjectAlive ==
  \A w \in Workers :
    (at[w] \in {"begin", "take", "notify"} \/ (at[w] = "callback" /\ w \notin Detached))
      => object[w] \in {"building", "alive"}

\* getId() of an object whose constructor has returned is the identifier of
\* its thread: scheduler.cpp:77 keeps it, to pin tasks to that thread; and the
\* thread logs under the name that the object has.
Identified ==
  /\ m_threadIds = {w \in Workers : object[w] \in {"alive", "gone"}}
  /\ \A w \in Workers : object[w] = "alive" =>
       /\ m_id[w] = w
       /\ t_thread_name[w] = m_name[w]
       /\ ~m_callback[w]

\* A thread is joined or detached once: never left behind when its object
\* goes, and never detached after it was joined.
ReapedOnce ==
  \A w \in Workers :
    /\ object[w] \in {"building", "alive"} => (m_thread[w] <=> reaped[w] = 0)
    /\ object[w] = "gone" => reaped[w] = 1
    /\ reaped[w] <= 1

\* A constructor returns although its caller holds the lock that the new
\* thread's callback asks for.
ConstructorReturns == \A w \in Workers : object[w] = "building" ~> object[w] = "alive"
=============================================================================
