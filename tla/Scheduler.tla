------------------------------ MODULE Scheduler ------------------------------
(***************************************************************************)
(* The coroutine scheduler of components/scheduler.{h,cpp} on the fibers   *)
(* of components/fiber.{h,cpp}: pool threads (and, with use_caller, the    *)
(* thread that owns the scheduler) execute Scheduler::run, taking entries  *)
(* from the shared list m_fibers and switching into the fiber of each      *)
(* entry.                                                                  *)
(*                                                                         *)
(* A step is what one thread does between two accesses to state that other *)
(* threads can see: a critical section of m_mutex, an atomic increment, a  *)
(* write of Fiber::m_state, a context switch.  That a critical section of  *)
(* m_mutex is one step is the subject of module ScopedLock.  The one place *)
(* that gives it up is the end of start(), which may let two threads into  *)
(* the list at once: nothing is defined from there, and the model stops.   *)
(*                                                                         *)
(* A task is a callback given to schedule(); the fiber constructed to run  *)
(* it bears the task's name.  A thread's callback_fiber is reused, so a    *)
(* fiber may run (m_callback) a task that it is not named after.  What the *)
(* tasks and the owner do is bounded by the constants of ClientAssumption. *)
(***************************************************************************)
EXTENDS Integers, Sequences, FiniteSets, SequencesExt

CONSTANTS
  Workers,        \* the threads that start() creates
  Caller,         \* the thread that owns the scheduler
  UseCaller,      \* constructor argument use_caller
  Tasks,          \* the callbacks that are scheduled
  AnyThread,      \* the thread argument -1 of schedule()
  Null,           \* the null pointer
  Pinning,        \* threads that tasks are pinned to: "none", "own" or "any"
  Suspends,       \* how tasks suspend themselves: a subset of SuspendKinds
  TasksResume,    \* a task may resume one that is parked; the owner always may
  HomePinned,     \* a suspended fiber is scheduled on the thread it ran on
  MaxSuspends,    \* bound on the suspensions of each task
  MaxResubmits,   \* how often the owner schedules a queued fiber a second time
  Restarts        \* the owner may call start() again after stop()

Threads == Workers \cup {Caller}
Runners == IF UseCaller THEN Threads ELSE Workers

\* "ready": YieldToReady.  "again": schedule the running fiber, then
\* YieldToHold.  "park": YieldToHold, and wait to be scheduled by another.
SuspendKinds == {"ready", "again", "park"}

ASSUME PoolAssumption ==
  /\ IsFiniteSet(Workers)
  /\ Caller \notin Workers
  /\ UseCaller \in BOOLEAN
  /\ Runners # {}                     \* MY_ASSERT(thread_num > 0)
  /\ AnyThread \notin Threads
  /\ Null \notin Tasks

ASSUME ClientAssumption ==
  /\ Pinning \in {"none", "own", "any"}
  /\ Suspends \subseteq SuspendKinds
  /\ TasksResume \in BOOLEAN
  /\ HomePinned \in BOOLEAN
  /\ MaxSuspends \in Nat
  /\ MaxResubmits \in Nat
  /\ Restarts \in BOOLEAN
  \* the threads of a second start() are new ones: no fiber may ask for the
  \* thread it ran on before
  /\ Restarts => "park" \notin Suspends

VARIABLES
  m_fibers,            \* the queue of entries
  m_activeThreadCount,
  m_idleThreadCount,
  m_stopping,
  m_autoStop,
  m_rootFiber,         \* state of the fiber on which the owner executes run()
  m_state,             \* per fiber: Fiber::State, or "NONE" before it is constructed
  m_callback,          \* per fiber: the task it is to run
  pc,                  \* per thread: where it is
  fiberAndThread,      \* per thread: the entry in hand (local of run)
  callback_fiber,      \* per thread: the fiber kept for callbacks (local of run)
  idle_fiber,          \* per thread: state of the idle fiber (local of run)
  t_fiber,             \* per thread: the fiber it has switched into
  progress,            \* history: what has become of each task
  assigned,            \* history: the thread last asked for in schedule()
  home,                \* history: the thread each task last suspended itself on
  suspends,            \* how often each task has suspended itself
  resubmits,           \* how often Resubmit has been taken
  failed               \* the MY_ASSERT that has stopped the program, "m_mutex"
                       \* when nothing is defined any more, or "none"

queueVars   == <<m_fibers, m_activeThreadCount, m_idleThreadCount>>
controlVars == <<m_stopping, m_autoStop, m_rootFiber>>
fiberVars   == <<m_state, m_callback>>
localVars   == <<fiberAndThread, callback_fiber, idle_fiber>>
taskVars    == <<progress, assigned, home, suspends>>
vars == <<queueVars, controlVars, fiberVars, localVars, taskVars,
          t_fiber, resubmits, pc, failed>>

FiberState == {"NONE", "INIT", "HOLD", "EXEC", "TERM", "READY", "EXCEPT"}
Ended == {"TERM", "EXCEPT"}
RunPc == {"take", "enter", "swap", "body", "parking", "leave", "left",
          "settle", "requeue", "idle", "idling", "unidle"}
OwnerPc == {"new", "client", "stop1", "stop2", "join", "stopped", "destroyed"}

Entry == [fiber : Tasks \cup {Null}, callback : Tasks \cup {Null},
          thread : Threads \cup {AnyThread}]
FiberEntry(f, t)    == [fiber |-> f, callback |-> Null, thread |-> t]
CallbackEntry(c, t) == [fiber |-> Null, callback |-> c, thread |-> t]
NoEntry == [fiber |-> Null, callback |-> Null, thread |-> AnyThread]

-----------------------------------------------------------------------------
(* The constructor. *)
Init ==
  /\ m_fibers = <<>>
  /\ m_activeThreadCount = 0
  /\ m_idleThreadCount = 0
  /\ m_stopping = TRUE
  /\ m_autoStop = FALSE
  /\ m_rootFiber = IF UseCaller THEN "INIT" ELSE "NONE"
  /\ m_state = [f \in Tasks |-> "NONE"]
  /\ m_callback = [f \in Tasks |-> Null]
  /\ pc = [t \in Threads |-> IF t = Caller THEN "new" ELSE "off"]
  /\ fiberAndThread = [t \in Threads |-> NoEntry]
  /\ callback_fiber = [t \in Threads |-> Null]
  /\ idle_fiber = [t \in Threads |-> "INIT"]
  /\ t_fiber = [t \in Threads |-> Null]
  /\ progress = [c \in Tasks |-> "fresh"]
  /\ assigned = [c \in Tasks |-> AnyThread]
  /\ home = [c \in Tasks |-> AnyThread]
  /\ suspends = [c \in Tasks |-> 0]
  /\ resubmits = 0
  /\ failed = "none"

Goto(t, label) == pc' = [pc EXCEPT ![t] = label]

\* MY_ASSERT: the program is stopped when the condition does not hold.
Check(condition, site) == failed' = IF condition THEN failed ELSE site

\* The constructor of a fiber, and reset() of one that has nothing to resume.
NewFiber(f, c) ==
  /\ m_state' = [m_state EXCEPT ![f] = "INIT"]
  /\ m_callback' = [m_callback EXCEPT ![f] = c]

Reset(f, c) ==
  /\ Check(m_state[f] \in Ended \cup {"INIT"}, "reset")
  /\ NewFiber(f, c)

\* scheduleNoLock, under m_mutex.  tickle() only writes to the log.
Push(e) == m_fibers' = Append(m_fibers, e)

-----------------------------------------------------------------------------
(* Scheduling tasks: by the owner, or by a running task. *)

\* The thread argument that t may pass to schedule() for a new task: a thread
\* that does not exist yet has no identifier.
Pins(t) == {AnyThread} \cup
  CASE Pinning = "none" -> {}
    [] Pinning = "own" /\ pc[t] = "body" -> {t}
    [] OTHER -> {u \in Runners : pc[u] # "off"}

\* schedule(callback, p), or Fiber::pointer f(new Fiber(callback)); schedule(f, p).
Submit(t, c) ==
  /\ pc[t] \in {"new", "client", "body"}
  /\ progress[c] = "fresh"
  /\ progress' = [progress EXCEPT ![c] = "queued"]
  /\ \E p \in Pins(t) :
       /\ assigned' = [assigned EXCEPT ![c] = p]
       /\ \/ /\ Push(CallbackEntry(c, p))
             /\ UNCHANGED fiberVars
          \/ /\ Push(FiberEntry(c, p))
             /\ NewFiber(c, c)
  /\ UNCHANGED <<m_activeThreadCount, m_idleThreadCount, controlVars, localVars,
                 t_fiber, home, suspends, resubmits, pc, failed>>

\* The owner schedules once more a fiber that it has already put in the queue.
Resubmit(f) ==
  /\ pc[Caller] \in {"new", "client"}
  /\ resubmits < MaxResubmits
  /\ \E i \in DOMAIN m_fibers : m_fibers[i].fiber = f /\ m_state[f] = "INIT"
  /\ Push(FiberEntry(f, AnyThread))
  /\ resubmits' = resubmits + 1
  /\ UNCHANGED <<m_activeThreadCount, m_idleThreadCount, controlVars, fiberVars,
                 localVars, taskVars, t_fiber, pc, failed>>

\* The owner or a running task schedules a fiber that is parked.
Resume(t, f) ==
  LET c == m_callback[f]
      p == IF HomePinned THEN home[c] ELSE AnyThread
  IN
  /\ pc[t] = "client" \/ (TasksResume /\ pc[t] = "body")
  /\ c # Null
  /\ progress[c] = "parked"
  /\ Push(FiberEntry(f, p))
  /\ progress' = [progress EXCEPT ![c] = "started"]
  /\ assigned' = [assigned EXCEPT ![c] = p]
  /\ UNCHANGED <<m_activeThreadCount, m_idleThreadCount, controlVars, fiberVars,
                 localVars, home, suspends, t_fiber, resubmits, pc, failed>>

-----------------------------------------------------------------------------
(* Scheduler::run, up to the switch into a fiber. *)

\* Mutants of Eligible: the test of the thread is dropped; -1 is not taken for
\* any thread.
EligibleAnywhere(t, e) == e.fiber # Null => m_state[e.fiber] # "EXEC"
EligibleOwnOnly(t, e) ==
  /\ e.thread = t
  /\ e.fiber # Null => m_state[e.fiber] # "EXEC"

\* The test that the scan of m_fibers applies to each entry.
Eligible(t, e) ==
  /\ e.thread \in {AnyThread, t}
  /\ e.fiber # Null => m_state[e.fiber] # "EXEC"

Eligibles(t) == {i \in DOMAIN m_fibers : Eligible(t, m_fibers[i])}

\* Mutant of Take: the entry is not erased.
TakeWithoutErase(t) ==
  /\ pc[t] = "take"
  /\ \E i \in Eligibles(t) :
       /\ \A j \in Eligibles(t) : i <= j
       /\ fiberAndThread' = [fiberAndThread EXCEPT ![t] = m_fibers[i]]
  /\ m_activeThreadCount' = m_activeThreadCount + 1
  /\ Goto(t, "enter")
  /\ UNCHANGED <<m_fibers, m_idleThreadCount, controlVars, fiberVars, callback_fiber,
                 idle_fiber, taskVars, t_fiber, resubmits, failed>>

\* The scan finds an entry: it leaves the queue and the thread becomes active.
Take(t) ==
  /\ pc[t] = "take"
  /\ \E i \in Eligibles(t) :
       /\ \A j \in Eligibles(t) : i <= j
       /\ fiberAndThread' = [fiberAndThread EXCEPT ![t] = m_fibers[i]]
       /\ m_fibers' = RemoveAt(m_fibers, i)
  /\ m_activeThreadCount' = m_activeThreadCount + 1
  /\ Goto(t, "enter")
  /\ UNCHANGED <<m_idleThreadCount, controlVars, fiberVars, callback_fiber,
                 idle_fiber, taskVars, t_fiber, resubmits, failed>>

TakeNothing(t) ==
  /\ pc[t] = "take"
  /\ Eligibles(t) = {}
  /\ Goto(t, "idle")
  /\ UNCHANGED <<queueVars, controlVars, fiberVars, localVars, taskVars, t_fiber,
                 resubmits, failed>>

\* An entry with a fiber: swapIn as far as its assertion.  The test of the
\* fiber's state in run() (TERM or EXCEPT excluded) is true of every state.
EnterFiber(t) ==
  LET f == fiberAndThread[t].fiber IN
  /\ pc[t] = "enter"
  /\ f # Null
  /\ t_fiber' = [t_fiber EXCEPT ![t] = f]
  /\ Check(m_state[f] # "EXEC", "swapIn")
  /\ Goto(t, "swap")
  /\ UNCHANGED <<queueVars, controlVars, fiberVars, localVars, taskVars, resubmits>>

\* An entry with a callback: callback_fiber is reset to it or made for it.
EnterCallback(t) ==
  LET c == fiberAndThread[t].callback
      f == IF callback_fiber[t] = Null THEN c ELSE callback_fiber[t]
  IN
  /\ pc[t] = "enter"
  /\ fiberAndThread[t].fiber = Null
  /\ IF callback_fiber[t] = Null THEN NewFiber(f, c) /\ UNCHANGED failed
                               ELSE Reset(f, c)
  /\ callback_fiber' = [callback_fiber EXCEPT ![t] = f]
  /\ fiberAndThread' = [fiberAndThread EXCEPT ![t] = NoEntry]
  /\ t_fiber' = [t_fiber EXCEPT ![t] = f]
  /\ Goto(t, "swap")
  /\ UNCHANGED <<queueVars, controlVars, idle_fiber, taskVars, resubmits>>

\* The rest of swapIn.  A fiber that has ended is resumed behind the last
\* swapOut of MainFunc, where MY_ASSERT2(false, "never reach") stands.
SwapIn(t) ==
  LET f == t_fiber[t] IN
  /\ pc[t] = "swap"
  /\ Check(m_state[f] \notin Ended, "MainFunc")
  /\ m_state' = [m_state EXCEPT ![f] = "EXEC"]
  /\ progress' = IF m_state[f] = "INIT"
                 THEN [progress EXCEPT ![m_callback[f]] = "started"]
                 ELSE progress
  /\ Goto(t, "body")
  /\ UNCHANGED <<queueVars, controlVars, m_callback, localVars, assigned, home,
                 suspends, t_fiber, resubmits>>

-----------------------------------------------------------------------------
(* What the running task does, on the stack of its fiber. *)

\* The task returns or throws, and MainFunc records which; a callback that
\* has thrown is not cleared.
Finish(t) ==
  LET f == t_fiber[t] IN
  /\ pc[t] = "body"
  /\ progress' = [progress EXCEPT ![m_callback[f]] = "ended"]
  /\ \/ /\ m_callback' = [m_callback EXCEPT ![f] = Null]
        /\ m_state' = [m_state EXCEPT ![f] = "TERM"]
     \/ /\ m_state' = [m_state EXCEPT ![f] = "EXCEPT"]
        /\ UNCHANGED m_callback
  /\ Goto(t, "leave")
  /\ UNCHANGED <<queueVars, controlVars, localVars, assigned, home, suspends,
                 t_fiber, resubmits, failed>>

\* The task suspends itself, within the bound.
Suspend(t, kind) ==
  LET c == m_callback[t_fiber[t]] IN
  /\ pc[t] = "body"
  /\ kind \in Suspends
  /\ suspends[c] < MaxSuspends
  /\ suspends' = [suspends EXCEPT ![c] = @ + 1]
  /\ home' = [home EXCEPT ![c] = t]

\* Fiber::YieldToReady, as far as swapOut.
YieldToReady(t) ==
  /\ Suspend(t, "ready")
  /\ m_state' = [m_state EXCEPT ![t_fiber[t]] = "READY"]
  /\ Goto(t, "leave")
  /\ UNCHANGED <<queueVars, controlVars, m_callback, localVars, progress, assigned,
                 t_fiber, resubmits, failed>>

\* schedule(Fiber::GetThis(), p), before the call of YieldToHold.
ScheduleSelf(t) ==
  LET f == t_fiber[t]
      p == IF HomePinned THEN t ELSE AnyThread
  IN
  /\ Suspend(t, "again")
  /\ Push(FiberEntry(f, p))
  /\ assigned' = [assigned EXCEPT ![m_callback[f]] = p]
  /\ Goto(t, "parking")
  /\ UNCHANGED <<m_activeThreadCount, m_idleThreadCount, controlVars, fiberVars,
                 localVars, progress, t_fiber, resubmits, failed>>

\* Fiber::YieldToHold, as far as swapOut.
YieldToHold(t) ==
  LET f == t_fiber[t] IN
  /\ \/ /\ pc[t] = "parking"
        /\ UNCHANGED <<progress, home, suspends>>
     \/ /\ Suspend(t, "park")
        /\ progress' = [progress EXCEPT ![m_callback[f]] = "parked"]
  /\ m_state' = [m_state EXCEPT ![f] = "HOLD"]
  /\ Goto(t, "leave")
  /\ UNCHANGED <<queueVars, controlVars, m_callback, localVars, assigned, t_fiber,
                 resubmits, failed>>

\* Fiber::swapOut: only now is the fiber's context saved.
SwapOut(t) ==
  /\ pc[t] = "leave"
  /\ t_fiber' = [t_fiber EXCEPT ![t] = Null]
  /\ Goto(t, "left")
  /\ UNCHANGED <<queueVars, controlVars, fiberVars, localVars, taskVars, resubmits,
                 failed>>

-----------------------------------------------------------------------------
(* Scheduler::run, after the switch back from a fiber. *)

\* The fiber that run() holds: that of the entry, or callback_fiber.
Current(t) == IF fiberAndThread[t].fiber # Null THEN fiberAndThread[t].fiber
                                                ELSE callback_fiber[t]

\* Mutant of Drop: callback_fiber is kept.
DropEntryOnly(t) ==
  /\ fiberAndThread' = [fiberAndThread EXCEPT ![t] = NoEntry]
  /\ UNCHANGED callback_fiber

\* The pointer to it is reset.
Drop(t) ==
  IF fiberAndThread[t].fiber # Null
  THEN /\ fiberAndThread' = [fiberAndThread EXCEPT ![t] = NoEntry]
       /\ UNCHANGED callback_fiber
  ELSE /\ callback_fiber' = [callback_fiber EXCEPT ![t] = Null]
       /\ UNCHANGED fiberAndThread

\* Mutants of DecActive: a fiber that ends by an exception is not counted
\* down; the thread is counted down twice.
DecActiveUnlessExcept(t) ==
  /\ pc[t] = "left"
  /\ m_activeThreadCount' = m_activeThreadCount
                            - (IF m_state[Current(t)] = "EXCEPT" THEN 0 ELSE 1)
  /\ Goto(t, "settle")
  /\ UNCHANGED <<m_fibers, m_idleThreadCount, controlVars, fiberVars, localVars,
                 taskVars, t_fiber, resubmits, failed>>

DecActiveTwice(t) ==
  /\ pc[t] = "left"
  /\ m_activeThreadCount' = m_activeThreadCount - 2
  /\ Goto(t, "settle")
  /\ UNCHANGED <<m_fibers, m_idleThreadCount, controlVars, fiberVars, localVars,
                 taskVars, t_fiber, resubmits, failed>>

DecActive(t) ==
  /\ pc[t] = "left"
  /\ m_activeThreadCount' = m_activeThreadCount - 1
  /\ Goto(t, "settle")
  /\ UNCHANGED <<m_fibers, m_idleThreadCount, controlVars, fiberVars, localVars,
                 taskVars, t_fiber, resubmits, failed>>

SettleReady(t) ==
  /\ pc[t] = "settle"
  /\ m_state[Current(t)] = "READY"
  /\ Goto(t, "requeue")
  /\ UNCHANGED <<queueVars, controlVars, fiberVars, localVars, taskVars, t_fiber,
                 resubmits, failed>>

\* schedule(fiber): the entry asks for no thread, whatever the one in hand did.
Requeue(t) ==
  /\ pc[t] = "requeue"
  /\ Push(FiberEntry(Current(t), AnyThread))
  /\ Drop(t)
  /\ Goto(t, "take")
  /\ UNCHANGED <<m_activeThreadCount, m_idleThreadCount, controlVars, fiberVars,
                 idle_fiber, taskVars, t_fiber, resubmits, failed>>

\* The task has ended: the entry is dropped, a callback_fiber is kept, reset.
SettleEnded(t) ==
  LET f == Current(t) IN
  /\ pc[t] = "settle"
  /\ m_state[f] \in Ended
  /\ IF fiberAndThread[t].fiber # Null
     THEN UNCHANGED <<fiberVars, failed>>
     ELSE Reset(f, Null)
  /\ fiberAndThread' = [fiberAndThread EXCEPT ![t] = NoEntry]
  /\ Goto(t, "take")
  /\ UNCHANGED <<queueVars, controlVars, callback_fiber, idle_fiber, taskVars,
                 t_fiber, resubmits>>

\* The task is suspended: run() writes HOLD once more and forgets the fiber.
SettleHeld(t) ==
  /\ pc[t] = "settle"
  /\ m_state[Current(t)] \notin Ended \cup {"READY"}
  /\ m_state' = [m_state EXCEPT ![Current(t)] = "HOLD"]
  /\ Drop(t)
  /\ Goto(t, "take")
  /\ UNCHANGED <<queueVars, controlVars, m_callback, idle_fiber, taskVars, t_fiber,
                 resubmits, failed>>

-----------------------------------------------------------------------------
(* Scheduler::run with no entry to take, and the idle fiber. *)

\* Mutants of Stopping: the queue is not looked at; m_stopping is not.
StoppingWithEntries == m_autoStop /\ m_stopping /\ m_activeThreadCount = 0
StoppingWithoutFlag == m_autoStop /\ m_fibers = <<>> /\ m_activeThreadCount = 0

\* Scheduler::stopping.  The flags are only raised while threads run, and the
\* count only grows under m_mutex, so the four reads are one.
Stopping == /\ m_autoStop
            /\ m_stopping
            /\ m_fibers = <<>>
            /\ m_activeThreadCount = 0

IdleEnter(t) ==
  /\ pc[t] = "idle"
  /\ idle_fiber[t] # "TERM"
  /\ m_idleThreadCount' = m_idleThreadCount + 1
  /\ Goto(t, "idling")
  /\ UNCHANGED <<m_fibers, m_activeThreadCount, controlVars, fiberVars, localVars,
                 taskVars, t_fiber, resubmits, failed>>

\* Scheduler::idle on its fiber: it ends, or yields to HOLD.
IdleCheck(t) ==
  /\ pc[t] = "idling"
  /\ idle_fiber' = [idle_fiber EXCEPT ![t] = IF Stopping THEN "TERM" ELSE "HOLD"]
  /\ Goto(t, "unidle")
  /\ UNCHANGED <<queueVars, controlVars, fiberVars, fiberAndThread, callback_fiber,
                 taskVars, t_fiber, resubmits, failed>>

IdleLeave(t) ==
  /\ pc[t] = "unidle"
  /\ m_idleThreadCount' = m_idleThreadCount - 1
  /\ Goto(t, "take")
  /\ UNCHANGED <<m_fibers, m_activeThreadCount, controlVars, fiberVars, localVars,
                 taskVars, t_fiber, resubmits, failed>>

\* run() returns: the thread ends, or m_rootFiber does and stop() goes on.
RunExit(t) ==
  /\ pc[t] = "idle"
  /\ idle_fiber[t] = "TERM"
  /\ callback_fiber' = [callback_fiber EXCEPT ![t] = Null]
  /\ IF t = Caller
     THEN m_rootFiber' = "TERM" /\ Goto(t, "join")
     ELSE UNCHANGED m_rootFiber /\ Goto(t, "exited")
  /\ UNCHANGED <<queueVars, m_stopping, m_autoStop, fiberVars, fiberAndThread,
                 idle_fiber, taskVars, t_fiber, resubmits, failed>>

-----------------------------------------------------------------------------
(* The owner: start(), stop() and the destructor. *)

\* What the second unlock() of m_mutex at the end of the scope in start() can do:
\* a thread of the pool, let in by the first one, is in its scan of m_fibers,
\* and another thread may join it there.
UnlockAgain == failed' \in {failed} \cup (IF Workers = {} THEN {} ELSE {"m_mutex"})

\* start(): m_mutex is held while the threads are created, so that none of
\* them has scanned the queue before all of them exist.
Start ==
  /\ pc[Caller] = "new" \/ (Restarts /\ pc[Caller] = "stopped")
  /\ m_stopping
  /\ m_stopping' = FALSE
  /\ pc' = [t \in Threads |-> IF t = Caller THEN "client" ELSE "take"]
  /\ idle_fiber' = [t \in Threads |-> IF t = Caller THEN idle_fiber[t] ELSE "INIT"]
  /\ UnlockAgain
  /\ UNCHANGED <<queueVars, m_autoStop, m_rootFiber, fiberVars, fiberAndThread,
                 callback_fiber, taskVars, t_fiber, resubmits>>

\* stop(), as far as its first branch.  A scheduler that was not started is
\* stopped only if its owner runs the tasks.
MayStop == pc[Caller] = "client" \/ (pc[Caller] = "new" /\ UseCaller)

StopAtOnce ==
  /\ MayStop
  /\ Workers = {}
  /\ m_autoStop' = TRUE
  /\ m_stopping' = TRUE
  /\ Goto(Caller, IF m_fibers = <<>> /\ m_activeThreadCount = 0 THEN "stopped"
                                                                ELSE "stop1")
  /\ UNCHANGED <<queueVars, m_rootFiber, fiberVars, localVars, taskVars,
                 t_fiber, resubmits, failed>>

StopBegin ==
  /\ MayStop
  /\ Workers # {}
  /\ m_autoStop' = TRUE
  /\ Goto(Caller, "stop1")
  /\ UNCHANGED <<queueVars, m_stopping, m_rootFiber, fiberVars, localVars,
                 taskVars, t_fiber, resubmits, failed>>

StopFlag ==
  /\ pc[Caller] = "stop1"
  /\ m_stopping' = TRUE
  /\ Goto(Caller, IF UseCaller THEN "stop2" ELSE "join")
  /\ UNCHANGED <<queueVars, m_autoStop, m_rootFiber, fiberVars, localVars,
                 taskVars, t_fiber, resubmits, failed>>

\* if (!stopping()) m_rootFiber->call(): the owner runs tasks until none is
\* left.  A root fiber that has ended is resumed behind the last back() of
\* CallerMainFunc.
StopRoot ==
  /\ pc[Caller] = "stop2"
  /\ IF Stopping
     THEN Goto(Caller, "join") /\ UNCHANGED <<m_rootFiber, failed>>
     ELSE /\ m_rootFiber' = "EXEC"
          /\ Check(m_rootFiber = "INIT", "CallerMainFunc")
          /\ Goto(Caller, "take")
  /\ UNCHANGED <<queueVars, m_stopping, m_autoStop, fiberVars, localVars,
                 taskVars, t_fiber, resubmits>>

\* All threads are joined, and stop() returns.
Join ==
  /\ pc[Caller] = "join"
  /\ \A t \in Workers : pc[t] \in {"off", "exited"}
  /\ Goto(Caller, "stopped")
  /\ UNCHANGED <<queueVars, controlVars, fiberVars, localVars, taskVars, t_fiber,
                 resubmits, failed>>

Destroy ==
  /\ pc[Caller] = "stopped"
  /\ Check(m_stopping, "~Scheduler")
  /\ Goto(Caller, "destroyed")
  /\ UNCHANGED <<queueVars, controlVars, fiberVars, localVars, taskVars, t_fiber,
                 resubmits>>

-----------------------------------------------------------------------------
RunStep(t) ==
  \/ Take(t) \/ TakeNothing(t)
  \/ EnterFiber(t) \/ EnterCallback(t) \/ SwapIn(t)
  \/ Finish(t) \/ YieldToReady(t) \/ ScheduleSelf(t) \/ YieldToHold(t) \/ SwapOut(t)
  \/ DecActive(t) \/ SettleReady(t) \/ Requeue(t) \/ SettleEnded(t) \/ SettleHeld(t)
  \/ IdleEnter(t) \/ IdleCheck(t) \/ IdleLeave(t) \/ RunExit(t)

StopStep == StopFlag \/ StopRoot \/ Join

Next ==
  /\ failed = "none"
  /\ \/ \E t \in Threads, c \in Tasks : Submit(t, c) \/ Resume(t, c)
     \/ \E f \in Tasks : Resubmit(f)
     \/ \E t \in Threads : RunStep(t)
     \/ Start \/ StopAtOnce \/ StopBegin \/ StopStep \/ Destroy

Spec == Init /\ [][Next]_vars

\* The operating system runs every thread, and a task that runs returns or
\* suspends itself in the end.  Nothing obliges the owner to call stop().
Fairness ==
  /\ \A t \in Threads : WF_vars(failed = "none" /\ RunStep(t))
  /\ WF_vars(failed = "none" /\ StopStep)

FairSpec == Spec /\ Fairness

-----------------------------------------------------------------------------
(* Properties. *)

\* The variables have their types.
TypeOK ==
  /\ m_fibers \in Seq(Entry)
  /\ m_activeThreadCount \in Nat
  /\ m_idleThreadCount \in Nat
  /\ m_stopping \in BOOLEAN
  /\ m_autoStop \in BOOLEAN
  /\ m_rootFiber \in {"NONE", "INIT", "EXEC", "TERM"}
  /\ m_state \in [Tasks -> FiberState]
  /\ m_callback \in [Tasks -> Tasks \cup {Null}]
  /\ pc \in [Threads -> {"off", "exited"} \cup RunPc \cup OwnerPc]
  /\ fiberAndThread \in [Threads -> Entry]
  /\ callback_fiber \in [Threads -> Tasks \cup {Null}]
  /\ idle_fiber \in [Threads -> {"INIT", "HOLD", "TERM"}]
  /\ t_fiber \in [Threads -> Tasks \cup {Null}]
  /\ progress \in [Tasks -> {"fresh", "queued", "started", "parked", "ended"}]
  /\ assigned \in [Tasks -> Threads \cup {AnyThread}]
  /\ home \in [Tasks -> Threads \cup {AnyThread}]
  /\ suspends \in [Tasks -> 0 .. MaxSuspends]
  /\ resubmits \in 0 .. MaxResubmits
  /\ failed \in {"none", "m_mutex", "swapIn", "reset", "MainFunc", "CallerMainFunc",
                "~Scheduler"}

\* The counters that stopping() and the log rely on are exact: one unit for
\* each thread between the removal of an entry and the decrement after its
\* fiber has left, one for each thread on its idle fiber.  A unit lost or
\* counted twice makes stop() return early, or never.
ActivePc == {"enter", "swap", "body", "parking", "leave", "left"}
IdlePc == {"idling", "unidle"}

CountersExact ==
  /\ m_activeThreadCount = Cardinality({t \in Threads : pc[t] \in ActivePc})
  /\ m_idleThreadCount = Cardinality({t \in Threads : pc[t] \in IdlePc})

\* No assertion of fiber.cpp or scheduler.cpp stops the program: no fiber is
\* switched into while it runs or after it has ended, or reset while it is
\* suspended.  Only the second unlock() in start() leaves what follows open.
AssertionsHold == failed \in {"none", "m_mutex"}

\* At most one thread executes on the stack of a fiber, from the switch into
\* it until its context is saved by swapOut.
OnStack == {"body", "parking", "leave"}

ExclusiveStack ==
  \A t, u \in Threads :
    (pc[t] \in OnStack /\ pc[u] \in OnStack /\ t_fiber[t] = t_fiber[u]) => t = u

\* Both: whatever the tasks do with themselves, no two threads run one of them,
\* and none is resumed or reset in a state that does not allow it.
TasksSafe == AssertionsHold /\ ExclusiveStack

\* No entry waits for a thread that has left run(): nobody else may take it.
NotStranded ==
  \A i \in DOMAIN m_fibers :
    LET t == m_fibers[i].thread IN
    t \in Threads =>
      /\ pc[t] # "exited"
      /\ t = Caller => pc[t] \notin {"join", "stopped", "destroyed"}

\* A task runs on the thread that was last asked for, if one was.
AssignedThreadOnly ==
  \A t \in Threads :
    pc[t] = "body" => assigned[m_callback[t_fiber[t]]] \in {AnyThread, t}

\* What a client of schedule() and stop() may rely on, as module TaskPool
\* states it: no task is lost or run twice, and none is left when stop()
\* returns.
Pool == INSTANCE TaskPool WITH stopped <- pc[Caller] \in {"stopped", "destroyed"}
PoolSpec == Pool!Spec

\* A call of stop() returns.
StopReturns == pc[Caller] \in {"stop1", "stop2"} ~> pc[Caller] = "stopped"

\* A task that is in the queue while the pool's threads run is run, unless
\* start() has spoilt the queue.
QueuedRuns == \A c \in Tasks :
  (/\ progress[c] = "queued"
   /\ pc[Caller] \notin {"new", "stopped"}
   /\ failed = "none") ~> progress[c] # "queued"
=============================================================================
