---------------------------- MODULE FiberContext ----------------------------
(***************************************************************************)
(* The fibers of components/fiber.{h,cpp} as objects, stacks and contexts: *)
(* who refers to a fiber, what a thread-local pointer says, and where a    *)
(* context that was saved or made continues.                               *)
(*                                                                         *)
(* A stack bears the name of the fiber that owns it, and the main fiber of *)
(* a thread, which has no stack of its own, the name of the thread.        *)
(*                                                                         *)
(* A switch takes two steps: the state of the fiber is written first, for  *)
(* all threads to see, and swapcontext saves one context and resumes the   *)
(* other after it.  What two threads do to each other when both resume one *)
(* fiber in between is the subject of module Scheduler.                    *)
(*                                                                         *)
(* The rules of the guards marked "client" are those that scheduler.cpp    *)
(* follows, as TasksSafe of module Scheduler says; fiber.cpp does not      *)
(* enforce them.                                                           *)
(***************************************************************************)
EXTENDS Integers, FiniteSets

CONSTANTS
  Threads,
  RootThread,  \* the thread that owns a scheduler with use_caller
  Fibers,      \* fibers entered with swapIn() (MainFunc)
  Root,        \* the fiber entered with call() (CallerMainFunc)
  Null

Stacked == Fibers \cup {Root}
Objects == Threads \cup Stacked

ASSUME FiberAssumption ==
  /\ RootThread \in Threads
  /\ Root \notin Fibers
  /\ Threads \cap Stacked = {}
  /\ Null \notin Objects
  /\ IsFiniteSet(Objects)

VARIABLES
  m_state,        \* per fiber: Fiber::State, or "NONE" without an object
  m_callback,     \* per fiber: the callback is not null
  m_ctx,          \* per fiber: the stack on which its context continues
  latest,         \* the fibers whose m_ctx is where that stack was left last
  at,             \* per stack: before, in or behind MainFunc
  cur,            \* per stack: the fiber that the local cur of MainFunc refers to
  handles,        \* per fiber: the threads whose code refers to it
  running,        \* per thread: the stack it executes on
  going,          \* per thread: the switch that it is in: "in" (swapIn, call),
                  \* "out" (a Yield), "end" (the end of MainFunc), or "none"
  t_fiber,        \* per thread: Fiber's thread-local
  t_threadFiber,  \* per thread: Fiber's thread-local
  mainFiber,      \* per thread: Scheduler's thread-local t_fiber
  s_fiber_count,
  failed          \* the assertion that failed or the memory that was misused

contextVars == <<m_ctx, latest, at, cur, running>>
objectVars  == <<m_callback, handles, s_fiber_count>>
threadVars  == <<t_threadFiber, mainFiber>>
vars == <<contextVars, threadVars, objectVars, going, t_fiber, m_state, failed>>

Ended == {"TERM", "EXCEPT"}
State == {"INIT", "HOLD", "EXEC", "TERM", "READY", "EXCEPT"}

Exists(o) == o # Null /\ m_state[o] # "NONE"

Init ==
  /\ m_state = [o \in Objects |-> "NONE"]
  /\ m_callback = [o \in Objects |-> FALSE]
  /\ m_ctx = [o \in Objects |-> o]
  /\ latest = {}
  /\ at = [o \in Objects |-> IF o \in Threads THEN "body" ELSE "fresh"]
  /\ cur = [o \in Objects |-> Null]
  /\ handles = [f \in Stacked |-> {}]
  /\ running = [t \in Threads |-> t]
  /\ going = [t \in Threads |-> "none"]
  /\ t_fiber = [t \in Threads |-> Null]
  /\ t_threadFiber = [t \in Threads |-> Null]
  /\ mainFiber = [t \in Threads |-> Null]
  /\ s_fiber_count = 0
  /\ failed = "none"

Check(condition, site) == failed' = IF condition THEN failed ELSE site

-----------------------------------------------------------------------------
(* Objects. *)

\* Mutant of GetThis: the constructor of main fibers does not count them.
GetThisUncounted(t) ==
  /\ t_fiber[t] = Null
  /\ m_state' = [m_state EXCEPT ![t] = "EXEC"]
  /\ t_fiber' = [t_fiber EXCEPT ![t] = t]
  /\ t_threadFiber' = [t_threadFiber EXCEPT ![t] = t]
  /\ UNCHANGED <<contextVars, mainFiber, m_callback, handles, s_fiber_count, failed>>

\* The first GetThis() of a thread makes its main fiber.
GetThis(t) ==
  /\ t_fiber[t] = Null
  /\ m_state' = [m_state EXCEPT ![t] = "EXEC"]
  /\ t_fiber' = [t_fiber EXCEPT ![t] = t]
  /\ t_threadFiber' = [t_threadFiber EXCEPT ![t] = t]
  /\ s_fiber_count' = s_fiber_count + 1
  /\ UNCHANGED <<contextVars, mainFiber, m_callback, handles, failed>>

\* Scheduler::run on a thread of the pool.
EnterRun(t) ==
  /\ t # RootThread
  /\ t_fiber[t] # Null
  /\ mainFiber[t] = Null
  /\ mainFiber' = [mainFiber EXCEPT ![t] = t_fiber[t]]
  /\ UNCHANGED <<contextVars, t_threadFiber, t_fiber, m_state, m_callback,
                 handles, s_fiber_count, failed>>

\* Mutant of MakeContext: reset() leaves the context where the last run ended.
MakeContextOnce(f) ==
  /\ m_ctx' = [m_ctx EXCEPT ![f] = f]
  /\ at' = [at EXCEPT ![f] = IF m_state[f] = "NONE" THEN "fresh" ELSE @]
  /\ latest' = latest \cup {f}

\* getcontext and makecontext: the context continues at the begin of MainFunc.
MakeContext(f) ==
  /\ m_ctx' = [m_ctx EXCEPT ![f] = f]
  /\ at' = [at EXCEPT ![f] = "fresh"]
  /\ latest' = latest \cup {f}

\* The constructor.
NewFiber(t, f) ==
  /\ ~Exists(f)
  /\ m_state' = [m_state EXCEPT ![f] = "INIT"]
  /\ m_callback' = [m_callback EXCEPT ![f] = TRUE]
  /\ MakeContext(f)
  /\ handles' = [handles EXCEPT ![f] = {t}]
  /\ s_fiber_count' = s_fiber_count + 1
  /\ UNCHANGED <<t_threadFiber, t_fiber, cur, running, failed>>

Construct(t, f) == f \in Fibers /\ NewFiber(t, f) /\ UNCHANGED mainFiber

\* The constructor of a Scheduler with use_caller.
ConstructRoot ==
  /\ t_fiber[RootThread] # Null
  /\ running[RootThread] = RootThread
  /\ NewFiber(RootThread, Root)
  /\ mainFiber' = [mainFiber EXCEPT ![RootThread] = Root]

\* A thread executes on the stack of f, or is about to.
Executed(f) == \E u \in Threads : running[u] = f \/ (going[u] = "in" /\ t_fiber[u] = f)

\* reset(), also to a null callback.  Client: of a fiber that has left MainFunc,
\* or that nobody has entered; not of a root fiber, whose context it would make
\* for MainFunc.
Reset(t, f) ==
  /\ f \in Fibers
  /\ t \in handles[f]
  /\ ~Executed(f) /\ at[f] # "body"
  /\ Check(m_state[f] \in Ended \cup {"INIT"}, "reset")
  /\ \E given \in BOOLEAN : m_callback' = [m_callback EXCEPT ![f] = given]
  /\ m_state' = [m_state EXCEPT ![f] = "INIT"]
  /\ MakeContext(f)
  /\ UNCHANGED <<cur, running, threadVars, t_fiber, handles, s_fiber_count>>

\* The destructor of f runs when nothing refers to it any more.
Release(f, refs, locals) ==
  /\ handles' = [handles EXCEPT ![f] = refs]
  /\ cur' = locals
  /\ IF refs = {} /\ \A s \in Objects : locals[s] # f
     THEN /\ m_state' = [m_state EXCEPT ![f] = "NONE"]
          /\ s_fiber_count' = s_fiber_count - 1
          /\ latest' = latest \ {f}
          /\ Check(m_state[f] \in Ended \cup {"INIT"}, "~Fiber")
     ELSE UNCHANGED <<m_state, s_fiber_count, latest, failed>>

\* Another thread is given a reference, as by the queue of the scheduler.
Share(t, u, f) ==
  /\ t \in handles[f]
  /\ u \notin handles[f]
  /\ handles' = [handles EXCEPT ![f] = @ \cup {u}]
  /\ UNCHANGED <<contextVars, threadVars, t_fiber, m_state, m_callback,
                 s_fiber_count, failed>>

\* A thread gives a reference up.  Client: not while it runs the fiber, as run()
\* keeps fiberAndThread or callback_fiber until the fiber has left.
Drop(t, f) ==
  /\ t \in handles[f]
  /\ running[t] # f
  /\ f = Root => running[t] = t
  /\ Release(f, handles[f] \ {t}, cur)
  /\ UNCHANGED <<m_ctx, at, running, threadVars, t_fiber, m_callback>>

\* The thread-locals of a thread that ends are destroyed, and with them its
\* main fiber.
ThreadEnd(t) ==
  /\ t_threadFiber[t] # Null
  /\ running[t] = t
  /\ \A f \in Stacked : t \notin handles[f]
  /\ Check(~m_callback[t] /\ m_state[t] = "EXEC", "~Fiber main")
  /\ m_state' = [m_state EXCEPT ![t] = "NONE"]
  /\ s_fiber_count' = s_fiber_count - 1
  /\ latest' = latest \ {t}
  /\ t_fiber' = [t_fiber EXCEPT ![t] = IF @ = t THEN Null ELSE @]
  /\ t_threadFiber' = [t_threadFiber EXCEPT ![t] = Null]
  /\ mainFiber' = [mainFiber EXCEPT ![t] = Null]
  /\ UNCHANGED <<m_ctx, at, cur, running, m_callback, handles>>

-----------------------------------------------------------------------------
(* Switches. *)

\* swapcontext(&from->m_ctx, &to->m_ctx) on thread t, with `places` and
\* `locals` what the stacks hold before it.  A context that is not the latest of
\* its stack, or whose stack is gone or has ended, must not be resumed.
Switch(t, from, to, places, locals) ==
  LET left    == running[t]
      resumed == m_ctx[to]
  IN
  /\ m_ctx' = [m_ctx EXCEPT ![from] = left]
  /\ latest' = {o \in latest : m_ctx[o] \notin {left, resumed}} \cup {from}
  /\ running' = [running EXCEPT ![t] = resumed]
  /\ at' = [places EXCEPT ![resumed] = IF @ = "fresh" THEN "body" ELSE @]
  /\ cur' = [locals EXCEPT ![resumed] =
               IF places[resumed] = "fresh" THEN t_fiber'[t] ELSE @]
  /\ Check(to \in latest /\ places[resumed] # "ended", "context")

SetThis(t, f) == t_fiber' = [t_fiber EXCEPT ![t] = f]

\* swapIn() and call() of f, as far as swapcontext.
SwitchTo(t, f) ==
  /\ SetThis(t, f)
  /\ m_state' = [m_state EXCEPT ![f] = "EXEC"]
  /\ going' = [going EXCEPT ![t] = "in"]
  /\ UNCHANGED <<contextVars, threadVars, objectVars>>

\* swapIn().  Client: on a thread with a main fiber, by that fiber, of a fiber
\* that has not ended and that nobody executes.
SwapIn(t, f) ==
  /\ Exists(mainFiber[t])
  /\ running[t] = mainFiber[t]
  /\ t \in handles[f]
  /\ m_state[f] \notin Ended /\ ~Executed(f)
  /\ Check(m_state[f] # "EXEC", "swapIn")
  /\ SwitchTo(t, f)

\* call(): the owner's thread enters the root fiber, or enters it again.
\* Client: not when it has ended.
Call(t) ==
  /\ t = RootThread
  /\ running[t] = t
  /\ t \in handles[Root]
  /\ m_state[Root] \notin Ended
  /\ SwitchTo(t, Root)
  /\ UNCHANGED failed

\* swapcontext in swapIn() and call().
Enter(t) ==
  LET f == t_fiber[t] IN
  /\ going[t] = "in"
  /\ UNCHANGED t_fiber
  /\ Switch(t, IF f = Root THEN t_threadFiber[t] ELSE mainFiber[t], f, at, cur)
  /\ going' = [going EXCEPT ![t] = "none"]
  /\ UNCHANGED <<threadVars, objectVars, m_state>>

\* back() and swapOut() of f, the one to the main fiber of the thread, the other
\* to that of the scheduler.
BackOf(t, f, places, locals) ==
  /\ SetThis(t, t_threadFiber[t])
  /\ Switch(t, f, t_threadFiber[t], places, locals)

\* Mutant of SwapOut: the context of the thread's main fiber is resumed.
SwapOutToThread(t, f, places, locals) ==
  /\ SetThis(t, mainFiber[t])
  /\ Switch(t, f, t_threadFiber[t], places, locals)

\* Mutant of SwapOut: t_fiber stays that of the fiber that leaves.
SwapOutUnset(t, f, places, locals) ==
  /\ UNCHANGED t_fiber
  /\ Switch(t, f, mainFiber[t], places, locals)

SwapOut(t, f, places, locals) ==
  /\ SetThis(t, mainFiber[t])
  /\ Switch(t, f, mainFiber[t], places, locals)

\* YieldToReady() and YieldToHold(), as far as swapOut.  Client: in a fiber
\* entered with swapIn().
Yield(t, state) ==
  /\ running[t] \in Fibers
  /\ m_state' = [m_state EXCEPT ![t_fiber[t]] = state]
  /\ going' = [going EXCEPT ![t] = "out"]
  /\ UNCHANGED <<contextVars, threadVars, objectVars, t_fiber, failed>>

YieldOut(t) ==
  /\ going[t] = "out"
  /\ SwapOut(t, t_fiber[t], at, cur)
  /\ going' = [going EXCEPT ![t] = "none"]
  /\ UNCHANGED <<threadVars, objectVars, m_state>>

\* back(), in the middle of the root fiber.
Back(t) ==
  /\ running[t] = Root
  /\ BackOf(t, t_fiber[t], at, cur)
  /\ UNCHANGED <<threadVars, objectVars, going, m_state>>

\* MainFunc and CallerMainFunc: the callback returns or throws, as a null
\* callback does.
End(t) ==
  LET f == cur[running[t]] IN
  /\ running[t] \in Stacked
  /\ \/ /\ m_callback[f]
        /\ m_callback' = [m_callback EXCEPT ![f] = FALSE]
        /\ m_state' = [m_state EXCEPT ![f] = "TERM"]
     \/ /\ m_state' = [m_state EXCEPT ![f] = "EXCEPT"]
        /\ UNCHANGED m_callback
  /\ going' = [going EXCEPT ![t] = "end"]
  /\ UNCHANGED <<contextVars, threadVars, t_fiber, handles, s_fiber_count, failed>>

\* Mutant of ResetCur: the reference on the stack is kept.
ResetCurNot(s) == cur
ResetCur(s)    == [cur EXCEPT ![s] = Null]

\* cur is reset, and swapOut() or back() called of the fiber it referred to.
EndOut(t) ==
  LET s == running[t]
      places == [at EXCEPT ![s] = "ended"]
  IN
  /\ going[t] = "end"
  /\ IF s = Root THEN BackOf(t, cur[s], places, ResetCur(s))
                 ELSE SwapOut(t, cur[s], places, ResetCur(s))
  /\ going' = [going EXCEPT ![t] = "none"]
  /\ UNCHANGED <<threadVars, objectVars, m_state>>

-----------------------------------------------------------------------------
\* What code outside fiber.cpp does on thread t, or makes it do.
Operation(t) ==
  \/ /\ UNCHANGED going
     /\ \/ GetThis(t) \/ EnterRun(t) \/ ThreadEnd(t)
        \/ t = RootThread /\ ConstructRoot
        \/ \E f \in Fibers : Construct(t, f) \/ Reset(t, f)
        \/ \E f \in Fibers, u \in Threads : Share(t, u, f)
        \/ \E f \in Stacked : Drop(t, f)
  \/ Call(t) \/ Back(t) \/ End(t)
  \/ \E f \in Fibers : SwapIn(t, f)
  \/ \E state \in {"READY", "HOLD"} : Yield(t, state)

Next ==
  /\ failed = "none"
  /\ \E t \in Threads :
       \/ going[t] = "none" /\ Operation(t)
       \/ Enter(t) \/ YieldOut(t) \/ EndOut(t)

Spec == Init /\ [][Next]_vars
-----------------------------------------------------------------------------
(* Properties. *)

\* The variables have their types.
TypeOK ==
  /\ m_state \in [Objects -> State \cup {"NONE"}]
  /\ m_callback \in [Objects -> BOOLEAN]
  /\ m_ctx \in [Objects -> Objects]
  /\ latest \subseteq Objects
  /\ at \in [Objects -> {"fresh", "body", "ended"}]
  /\ cur \in [Objects -> Objects \cup {Null}]
  /\ handles \in [Stacked -> SUBSET Threads]
  /\ running \in [Threads -> Objects]
  /\ going \in [Threads -> {"none", "in", "out", "end"}]
  /\ t_fiber \in [Threads -> Objects \cup {Null}]
  /\ t_threadFiber \in [Threads -> Objects \cup {Null}]
  /\ mainFiber \in [Threads -> Objects \cup {Null}]
  /\ s_fiber_count \in Nat
  /\ failed \in {"none", "swapIn", "reset", "context", "~Fiber", "~Fiber main"}

\* No assertion fails: those of swapIn(), reset() and the destructor, and "never
\* reach" at the end of MainFunc and CallerMainFunc; and no context is resumed
\* that the stack has left behind, or whose fiber is gone.  So what m_state says
\* is true whenever swapIn() and reset() read it.
NothingFails == failed = "none"

\* GetThis() returns the fiber on whose stack the caller executes, but between
\* SetThis() and swapcontext() of swapIn() and call(), and inside MainFunc cur is
\* the fiber of that stack: what YieldToHold() and MainFunc change is the fiber
\* that leaves.
ThisIsRunning ==
  /\ \A t \in Threads : going[t] # "in" => t_fiber[t] \in {Null, running[t]}
  /\ \A s \in Objects : cur[s] \in {Null, s}

\* A fiber lives as long as something refers to it, and one that was begun and
\* has not ended refers to itself; TotalFibers() is the number of fibers.  So a
\* fiber is never freed under its own stack, and freed when it has ended.
Reclaimed ==
  /\ \A f \in Stacked : Exists(f) <=> (handles[f] # {} \/ at[f] = "body")
  /\ s_fiber_count = Cardinality({o \in Objects : Exists(o)})

\* Whoever leaves the stack of a fiber returns to the one that entered it: to
\* the main fiber of the scheduler on that thread, and from the root fiber, but
\* for the fibers it enters, to the thread's own stack.
ReturnsToResumer ==
  [][\A t \in Threads :
       running'[t] # running[t] =>
         /\ running[t] \in Fibers => running'[t] = mainFiber[t]
         /\ running[t] = Root => running'[t] \in Fibers \cup {t}]_vars
=============================================================================
