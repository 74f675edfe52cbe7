# A verification project for WebFramework

WebFramework is a small C++ library for servers: locks and threads over
pthreads, configuration variables with listeners, loggers that are configured
by such a variable, stackful fibers (coroutines) over `ucontext`, and a
scheduler that runs fibers on a pool of threads. This directory holds TLA+
models of its concurrent parts, the TLC configurations that check them on small
instances, and proofs that TLAPS checks for every instance. The conversions and
the parser of log formats, which are sequential, are modelled too.

## The system

| Component | Source | State it keeps | Operations |
| --- | --- | --- | --- |
| Locks | `components/thread.h` | the pthread object; in each scoped lock, `m_locked` | constructor, `lock`, `unlock`, destructor, on `Mutex`, `RWMutex`, `Spinlock` |
| Thread, Semaphore | `components/thread.{h,cpp}` | `m_thread`, `m_id`, `m_callback`, `m_semaphore`; thread-locals `t_thread`, `t_thread_name` | constructor (waits until the thread has started), `run`, `join`, destructor (detaches) |
| Fiber | `components/fiber.{h,cpp}` | `m_state`, `m_callback`, context and stack; thread-locals `t_fiber`, `t_threadFiber` | constructor, `reset`, `swapIn`/`swapOut`, `call`/`back`, `YieldToReady`, `YieldToHold`, `MainFunc` |
| Scheduler | `components/scheduler.{h,cpp}` | `m_fibers`, the active and idle counters, `m_stopping`, `m_autoStop`, `m_threads`, `m_rootFiber`; locals of `run` in each thread | `schedule`, `start`, `run`, `idle`, `stopping`, `stop`, destructor |
| ConfigVar | `components/config.h` | `m_val`, `m_callbacks`, `m_mutex`; `s_func_id`, shared by all variables of a type | `getValue`, `setValue`, `fromString`, `toString`, `addListener`, `delListener`, `getListener`, `clearListener` |
| Config registry | `components/config.{h,cpp}` | the map from names to variables | `Lookup` (two forms), `LookupBase`, `LoadFromYaml`, `Visit` |
| Loggers | `components/log.{h,cpp}` | per logger: level, appenders, formatter, `m_root`, spinlock; per appender: level, formatter, `m_hasFormatter`, spinlock; the map of loggers | `log`, `addAppender`, `delAppender`, `clearAppender`, `setFormatter`, `setLevel`, `getLogger`, the listener of `logs` |
| LogFormatter | `components/log.cpp` | the parsed items, `m_error` | `init` (parses a pattern), `format` |
| The rest | `singleton.h`, `utils.*`, `macro.h`, `main.cpp`, `tests/` | none of interest | |

How they interact. `Scheduler::start` creates a `Thread` for each worker, with
`m_mutex` held, and each executes `Scheduler::run`: it scans `m_fibers` under
`m_mutex`, switches into the fiber of the entry it takes, and settles the fiber
when it has left. A running task may call `schedule` itself. `Fiber` switches
through thread-locals and looks up the scheduler's main fiber. `LoadFromYaml`
looks up variables and calls `fromString`, hence `setValue`, hence listeners,
among which that of `logs` reconfigures loggers while all threads log.

What is hard, and what makes each part correct:

* Locks: scopes can be unlocked by hand, as in `Scheduler::start()`, and the
  destructor unlocks unconditionally. Correct means: a critical section is
  exclusive, and what a second unlock spoils is bounded.
* Scheduler and fibers: shared queue, counters and flags, read together in
  `stopping()`; fibers that move between threads, suspended and rescheduled
  while other threads scan; tasks pinned to threads that may be gone; a pool
  that is started and stopped again. Correct means: no task is lost or run
  twice, no two threads are on one stack, no assertion fails, `stop()` returns
  and leaves nothing behind.
* ConfigVar: `setValue()` has two critical sections and calls foreign code in
  the first. Correct means: listeners know the value, and removed ones are not
  called.
* Loggers: messages race with reloads, level tests are outside the lock, and
  `log()` of the root logger runs under the lock of another. Correct means: a
  reload leaves what the configuration says, lists do not change under a writer,
  no null pointer is followed but where the code leaves one, no lock is left behind.
* Thread: the constructor and `run` share an object that may be gone, and the
  constructor waits for `run` with a lock held that `run` will want.
* Fibers as objects: a context may be resumed only where its stack was left; a
  fiber keeps itself alive by a reference on its own stack; thread-locals name
  the running fiber although fibers change threads. Correct means: every switch
  returns to whoever resumed, nothing is freed early or never.
* Registry: a name has one variable, one type, and a file reaches all variables
  it names although other parts of it are wrong. Text and value are converted in
  both directions by functions that are written separately.
* LogFormatter: a hand-written parser with several ways out of its loop.

## The modules

| Module | Models |
| --- | --- |
| `ScopedLock` | one lock and the scoped lock objects on it |
| `ThreadStart` | Thread objects, their threads and the semaphore, on top of `ScopedLock` |
| `ThreadStartProofs` | mutual exclusion of the scoped locks; lifetime, identity and reaping of threads, proved; implements `ScopedLock` |
| `FiberContext` | fibers as objects, stacks, contexts and thread-locals |
| `FiberContextProofs` | stacks, switches and lifetimes of fibers, proved |
| `TaskPool` | abstract: what a client of the scheduler is promised |
| `Scheduler` | Scheduler and Fiber in detail; implements `TaskPool` |
| `SchedulerSafetyProofs` | types and counters; where fibers are, and that no two threads run one, proved |
| `SchedulerPoolProofs` | where tasks are: none is lost, none is left when `stop()` returns; implements `TaskPool`, proved |
| `ConfigVar` | one variable, its setters and its listeners |
| `ConfigVarProofs` | what listeners know, proved |
| `Yaml` | external: texts, nodes, and what yaml-cpp makes of one and the other |
| `Files` | files and the list of their nodes: `ListAllMember` |
| `Conversions` | `LexicalCast`: text to value and back |
| `Registry` | the registry of variables: `Lookup`, `LoadFromYaml`, `Visit` by several threads |
| `RegistryProofs` | one variable for each name, what a visit sees, what a load leaves behind, and which values survive their text, proved |
| `LogFormatter` | the parser of patterns, and the printing of items |
| `LogFormatterProofs` | which patterns are refused, that the others are the text of their items, and which items are padded, proved |
| `Logging` | loggers in use while their configuration is reloaded |
| `LoggingProofs` | locks, lists and formats of appenders, null pointers, and what a reload leaves behind, proved |
| `MCThreadStart`, `MCFiberContext`, `MCScheduler`, `MCConfigVar`, `MCConfig`, `MCLogFormatter`, `MCLogging` | instances for TLC: symmetry sets, and the values, files, patterns and definitions of loggers that are tried |

How the modules fit together: `ThreadStart` EXTENDS `ScopedLock` and is proved to
implement it. `Scheduler` is proved, and checked where the proof has a hypothesis
that a run does without, to implement `TaskPool`; it takes threads as
`ThreadStart` leaves them (started, with an identifier, joined) and fibers as
`FiberContext` leaves them (a switch goes where it should), and splits what those
take for one step. `Registry` EXTENDS `Files`, which says what a file lists, and
`Conversions`, which says what a text is converted to; both EXTEND `Yaml`. It takes
`setValue()` as one step, which `ConfigVar` takes apart. `Logging` takes the verdict of `LogFormatter` on a pattern, and the
definitions that `Conversions` reads, as given.

Definitions named "mutant" in a comment are deliberately wrong variants of the
definition that follows them. They are used by no specification; with one of
them in place of the right definition, TLC finds the property it is listed with
violated, which shows that the property depends on that code.

### ScopedLock

`exclusive` and `sharers` are the pthread object, `scope` and `m_locked` the
scoped lock object of each thread. Actions: `Construct`, `Lock`, `Unlock`,
`Destruct`. `Destruct` unlocks whatever `m_locked` says, as thread.h:50-52 does, so
that a scope that has been left by hand with `unlock()` is unlocked a second time
when it ends. `Scheduler::start()` is such a scope (scheduler.cpp:79 and :85): the
second unlock may release the lock of a thread of the pool that has just taken it,
and let another one in beside it. `twice` counts the scopes that have ended so. The
modules below treat a critical section as one step; `MutualExclusion` says what that
rests on: it is sound as long as `twice = 0`, and each scope that ends after
`unlock()` lets at most one more thread in. `MaxTwice` bounds their number for TLC;
it occurs in no hypothesis.

### ThreadStart

`object` is whether the Thread object exists; `m_thread`, `m_id`, `m_callback`,
`m_semaphore`, `m_name` are its members, `at` is where its thread is in `run()`.
The constructor is two steps, `Create` up to `pthread_create` and `Created`, the
end of the wait; `run()` is `RunBegin`, `TakeCallback`, `Notify`, then the
callback: any sequence of scopes of the lock and of `SetName` (`Rename`), then
`CallbackEnds`. `Join` and `Destroy` are the owner's; the owner may construct with
the lock held, unlock by hand and end the scope, as `Scheduler::start()` does. `reaped` counts `pthread_join` and
`pthread_detach`. A thread of `Detached` may outlive its object, and then must
not rename itself: `t_thread` points to the object. `pthread_create` is taken to
succeed: when it fails the constructor throws and nothing catches it.

### FiberContext

A stack has the name of the fiber that owns it, or of the thread. `m_ctx` says on
which stack a context continues, `latest` which contexts are where their stack was
left last, and `at` whether a stack is before, in or behind `MainFunc`. A switch
that resumes a context that is not the latest, of a stack that has ended or whose
fiber is gone sets `failed`, as do the assertions of `swapIn()`, `reset()` and the
destructor. `handles` are the references
held by threads, `cur` the one on a fiber's own stack. `mainFiber` is the
thread-local `t_fiber` of `scheduler.cpp`, `t_fiber` and `t_threadFiber` those of
`fiber.cpp`. Each operation of the class is an action. A switch takes two steps, as
in fiber.cpp:123-141 and 159-169: `SwapIn`, `Call`, `Yield` and `End` write the state
and the thread-local, for all threads to see, and `going` says which switch the
thread is in; `Enter`, `YieldOut` and `EndOut` are the `swapcontext` that saves one
context and resumes the other. Other threads act in between.

Guards marked "client" are the rules that `scheduler.cpp` follows and `fiber.cpp`
does not enforce: `swapIn()` only on a thread with a main fiber, by that fiber, and
of a fiber that has not ended and on whose stack no thread is or is about to be;
`call()` not after the root fiber has ended; `reset()` only of a fiber that was not
entered or has left `MainFunc` for good, and not of the root fiber; no reference
given up while the fiber runs. That no two threads are on one stack is one of these
rules, and no result of this module: `fiber.cpp` has nothing that prevents it, and
`scheduler.cpp` keeps it only for clients that keep rules of their own (`TasksSafe`
and `sched_steal` of module `Scheduler`). What `FiberContext` adds is that under
that rule the states which `swapIn()` and `reset()` read, the contexts, the
thread-locals and the reference counts are right.

### Scheduler

Variables have the names of the members (`m_fibers`, `m_activeThreadCount`,
`m_stopping`, ...), of the fiber's members (`m_state`, `m_callback`), of the
locals of `run` (`fiberAndThread`, `callback_fiber`, `idle_fiber`, one per
thread), and of the thread-local `t_fiber`. `pc` is where a thread is in `run`,
or the owner in `start`/`stop`. `progress`, `assigned`, `home` are history;
`failed` names the assertion that has stopped the program.

A step lies between two accesses that other threads can see. One pass of the
loop of `run` is: `Take` (the scan, the removal and `++m_activeThreadCount`,
all under `m_mutex`), `EnterFiber` or `EnterCallback`, `SwapIn`, the task
(`Finish`, `YieldToReady`, `ScheduleSelf`, `YieldToHold`), `SwapOut`,
`DecActive`, then `SettleReady` and `Requeue`, or `SettleEnded`, or
`SettleHeld`; or `TakeNothing`, `IdleEnter`, `IdleCheck`, `IdleLeave`, at last
`RunExit`. The owner's steps are `Start`, `StopAtOnce` or `StopBegin`,
`StopFlag`, `StopRoot`, `Join`, `Destroy`.

Decisions that a reader may want to question:

* `YieldToHold` and `SwapOut` are two steps, since the state is written before
  the context is saved. So are `DecActive` and `Requeue`.
* `Stopping` is one step although it reads four variables: flags are only
  raised while threads run, and the counter grows only under `m_mutex`.
* The scan is one step although it reads the states of several fibers, of which
  others write. Only the order of two fibers that suspend themselves during the
  scan could differ.
* `Start` is one step: `m_mutex` is held until all threads exist, so none has
  scanned the queue. At the end of its scope `m_mutex` is unlocked a second time
  (`UnlockAgain`), perhaps while one thread of the pool is in its scan. If so, another
  may join it in `m_fibers`, and nothing is defined from there: `failed` becomes
  `"m_mutex"` and the model stops. What the properties say of a pool that was started
  they say of executions where the second unlock did no harm; `QueuedRuns` has this
  in its premise, and `ScopedLock` says how far the harm goes.
* `m_state` is a plain member read by other threads. The model interleaves the
  accesses; it does not model what a compiler might do with the race.
* `tickle()` only logs. A fiber in HOLD stays alive by the reference on its own
  stack. A restarted pool has new threads with new identifiers, so that with
  `Restarts` no fiber may ask for the thread it ran on.
* `schedule(begin, end)` does not compile when it is instantiated (and would
  not end), and is left out.
* `stop()` without `start()` is modelled for `use_caller` only. Without it,
  nobody runs anything.

What clients do is bounded by constants: how tasks may be pinned (`Pinning`),
how they suspend themselves (`Suspends`), whether a suspended fiber is
rescheduled on the thread it ran on (`HomePinned`), how often a task suspends
itself, how often the owner schedules a queued fiber a second time. The code
states no rules for its clients, so the passing runs also say which rules it
needs. They are these:

1. A fiber that schedules itself before `YieldToHold`, or is resumed by
   another, asks for the thread it ran on. Otherwise another thread may resume
   it before its context is saved (run `sched_steal`).
2. A fiber is in the queue once (`sched_alone` is the only passing run without
   this rule, and it states only what survives a stop at an assertion).
3. `YieldToReady` is not combined with pinning to other threads. `run()`
   decrements the active counter before it puts the fiber back, so that idle
   threads may exit, and an entry pinned to one of them keeps `stop()` waiting.
   And `run()` puts the fiber back without its thread, so that a pinned task
   continues anywhere (`Requeue`); `AssignedThreadOnly` is checked only where
   `YieldToReady` is not used.
4. With `use_caller`, a scheduler is not started a second time: `stop()` calls
   the root fiber, which ended in the first `stop()`, without the reset that is
   commented out (scheduler.cpp:125-127).

### TaskPool

What a client may rely on: a task is submitted once, begun at most once, ended
or parked, and when `stop()` has returned no submitted task is left. `Scheduler`
maps its history variable `progress` to the abstract state and the owner's `pc`
to `stopped`; `PoolSpec` is checked as a property of the runs, and proved.

### ConfigVar

`m_val`, `m_callbacks` and `s_func_id` are the members. `SetValue`, `Tell`,
`Throw` and `Told` are the part of `setValue()` under the read lock, one step
per listener, in any order as in an `unordered_map`; `Store` is the part under
the write lock. The write lock is free when no thread is in the first part. A
listener may throw. Listeners do not set their own variable or change its
listeners: their thread would wait for itself. `clearListener()` takes no lock and may
come while threads go through the listeners. What such a thread reads then is freed;
the model lets it still call any of the listeners that were removed, or none
(`cleared`), and `RemovedNotCalled` says that these are the only removed listeners that
are ever called, and only by a `setValue()` that had begun.

The history variables say which listeners may be out of date: `told` is what
each was last told, `overlapped` are setters that another one overlaps,
`missed` the listeners affected. `Informed` says that all others know the value
whenever no `setValue()` is under way. The exceptions are real: two
overlapping changes may be told in one order and stored in the other; a listener
registered after the listeners were called and before the value is stored never
hears of it; a listener that throws leaves those before it with a value that is
never stored.

### Yaml, Files, Conversions and Registry

A text is told apart by what `YAML::Load` makes of it: plain, or the text of a
sequence, a map or null, in any number of quotes. `Nodes` are the nodes of all files,
closed under what is inside them (`NodesAssumption`). yaml-cpp's `Load` and its emitter
are external, as is `Indexed`: what `node[0]` to `node[size()-1]` are, of a sequence, or
of a map that is read into a vector or set. `ListAllMember` is a recursive function on a node and its name; a file is
finite, which `FilesAssumption` says with the `Depth` of its maps.

`fromString` and `toString` follow the templates of `LexicalCast` type by type;
`DefineFromString` and `DefineToString` are those of `LogDefine`. The templates call
themselves for the type of the elements; the model has types of up to two containers
around each other, and the
conversions of the three levels are `basic...`, `simple...` and the whole. The
variables of the repository have no deeper types than that. A
third level would be like the second, in the model as in its proofs.

`Registry` has the map `s_datas` with its lock (`writer`, `readers`) explicit.
`Lookup` with a default is `LookupLock`, then `LookupFound`, `LookupThrows`, or
`LookupNotFound` and `LookupInsert`; `LookupExisting` is the other form, one step
under the read lock. `LoadBegin` takes the `Listing` of the file, `LoadNode` is one
round of the loop: `LookupBase`, the conversion, `setValue()`. `VisitBegin`,
`VisitNext` and `VisitEnd` hold the read lock; a callback may set its variable.
Names are sequences of the words between their dots. A key may have dots itself or be
empty, so that two nodes of a file can have one name (`Join`); the empty name is the
root's, and also that of a member of it with an empty key. The conversion of names to
lower case changes nothing, since a name with another character has been left out
before.

`Loaded` compares the values after a load with the file itself, independently of the
code: `NodesUnder` are the nodes with a name, collected level by level of the file
(`Level`) and without a listing or an order; the value must be one that some node of
them that the type can read stands for. `Denotes` says which values a text stands for, without order and without
`Throw`. `ReadBack` says for which values `fromString(toString())` is the identity:
exactly those that `Readable` describes. The others are vectors of vectors or maps,
strings in containers that YAML quotes, sets of logger definitions, and definitions with
a file, or with the level or format of an appender.

### LogFormatter

One step of `init()` is one round of its outer loop: `TextChar`, `Conversion`,
`ConversionWithFormat` or `Unclosed`; `Finish` builds `m_items`. `FormatItem` prints
one item, and `width` is what `setw()` leaves in the stream. `WellFormed` says
which patterns are meant, by the comment on the parser (log.cpp:396), which has
`%xxx`, `%xxx{xxx}` and `%%`: there is a set of places where conversions and escapes
start, which cover the percents of the pattern. Of the parser's operators it uses only
`At`, and not its order. `ErrorExact` compares the two: `init()` refuses what is not
well formed, and, although the comment lists it and log.cpp:420-424 prepare for it,
every pattern with a `%%`; it makes an error item of it.

### Logging

The level, formatter, appenders and spinlock of each logger, the value of the
variable `logs` (`m_val`; `loading` is the one that a thread is setting), and for each thread
its place in `Logger::log`: the level test of the macro (`LogCall`), that of
`log` (`LevelCheck`), the lock (`LockLogger`), one step per appender (`Write`),
`Unlock`. A logger without appenders calls the root logger's `log` with its own
lock held: `current` is then the root, `message.logger` the logger that waits.

The listener goes through two loops, over the new definitions and over the names that
are gone. `todo` says what a thread has still to do: the definitions and names its
loops have not finished (`Work` at the beginning), and the number of its next call
for the first of them. `Calls` are the calls of one round of a loop, `ForDefine` or
`ForRemoved`; `ListenerCall` makes one of them, with its own lock, and `Rest` is what
is left then. `std::set` orders definitions by name; the model takes any one order
(`Item`). Appenders are records, since nothing in the repository compares or shares
them; the two types differ only in where they write. The level of a
`FileLogAppender` is not initialised by its constructor, but the listener sets it
before the appender is visible.

A reload may repeat a definition unchanged. For such a definition the listener's pointer
`new_logger` stays null (log.cpp:638-649), and the program follows it. `log()` of a
root logger without appenders follows its null `m_root`. `failed` says which pointer
was followed; the program does nothing more then. `NullsFollowed` says when: `m_root`
only after a reload has defined the root logger, `new_logger` only and always in a
reload that repeats a definition of the value it replaces, whatever else goes on, and no
formatter is null (`base` and `configured` are the history it needs). Programs may change the format of a
logger at any time, as `tests/test_config.cpp` does.

Any number of threads reload. The listener runs under the read lock of the variable,
which they share (`Telling`), and the value is stored under the write lock, when
nobody is in the listener (`Commit`). Two reloads that overlap start from the same
old value and mix their calls: a logger may end with the appenders of both, and one
that only the first value defines is not silenced by the second. That is how the
code behaves, so `Reconfigured` does not speak of those names; the history variable
`tended` keeps the names that reloads have touched since two of them last
overlapped, and for these the configuration holds whatever the overlap has left.

## What is checked

`tlc -config X.cfg M` with the module and configuration of each run:

| Run | Configuration | Shows |
| --- | --- | --- |
| `thread_start` | `MCThreadStart.cfg` | an owner and three threads, one of which it need not join, with scopes of a mutex that may be left by hand, or of a reader-writer lock; under fairness, constructors return |
| `fiber_context` | `MCFiberContext.cfg` | the owner's root fiber and two fibers on two threads, in any order of operations |
| `sched_restart` | `MCSchedulerRestart.cfg` | two pool threads, two tasks that yield, reschedule themselves and pin to their thread, `start`/`stop` repeated |
| `sched_park` | `MCSchedulerPark.cfg` | `use_caller`, two pool threads, two tasks that park, resume and pin to any thread |
| `sched_alone` | `MCSchedulerAlone.cfg` | `use_caller` without pool threads, and a fiber scheduled twice |
| `sched_live` | `MCSchedulerLive.cfg` | under fairness, `stop()` returns and queued tasks are run |
| `sched_steal` | `MCSchedulerSteal.cfg` | *violation*: two threads on one stack |
| `config_registry` | `MCConfig.cfg` | two threads look up, set, visit and load two files, one of which is wrong in every part but one |
| `log_text` | `MCLogFormatter.cfg` | all patterns of up to six characters |
| `config_var` | `MCConfigVar.cfg` | two setters, three values, three listeners, and `clearListener()` at any time |
| `logging` | `MCLogging.cfg` | a writer that also changes formats, two reloaders that may overlap, repeat definitions and log, two loggers, two definitions of one and one of the root logger |
| `logging_root` | `MCLoggingRoot.cfg` | *violation*: reloading the root logger while another thread logs follows a null pointer |

The main properties of `Scheduler`: `CountersExact` (the two counters equal the
number of threads in those parts of `run`), `TasksSafe` (no two threads on one
stack, and no assertion fails), `NotStranded` (no entry waits for a thread that has
left), `AssignedThreadOnly`, `PoolSpec`, `StopReturns`, `QueuedRuns`. Of
`ThreadStart`: `ObjectAlive`, `Identified`, `ReapedOnce`, `ConstructorReturns`. Of
`FiberContext`: `NothingFails`, `ThisIsRunning`, `Reclaimed`, `ReturnsToResumer`. Of `Registry`: `OneVariable`,
`StableUnderVisit`, `Loaded`, `ReadBack`. Of `LogFormatter`: `Faithful`, `ErrorExact`,
`PaddingLocal`. Of `Logging`: `LocksExact`, `FormatInherited`, `ListStable`, `Reconfigured`,
`NullsFollowed`. Of `ConfigVar`: `RemovedNotCalled`, `Informed`. Where the types are
proved for all instances (`ScopedLock`, `ThreadStart`, `ConfigVar`) no run repeats
them.

Bounds. Two tasks and two pool threads (and the owner) are the least number at
which a task can be stolen, stranded or lost between two threads that disagree
about `stopping()`; each task suspends itself once or twice, so that it can go
round the queue and be found in every state. In `thread_start` two joined threads
and a detached one are at different places of `run()` while the owner constructs the
third. In `fiber_context` two fibers and the root fiber let one thread hold a fiber
that another has suspended, ended and reset; nothing but the number of objects is
bounded. In `config_registry` a map is a variable and so is its member, one name is
looked up with two types and one name is refused; the files give each variable a
value it did not have, or one it cannot take, and one of them gives a name to two nodes
by a key with a dot. Two scopes that end after `unlock()` are one more than
`start()` has. Six characters hold two conversions
with a format each, a brace that is closed too early or not at all, and %% at every
place. Three listeners allow one told, one
throwing and one registered late; three values make two overlapping changes
differ. Two definitions of one logger, with a format, an invalid format or none and
with zero or two appenders, and one of the root logger, to which it falls back, give
every kind of reload: a definition that is new, changed, repeated, gone, and the root
logger before and after it was defined. Two reloads that overlap, and a third after them,
are the least in which calls mix and are put right; since the listener logs, three
threads meet in the root logger, and any number in the theorems on its locks and
lists. Runs of safety properties use the symmetry of
threads, tasks and values; runs of liveness properties do not.

Deadlock is checked in all runs but those of `Scheduler`, where the program ends
when the scheduler is destroyed, an assertion fails or nothing is defined any more, and
`logging_root`, which ends with the crash; in `logging` a program that has followed a
null pointer stays as it is (`Crashed`).

Fairness. `sched_live`: weak fairness of the steps of each thread, since the
operating system runs every thread and a task, bounded by the model, returns or
suspends itself; weak fairness of the owner's steps inside `stop()`, but not of
calling it. `thread_start`: weak fairness of each thread up to its callback and of
the end of the constructor's wait; callbacks need not return and the lock need not
be released. No fairness is assumed of locks: the critical sections of `m_mutex` are
single steps that never block for ever, since no step holds the lock.

### Findings

Two runs check a line of the repository that the code does not keep.

* `sched_steal`: the test "skip a fiber that is executing" (scheduler.cpp:174) reads
  a state that `YieldToHold` has changed before the fiber has stopped executing; a
  second thread resumes it on the same stack.
* `logging_root`: the root logger without appenders, also for a moment during a
  reload, follows its null `m_root`, although log.h:289 promises the root logger's
  `log`.

### Observed behaviour

Met while modelling. The passing runs contain the first seven, and their properties say
how far they go; the others are kept out by a guard or a constant.

* The destructor of a scoped lock unlocks whatever `m_locked` says, so that
  `Scheduler::start()` unlocks `m_mutex` twice (scheduler.cpp:79 and :85) and may
  release it under a thread that has just taken it (`MutualExclusion`, `UnlockAgain`).
* A reload that repeats a definition unchanged follows the null `new_logger`
  (log.cpp:638-649), and ends the program (`NullsFollowed`).
* A definition without a format leaves its logger with the format of an earlier
  definition (log.cpp:650); `Reconfigured` speaks of levels and appenders only.
* `clearListener()` changes the map of listeners under a `setValue()` that goes through
  it (config.h:366-368; `RemovedNotCalled`).
* The comment above the parser (log.cpp:396) lists `%%`; `init()` always makes an
  error item of it (`ErrorExact`).
* The line width of `%T` applies to whatever is printed next (`PaddingLocal`).
* `DefineToString` writes a file under `file`, where `DefineFromString` reads
  `path`, and the level of an appender into that of its logger (`ReadBack`).
* The hang and the second `call()` of rules 3 and 4 above.
* `tests/test_fiber.cpp` calls `swapIn()` on a thread without a scheduler:
  `GetMainFiber()` is null there. `Exists(mainFiber[t])` in `FiberContext`.
* `Fiber::reset()` makes a context for `MainFunc` whatever the fiber was made for,
  so that a root fiber cannot be reset. A fiber that is dropped in HOLD keeps
  itself alive for ever (`Reclaimed` says so).
* An empty thread name replaces the "UNKNOWN" that has just been set
  (thread.cpp:54-57).

## What is proved

All theorems hold for any finite or infinite sets that satisfy the assumptions
stated with the constants; TLC evaluates these on every run.

* `ThreadStartProofs!MutualExclusionHolds` and `LockExactHolds`, without a hypothesis on
  how scopes end. The invariant counts scopes: `sharers` is the number of locked reading
  scopes; of locked writing scopes there is at most one if `exclusive`, none if not, and
  one more for each scope that has ended after `unlock()`. Only scopes of a mutex are
  left by hand, and a mutex has no readers, so that readers and writers never meet.
* `ThreadStartProofs!StartTypesHold`, `ObjectAliveHolds`, `IdentifiedHolds`,
  `ReapedOnceHolds`: for any number of threads, without assumptions on the lock or
  on fairness. The invariant adds `Handshake`, for each thread what its place in
  `run()` says of the object: the semaphore is above zero only behind `Notify`, an
  object without a handle has a thread that has ended. `ImplementsScopedLock` maps
  each step to a step of `ScopedLock` or a stutter, so that `CallbacksExclude`
  follows from the theorem about the lock: with an owner who, as `Scheduler::start()`,
  leaves a scope by hand and then ends it.
* `FiberContextProofs!TypesHold`, `NothingFailsHolds`, `ThisIsRunningHolds`,
  `ReclaimedHolds`, `ReturnsToResumerHolds`: for any number of threads and fibers, with
  the other threads acting in the middle of each switch. The invariant `FInv` says where every stack is. A thread
  that is not on its own stack has left it in its main fiber, and the owner enters
  fibers only from within the root fiber; so there is always a context to return
  to, and only one. The state of a fiber says where its stack was left, or will have
  been left when the switch that its thread is in is over; every stack that nobody
  executes can be resumed there. That a fiber is entered by one thread at a time is the
  rule of the clients, not a result. Reference counts are exact (`Kept`),
  and so is the number of fibers (`Counted`, a cardinality that each step changes
  by at most one).
* `SchedulerSafetyProofs!TypesHold` and `CountersExactHolds`, with no restriction on
  what clients do. Neither is inductive alone: that a counter stays a natural
  number needs its exactness, exactness needs the types and that only threads
  that exist run. `CountInv == TypeOK /\ CountersExact /\ WorkersOK` is. There
  is one lemma per action, and a few on how a cardinality changes when one
  thread changes its place.
* `SchedulerSafetyProofs!TasksSafeHolds`, for any number of threads, tasks and
  suspensions, from `Considerate`: suspended fibers are scheduled on the thread they
  ran on or tasks only call `YieldToReady`; the owner schedules no fiber twice; a
  scheduler with `use_caller` is not started again. Without one of these the program
  fails: `sched_steal`, and the assertions under "Observed behaviour". The invariant
  `SafeInv` says where a fiber is: in the queue once (`Distinct`), with at most one
  thread (`HandsApart`), or with neither; where both are true, the thread is about to
  leave the fiber and the entry asks for that thread (`Waiting`). `HandOK` gives the
  state of the fiber for each place in `run()`, `ParkedOK` the same for a fiber that
  somebody else will schedule. Lemmas about what a step leaves alone (`MoveKeeps`,
  `ReleaseKeeps`, `RunningKeeps`) leave to each action what it changes.
* `SchedulerPoolProofs!NotStrandedHolds`, `AssignedThreadOnlyHolds` and `PoolSpecHolds`,
  on top of `SafeInv`. `TaskInv` says where a task is: an unfinished one is in the queue
  or with exactly one thread, what has been done of it agrees with where its fiber is,
  and an entry asks for the thread that was asked for last. `LookInv` says that every
  entry of the queue is for somebody who will look again: a thread leaves `run()` only
  in a state that `Stopping` holds in, and then nothing is added any more. So nothing
  is stranded, and when `stop()` has returned nothing is left: each step of `Scheduler`
  is one of `TaskPool` or a stutter. The hypotheses are `Considerate`, as for
  `TasksSafe`, and for two of the theorems `Deliberate`, which is rule 3: there are no
  pool threads, or tasks do not call `YieldToReady`, or none of them pins a task to
  another thread or resumes one there, since the active counter goes down before
  `Requeue`.
  `AssignedThreadOnly` needs that tasks do not call `YieldToReady` at all, since
  `Requeue` asks for no thread. The runs that check these properties satisfy the
  hypotheses, except `sched_alone`: a fiber that is scheduled twice is outside
  `Considerate`, and with one the properties are only model-checked.
* `ConfigVarProofs!InformedHolds` and `CallsHold`, with `clearListener()` at any time;
  `CallsHold` adds `OldIsCurrent` to `RemovedNotCalled`. `Informed` speaks of quiet
  states only; `IInv` adds, for all states, that a listener out of date has been
  told another value by a `setValue()` under way (`Known`), and that one nothing
  overlaps is alone and has told all it had to (`Alone`).
* `LoggingProofs!LocksExactHolds` and `ListStableHolds`. The invariant adds that
  a message is with its own logger or with the root logger; the listener's calls
  need no typing, since each of them needs the lock free or leaves the lists.
* `LoggingProofs!TypesHold`. `LInv` adds what a listener has still to do: part of the
  change it was called for, and a next call that there is. From it, and from lemmas
  on the sequences that `ForDefine` concatenates, `CallForDefine` and
  `CallForRemoved` say which call that is; everything below rests on them.
* `LoggingProofs!FormatInheritedHolds`, for any programs and reloads.
* `LoggingProofs!NullsFollowedHolds`, without a condition on configurations. The
  invariant adds that a thread that writes is within the list (`WritesOK`, by the lock);
  that the root logger has no definition and keeps its appender until a reload defines
  it; and, for each reload, that what it repeats of the value it replaces is still to be
  done, so that it never comes to the end. The last is why such a reload never returns.
* `LoggingProofs!ReconfiguredHolds`, without a condition. `RInv` says how far the
  loggers are in the middle of a reload: those of finished definitions are as they
  should be, that of the first unfinished one is as far as the calls made for it
  (`DefinedTo`, `SilencedTo`); and that two threads reload at once only while `tended`
  is empty.
* `RegistryProofs!TypesHold`, `OneVariableHolds` and `StableUnderVisitHolds`, for any
  files. `RInv` adds that a thread between the two parts of `Lookup()` is the only one in
  a critical section, and that the name it is about to insert is still free; a variable
  is constructed exactly when it is registered.
* `RegistryProofs!AppliedHolds`: a variable has the value of the last entry for its name
  that its type can read, or its old one. `LInv` says the same of the entries that have
  been gone through.
* `RegistryProofs!LoadedHolds`, from `AppliedHolds` and two facts about operators.
  `ListingIs`: a file lists, under a valid name, exactly the nodes of its levels with that
  name (`NodesUnder`). The equations of `ListAllMember` and `Level` have solutions, which
  are unique; what is listed is on a level, and what is on a level under a valid name is
  listed, since the names above a valid name are valid (`Joined`). These are inductions
  over the depth of nodes and the number of the level, each by the least number at which
  it fails (`LeastNatural`).
  `Reads`: what `fromString` gives is a value of its type and the one its text stands
  for. It is proved for the three types without elements, then for a container of any
  type for whose elements it holds (`ContainerReads`), twice. The rest is an invariant:
  a variable has a type that the program looks its name up with (`TypesFit`).
* `RegistryProofs!ValuesFitHolds`: a variable never has a value outside its type; on it
  rests `ReadBackHolds`, for all types of up to two containers and values of any size.
  The lemma is `Back`: a value is read back exactly if it is `Readable`, again for the
  types without elements and from them upwards. `BuiltParts` and `Texts` say what
  becomes of the text of one element: in a sequence it comes back as it was if it is
  plain, and with one more pair of quotes otherwise, in a map a
  plain text in one pair of quotes loses them. A sequence can therefore be compared
  element by element. A set cannot, since another element might come back as the missing
  one; but of the elements that gain a pair, the one with the fewest quotes is missing
  (`QuotedSet`).
* `LogFormatterProofs!TypesHold` and `PaddingLocalHolds`. `PadInv` adds what `width` is
  after the items printed so far.
* `LogFormatterProofs!ErrorExactHolds`, for patterns of any length. The invariant
  `ErrInv` has both directions for the part that has been parsed: if the pattern is well
  formed, with any set of places where conversions start, then nothing is wrong so far
  and no format is open at `i` (`Meant`); if nothing is wrong so far, then there is such
  a set for the pattern before `i` (`PrefixAt`).
* `LogFormatterProofs!FaithfulHolds`, for patterns of any length. `FaithInv` says that,
  while nothing is wrong, the pattern before `i` is the pending text `n_str` behind parts
  that the elements of `vec` may be written as, one after another (`CutInto`). What
  `Texts` says of all items then follows by induction over them. The library's induction
  theorems cannot be used, but its well-foundedness of the naturals can: `LeastNatural`
  gives the least number of items with which the recursion fails, and there is none.

TLC checked the invariants `LInv`, `WritesOK` and `RInv` of `LoggingProofs`, those of the
scheduler and those of the registry on the instances of the runs, and `PadInv`, `ErrInv`
and `FaithInv` on all patterns of up to four characters.

Every invariant and action property that a passing run checks is the conclusion of a
theorem. Only model-checked: `PoolSpec` with a fiber that is scheduled twice; and all
liveness (`StopReturns`, `QueuedRuns`, `ConstructorReturns`), which with fairness and
ENABLED is out of the reach of the provers. Induction over data is too, except by least
numbers as above; the recursion of `LexicalCast` over types is therefore cut at two
containers.

## What is not modelled

* `s_func_id`, which is incremented under different locks by variables of one type
  (config.h:348); listeners that change their own variable or its listeners, and
  callbacks of `Visit()` that look up with a default, which wait for themselves.
* Loggers: `delAppender`, appenders that are shared or changed in use, `reopen()`,
  `toYamlString()`.
* Inside YAML: a key twice in one map, definitions with fields that are not scalars,
  and what makes a text need quotes. Types of more than two containers around each other.
* Singletons, system calls, backtraces, the programs under `tests/`, generated build
  directories.
* Memory: allocation and the data of the program, except the lifetime of Thread
  objects and fibers, null pointers and resumed fibers that have ended.

## Plan

1. `Logging`: `delAppender`, appenders that are changed in use.
2. `ConfigVar`: two variables of one type, with the increments of `s_func_id`.
3. `Registry`: callbacks of `Visit()` that look up with a default, which stop their
   thread, and what the others can still do then.
