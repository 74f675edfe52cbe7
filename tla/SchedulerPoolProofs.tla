------------------------- MODULE SchedulerPoolProofs -------------------------
(* No task of the scheduler is lost or run twice, and none is left when       *)
(* stop() returns, for any number of threads and tasks: a task that is        *)
(* unfinished is in the queue or with one thread (TaskInv), and somebody will *)
(* look at every entry of the queue (LookInv).  So the scheduler implements   *)
(* the pool of tasks of module TaskPool.                                      *)
EXTENDS SchedulerSafetyProofs

\* The task that an entry stands for.
TaskOf(e) == IF e.fiber = Null THEN e.callback ELSE m_callback[e.fiber]

\* A task is in the queue, or thread t will run it or put it back there.
Queued(c) == \E e \in Entry : InQueue(e) /\ TaskOf(e) = c

Holds(t, c) ==
  \/ pc[t] = "enter" /\ TaskOf(fiberAndThread[t]) = c
  \/ /\ pc[t] \in Engaged \ {"parking"}
     /\ pc[t] \in Outgoing => m_state[Current(t)] = "READY"
     /\ m_callback[Current(t)] = c

Open(c) == progress[c] \in {"queued", "started"}

\* No task is lost: one that is unfinished is in the queue or with a thread.
NothingLost == \A c \in Tasks : Open(c) => Queued(c) \/ \E t \in Threads : Holds(t, c)

\* What the state of a fiber says of the task it is to run.
StageOK(f) == m_callback[f] # Null =>
  /\ m_state[f] = "INIT" => progress[m_callback[f]] = "queued"
  /\ m_state[f] \in {"READY", "EXEC"} => progress[m_callback[f]] = "started"
  /\ m_state[f] = "HOLD" => progress[m_callback[f]] \in {"started", "parked"}
  /\ m_state[f] \in Ended => progress[m_callback[f]] = "ended"

\* A fiber that is in the state EXEC is on the stack of a thread.
ExecOK(f) == m_state[f] = "EXEC" =>
  \E t \in Threads : pc[t] \in {"body", "parking"} /\ Current(t) = f

\* A task is in the queue for the thread last asked for, and taken by no other.
Asked(t, c) == assigned[c] \in {AnyThread, t}

AskedOK ==
  /\ \A e \in Entry : InQueue(e) => e.thread = assigned[TaskOf(e)]
  /\ \A t \in Threads :
       /\ pc[t] = "enter" => Asked(t, TaskOf(fiberAndThread[t]))
       /\ pc[t] \in {"swap", "body"} => Asked(t, m_callback[Current(t)])

NoReady == \A f \in Tasks : m_state[f] # "READY"

TaskInv ==
  /\ \A f \in Tasks : StageOK(f) /\ ExecOK(f)
  /\ NothingLost
  /\ "ready" \notin Suspends => NoReady /\ AskedOK

-----------------------------------------------------------------------------
(* The queue, and what a step of thread t leaves alone. *)

LEMMA PushEntries ==
  ASSUME TypeOK, NEW d \in Entry, Push(d)
  PROVE  \A e : InQueue(e)' <=> InQueue(e) \/ e = d
<1>. DEFINE n == Len(m_fibers)
<1>1. m_fibers \in Seq(Entry) /\ n \in Nat /\ DOMAIN m_fibers = 1 .. n
  BY LenProperties DEF TypeOK
<1>2. /\ m_fibers' \in Seq(Entry) /\ Len(m_fibers') = n + 1
      /\ \A j \in 1 .. n : m_fibers'[j] = m_fibers[j]
      /\ m_fibers'[n + 1] = d
  BY <1>1, AppendProperties DEF Push
<1>3. DOMAIN m_fibers' = 1 .. n + 1
  BY <1>1, <1>2, LenProperties
<1>. HIDE DEF n
<1>. QED BY <1>1, <1>2, <1>3 DEF InQueue

LEMMA TakeEntries ==
  ASSUME TypeOK, NEW k \in DOMAIN m_fibers, m_fibers' = RemoveAt(m_fibers, k)
  PROVE  \A e : /\ InQueue(e)' => InQueue(e)
                /\ InQueue(e) => InQueue(e)' \/ e = m_fibers[k]
<1>. DEFINE n == Len(m_fibers)
<1>1. /\ m_fibers \in Seq(Entry) /\ k \in 1 .. n /\ n \in Nat /\ DOMAIN m_fibers = 1 .. n
  BY LenProperties DEF TypeOK
<1>2. /\ m_fibers' \in Seq(Entry) /\ Len(m_fibers') = n - 1
      /\ \A j \in 1 .. n - 1 : m_fibers'[j] = IF j < k THEN m_fibers[j] ELSE m_fibers[j + 1]
  BY <1>1, RemoveAtProperties
<1>3. DOMAIN m_fibers' = 1 .. n - 1
  BY <1>2, LenProperties
<1>. HIDE DEF n
<1>4. ASSUME NEW e, InQueue(e)' PROVE InQueue(e)
  <2>1. PICK j \in 1 .. n - 1 : m_fibers'[j] = e
    BY <1>3, <1>4 DEF InQueue
  <2>2. j \in DOMAIN m_fibers /\ j + 1 \in DOMAIN m_fibers
    BY <1>1
  <2>. QED BY <1>2, <2>1, <2>2 DEF InQueue
<1>5. ASSUME NEW e, InQueue(e), e # m_fibers[k] PROVE InQueue(e)'
  <2>1. PICK i \in 1 .. n : m_fibers[i] = e /\ i # k
    BY <1>1, <1>5 DEF InQueue
  <2>2. CASE i < k
    <3>1. i \in 1 .. n - 1 /\ m_fibers'[i] = e
      BY <1>1, <1>2, <2>1, <2>2
    <3>. QED BY <1>3, <3>1 DEF InQueue
  <2>3. CASE i > k
    <3>1. i - 1 \in 1 .. n - 1 /\ ~(i - 1 < k) /\ (i - 1) + 1 = i
      BY <1>1, <2>1, <2>3
    <3>2. m_fibers'[i - 1] = e
      BY <1>2, <2>1, <3>1
    <3>. QED BY <1>3, <3>1, <3>2 DEF InQueue
  <2>. QED BY <1>1, <2>1, <2>2, <2>3
<1>. QED BY <1>4, <1>5

\* A queued entry stands for a task that is unfinished.
LEMMA EntryTask ==
  ASSUME TypeOK, SafeInv, TaskInv, NEW e \in Entry, InQueue(e)
  PROVE  TaskOf(e) \in Tasks /\ Open(TaskOf(e))
<1>1. EntryOK(e)
  BY SafeParts DEF QueueOK, InQueue
<1>2. CASE e.fiber = Null /\ Unused(e.callback)
  BY <1>2 DEF TaskOf, Unused, Open
<1>3. CASE Waiting(e.fiber, e.thread)
  <2>1. /\ e.fiber \in Tasks /\ e.fiber # Null /\ m_callback[e.fiber] \in Tasks
        /\ StageOK(e.fiber)
    BY <1>3, Fields DEF Waiting, TypeOK, TaskInv
  <2>. QED BY <1>3, <2>1 DEF TaskOf, Waiting, Open, StageOK
<1>. QED BY <1>1, <1>2, <1>3 DEF EntryOK

\* The fibers that a step of t changes are its own, or new; it changes the task
\* of none that is in the queue.
Acts(t) ==
  /\ Others(t)
  /\ \A f \in Tasks :
       \/ FiberSame(f)
       \/ /\ Has(t, f) \/ m_state[f] = "NONE"
          /\ m_callback'[f] # m_callback[f] => \A p : ~Waiting(f, p)

LEMMA ActsKeep ==
  ASSUME TypeOK, SafeInv, NEW t \in Threads, Acts(t)
  PROVE  /\ \A e \in Entry : InQueue(e) => TaskOf(e)' = TaskOf(e)
         /\ \A u \in Threads : u # t =>
              /\ \A f \in Tasks : Has(u, f) => FiberSame(f)
              /\ pc'[u] = pc[u] /\ Current(u)' = Current(u)
              /\ pc[u] = "enter" => TaskOf(fiberAndThread[u])' = TaskOf(fiberAndThread[u])
              /\ \A c : Holds(u, c) => Holds(u, c)'
<1>1. ASSUME NEW e \in Entry, InQueue(e) PROVE TaskOf(e)' = TaskOf(e)
  <2>1. EntryOK(e)
    BY <1>1, SafeParts DEF QueueOK, InQueue
  <2>2. CASE e.fiber = Null
    BY <2>2 DEF TaskOf
  <2>3. CASE Waiting(e.fiber, e.thread)
    BY <2>3 DEF TaskOf, Acts, FiberSame, Waiting
  <2>. QED BY <2>1, <2>2, <2>3 DEF EntryOK
<1>2. ASSUME NEW u \in Threads, u # t
      PROVE  /\ \A f \in Tasks : Has(u, f) => FiberSame(f)
             /\ pc'[u] = pc[u] /\ Current(u)' = Current(u)
             /\ pc[u] = "enter" => TaskOf(fiberAndThread[u])' = TaskOf(fiberAndThread[u])
             /\ \A c : Holds(u, c) => Holds(u, c)'
  <2>1. /\ Same(u) /\ Current(u)' = Current(u) /\ pc'[u] = pc[u]
        /\ fiberAndThread'[u] = fiberAndThread[u]
    BY <1>2, OthersHave DEF Acts, Others, Same, HandSame
  <2>2. ASSUME NEW f \in Tasks, Has(u, f) PROVE FiberSame(f)
    <3>1. ~Has(t, f) /\ m_state[f] # "NONE"
      BY <1>2, <2>2, SafeParts DEF HandsApart, TaskOK
    <3>. QED BY <3>1 DEF Acts
  <2>3. fiberAndThread[u].fiber \in Tasks \cup {Null} /\ HandOK(u)
    BY HandTypes, SafeParts
  <2>4. fiberAndThread[u].fiber # Null => FiberSame(fiberAndThread[u].fiber)
    BY <2>2, <2>3 DEF Has
  <2>5. TaskOf(fiberAndThread[u])' = TaskOf(fiberAndThread[u])
    BY <2>1, <2>4 DEF TaskOf, FiberSame
  <2>6. pc[u] \in Engaged => FiberSame(Current(u))
    BY <2>2, <2>3 DEF HandOK, Has, Current
  <2>7. \A c : Holds(u, c) => Holds(u, c)'
    BY <2>1, <2>5, <2>6 DEF Holds, FiberSame
  <2>. QED BY <2>1, <2>2, <2>5, <2>7
<1>. QED BY <1>1, <1>2

-----------------------------------------------------------------------------
(* Steps of a thread that leave the tasks of the others alone. *)

\* A step in which threads move, and neither fibers nor the queue change.
LEMMA MovesTasks ==
  ASSUME TypeOK, SafeInv, TaskInv,
         UNCHANGED <<m_fibers, m_state, m_callback, progress, assigned>>,
         \A u \in Threads : Moves(u)
  PROVE  TaskInv'
<1>1. ASSUME NEW u \in Threads
      PROVE  /\ Current(u)' = Current(u) /\ fiberAndThread'[u] = fiberAndThread[u]
             /\ pc[u] \in {"body", "parking"} => pc'[u] = pc[u]
             /\ pc'[u] \in {"enter", "swap", "body"} => pc'[u] = pc[u]
             /\ \A c : Holds(u, c) => Holds(u, c)'
  <2>1. /\ Current(u)' = Current(u) /\ fiberAndThread'[u] = fiberAndThread[u]
        /\ TaskOf(fiberAndThread[u])' = TaskOf(fiberAndThread[u])
    BY HasSame DEF Moves, HandSame, TaskOf
  <2>2. /\ pc[u] \in {"body", "parking"} => pc'[u] = pc[u]
        /\ pc'[u] \in {"enter", "swap", "body"} => pc'[u] = pc[u]
    BY DEF Moves, Same, Engaged, Switching, Outgoing
  <2>3. ASSUME NEW c, Holds(u, c) PROVE Holds(u, c)'
    <3>1. \/ pc'[u] = pc[u]
          \/ pc[u] \in Outgoing /\ pc'[u] \in {"left", "settle"}
          \/ pc[u] = "settle" /\ pc'[u] = "requeue"
      BY <2>3 DEF Moves, Same, Holds, Engaged, Switching
    <3>. QED BY <2>1, <2>3, <3>1 DEF Holds, Engaged, Switching, Outgoing
  <2>. QED BY <2>1, <2>2, <2>3
<1>2. \A e : (InQueue(e)' <=> InQueue(e)) /\ TaskOf(e)' = TaskOf(e)
  BY DEF InQueue, TaskOf
<1>3. ASSUME NEW f \in Tasks PROVE StageOK(f)' /\ ExecOK(f)'
  <2>1. StageOK(f) /\ ExecOK(f)
    BY DEF TaskInv
  <2>. QED BY <1>1, <2>1 DEF StageOK, ExecOK
<1>4. NothingLost'
  BY <1>1, <1>2 DEF TaskInv, NothingLost, Open, Queued
<1>5. "ready" \notin Suspends => NoReady' /\ AskedOK'
  <2>. SUFFICES ASSUME "ready" \notin Suspends PROVE NoReady' /\ AskedOK'
    OBVIOUS
  <2>1. NoReady /\ AskedOK
    BY DEF TaskInv
  <2>2. ASSUME NEW u \in Threads
        PROVE  /\ pc'[u] = "enter" => Asked(u, TaskOf(fiberAndThread[u]))'
               /\ pc'[u] \in {"swap", "body"} => Asked(u, m_callback[Current(u)])'
    BY <1>1, <1>2, <2>1 DEF AskedOK, Asked
  <2>. QED BY <1>2, <2>1, <2>2 DEF NoReady, AskedOK
<1>. QED BY <1>3, <1>4, <1>5 DEF TaskInv

\* What a step of t does to the thread that a task is asked for.
AskedStep(t) ==
  /\ NoReady'
  /\ \A e \in Entry : InQueue(e)' =>
       \/ InQueue(e) /\ assigned'[TaskOf(e)] = assigned[TaskOf(e)]
       \/ e.thread = assigned'[TaskOf(e)']
  /\ pc'[t] = "enter" => Asked(t, TaskOf(fiberAndThread[t]))'
  /\ pc'[t] \in {"swap", "body"} => Asked(t, m_callback[Current(t)])'
  /\ \A x \in Tasks : \/ assigned'[x] = assigned[x]
                      \/ \A u \in Threads : u # t => ~Holds(u, x)

LEMMA StepTasks ==
  ASSUME TypeOK, SafeInv, TaskInv, NEW t \in Threads, Acts(t),
         \A f \in Tasks :
           \/ StageOK(f)'
           \/ /\ FiberSame(f)
              /\ m_callback[f] # Null => progress'[m_callback[f]] = progress[m_callback[f]],
         \A f \in Tasks :
           /\ m_state'[f] = "EXEC"
           /\ m_state[f] # "EXEC" \/ (pc[t] \in {"body", "parking"} /\ Current(t) = f)
           => pc'[t] \in {"body", "parking"} /\ Current(t)' = f,
         \A c \in Tasks : Open(c)' =>
           \/ Queued(c)'
           \/ Holds(t, c)'
           \/ Open(c) /\ ~Holds(t, c) /\ (Queued(c) => Queued(c)'),
         "ready" \notin Suspends => AskedStep(t)
  PROVE  TaskInv'
<1>1. /\ \A e \in Entry : InQueue(e) => TaskOf(e)' = TaskOf(e)
      /\ \A u \in Threads : u # t =>
              /\ \A f \in Tasks : Has(u, f) => FiberSame(f)
              /\ pc'[u] = pc[u] /\ Current(u)' = Current(u)
              /\ pc[u] = "enter" => TaskOf(fiberAndThread[u])' = TaskOf(fiberAndThread[u])
              /\ \A c : Holds(u, c) => Holds(u, c)'
  BY ActsKeep
<1>2. ASSUME NEW f \in Tasks PROVE StageOK(f)' /\ ExecOK(f)'
  <2>1. StageOK(f) /\ ExecOK(f)
    BY DEF TaskInv
  <2>2. StageOK(f)'
    BY <2>1 DEF StageOK, FiberSame
  <2>3. ExecOK(f)'
    <3>1. CASE m_state[f] = "EXEC" /\ m_state'[f] = "EXEC"
      <4>1. PICK u \in Threads : pc[u] \in {"body", "parking"} /\ Current(u) = f
        BY <2>1, <3>1 DEF ExecOK
      <4>. QED BY <1>1, <3>1, <4>1 DEF ExecOK
    <3>2. CASE m_state[f] # "EXEC" /\ m_state'[f] = "EXEC"
      BY <3>2 DEF ExecOK
    <3>. QED BY <3>1, <3>2 DEF ExecOK
  <2>. QED BY <2>2, <2>3
<1>3. NothingLost'
  <2>. SUFFICES ASSUME NEW c \in Tasks, Open(c), ~Holds(t, c), Queued(c) => Queued(c)'
                PROVE  Queued(c)' \/ \E u \in Threads : Holds(u, c)'
    BY DEF NothingLost
  <2>1. Queued(c) \/ \E u \in Threads : Holds(u, c)
    BY DEF TaskInv, NothingLost
  <2>. QED BY <1>1, <2>1
<1>4. "ready" \notin Suspends => NoReady' /\ AskedOK'
  <2>. SUFFICES ASSUME "ready" \notin Suspends PROVE NoReady' /\ AskedOK'
    OBVIOUS
  <2>1. NoReady /\ AskedOK /\ AskedStep(t)
    BY DEF TaskInv
  <2>2. \A e \in Entry : InQueue(e)' => e.thread = assigned'[TaskOf(e)']
    BY <1>1, <2>1 DEF AskedOK, AskedStep
  <2>3. ASSUME NEW u \in Threads, u # t, pc[u] \in {"enter", "swap", "body"}
        PROVE  /\ pc'[u] = "enter" => Asked(u, TaskOf(fiberAndThread[u]))'
               /\ pc'[u] \in {"swap", "body"} => Asked(u, m_callback[Current(u)])'
    <3>1. HandOK(u) /\ (Current(u) \in Tasks => Has(u, Current(u)))
      BY SafeParts DEF Current, Has
    <3>2. CASE pc[u] = "enter"
      <4>. DEFINE x == TaskOf(fiberAndThread[u])
      <4>1. x \in Tasks
        BY <3>1, <3>2, Fields DEF HandOK, TaskOf, Unused, TypeOK
      <4>2. Holds(u, x)
        BY <3>2 DEF Holds
      <4>3. assigned'[x] = assigned[x]
        BY <2>1, <2>3, <4>1, <4>2 DEF AskedStep
      <4>. QED BY <1>1, <2>1, <2>3, <3>2, <4>3 DEF AskedOK, Asked
    <3>3. CASE pc[u] \in {"swap", "body"}
      <4>. DEFINE x == m_callback[Current(u)]
      <4>1. x \in Tasks /\ FiberSame(Current(u)) /\ Current(u)' = Current(u)
        <5>1. \E f \in Tasks : Runs(u, f)
          BY <3>3, RunsFiber
        <5>. QED BY <1>1, <2>3, <5>1 DEF Runs
      <4>2. Holds(u, x)
        BY <3>3 DEF Holds, Engaged, Switching, Outgoing
      <4>3. assigned'[x] = assigned[x]
        BY <2>1, <2>3, <4>1, <4>2 DEF AskedStep
      <4>. QED BY <1>1, <2>1, <2>3, <3>3, <4>1, <4>3 DEF AskedOK, Asked, FiberSame
    <3>. QED BY <2>3, <3>2, <3>3
  <2>4. ASSUME NEW u \in Threads
        PROVE  /\ pc'[u] = "enter" => Asked(u, TaskOf(fiberAndThread[u]))'
               /\ pc'[u] \in {"swap", "body"} => Asked(u, m_callback[Current(u)])'
    <3>1. CASE u = t
      BY <2>1, <3>1 DEF AskedStep
    <3>2. CASE u # t
      BY <1>1, <2>3, <3>2
    <3>. QED BY <3>1, <3>2
  <2>. QED BY <2>1, <2>2, <2>4 DEF AskedOK, AskedStep
<1>. QED BY <1>2, <1>3, <1>4 DEF TaskInv

\* A task that a thread holds is unfinished.
LEMMA HeldTask ==
  ASSUME TypeOK, SafeInv, TaskInv, NEW u \in Threads, NEW c \in Tasks, Holds(u, c)
  PROVE  Open(c)
<1>1. HandOK(u) /\ \A f \in Tasks : StageOK(f) /\ ParkedOK(f)
  BY SafeParts DEF TaskInv, TaskOK
<1>2. CASE pc[u] = "enter" /\ TaskOf(fiberAndThread[u]) = c
  <2>. DEFINE e == fiberAndThread[u]
  <2>1. CASE e.fiber = Null /\ Unused(e.callback)
    BY <1>2, <2>1 DEF TaskOf, Unused, Open
  <2>2. CASE e.fiber \in Tasks /\ m_state[e.fiber] \in StateAt("enter")
    <3>1. m_callback[e.fiber] = c /\ c # Null /\ Has(u, e.fiber)
      BY <1>2, <2>2, Fields DEF TaskOf, Has
    <3>2. progress[c] # "parked"
      BY <1>1, <1>2, <2>2, <3>1 DEF ParkedOK, Outgoing
    <3>. QED BY <1>1, <2>2, <3>1, <3>2 DEF StageOK, StateAt, Outgoing, Open
  <2>. QED BY <1>1, <1>2, <2>1, <2>2 DEF HandOK
<1>3. CASE ~(pc[u] = "enter" /\ TaskOf(fiberAndThread[u]) = c)
  <2>. DEFINE f == Current(u)
  <2>1. /\ pc[u] \in Engaged \ {"parking"} /\ m_callback[f] = c /\ f \in Tasks
        /\ pc[u] \in Outgoing => m_state[f] = "READY"
        /\ Has(u, f) /\ m_state[f] \in StateAt(pc[u]) /\ c # Null
    BY <1>1, <1>3, Fields DEF Holds, HandOK, Current, Has
  <2>2. CASE pc[u] = "swap"
    <3>1. progress[c] # "parked"
      BY <1>1, <2>1, <2>2 DEF ParkedOK, Outgoing
    <3>. QED BY <1>1, <2>1, <2>2, <3>1 DEF StageOK, StateAt, Open
  <2>3. CASE pc[u] # "swap"
    BY <1>1, <2>1, <2>3 DEF StageOK, StateAt, Open, Engaged, Switching, Outgoing
  <2>. QED BY <2>2, <2>3
<1>. QED BY <1>2, <1>3

\* What the thread on whose stack a task runs has, no other has and the queue
\* has not.
LEMMA RunsAlone ==
  ASSUME TypeOK, SafeInv, NEW t \in Threads, pc[t] \in {"swap", "body"},
         NEW f \in Tasks, Runs(t, f)
  PROVE  /\ \A g \in Tasks : m_callback[g] = m_callback[f] => g = f
         /\ ~Queued(m_callback[f])
         /\ \A u \in Threads : u # t => ~Holds(u, m_callback[f])
         /\ \A x : Holds(t, x) <=> x = m_callback[f]
<1>. DEFINE c == m_callback[f]
<1>1. c \in Tasks /\ c # Null /\ Has(t, f) /\ Current(t) = f
  BY Fields DEF Runs
<1>2. \A g \in Tasks : m_callback[g] = c => g = f
  BY <1>1, SafeParts DEF TaskOK
<1>3. ~Unused(c)
  BY DEF Unused
<1>4. ASSUME NEW e \in Entry, InQueue(e), TaskOf(e) = c PROVE FALSE
  <2>1. EntryOK(e)
    BY <1>4, SafeParts DEF QueueOK, InQueue
  <2>2. Waiting(e.fiber, e.thread)
    BY <1>3, <1>4, <2>1 DEF EntryOK, TaskOf
  <2>3. e.fiber = f
    BY <1>2, <1>4, <2>2, Fields DEF Waiting, TaskOf
  <2>. QED BY <1>1, <2>2, <2>3, NotWaiting DEF Outgoing
<1>5. ASSUME NEW u \in Threads, u # t, Holds(u, c) PROVE FALSE
  <2>1. HandOK(u) /\ ~Has(u, f)
    BY <1>1, <1>5, SafeParts DEF HandsApart
  <2>2. CASE pc[u] = "enter" /\ TaskOf(fiberAndThread[u]) = c
    <3>1. fiberAndThread[u].fiber \in Tasks /\ fiberAndThread[u].fiber # Null
      BY <1>3, <2>1, <2>2, Fields DEF HandOK, TaskOf
    <3>. QED BY <1>2, <2>1, <2>2, <3>1 DEF TaskOf, Has
  <2>3. CASE pc[u] \in Engaged /\ m_callback[Current(u)] = c
    <3>1. Current(u) \in Tasks /\ Has(u, Current(u))
      BY <2>1, <2>3 DEF HandOK, Current, Has
    <3>. QED BY <1>2, <2>1, <2>3, <3>1
  <2>. QED BY <1>5, <2>2, <2>3 DEF Holds
<1>6. \A x : Holds(t, x) <=> x = c
  BY <1>1 DEF Holds, Engaged, Switching, Outgoing
<1>. QED BY <1>2, <1>4, <1>5, <1>6 DEF Queued

LEMMA QueueKept ==
  ASSUME TypeOK, SafeInv, NEW t \in Threads, Acts(t),
         \A e \in Entry : InQueue(e) => InQueue(e)'
  PROVE  \A c : Queued(c) => Queued(c)'
BY ActsKeep DEF Queued

-----------------------------------------------------------------------------
(* The steps of run() that take an entry. *)

LEMMA TakeTasks ==
  ASSUME TypeOK, SafeInv, TaskInv, NEW t \in Threads, Take(t)
  PROVE  TaskInv'
<1>1. /\ pc[t] = "take" /\ pc'[t] = "enter" /\ \A u \in Threads : u # t => pc'[u] = pc[u]
      /\ m_state' = m_state /\ m_callback' = m_callback /\ progress' = progress
      /\ assigned' = assigned /\ callback_fiber' = callback_fiber /\ t_fiber' = t_fiber
  BY DEF Take, Goto, TypeOK, fiberVars, taskVars
<1>2. PICK i \in DOMAIN m_fibers :
        /\ Eligible(t, m_fibers[i]) /\ m_fibers' = RemoveAt(m_fibers, i)
        /\ fiberAndThread' = [fiberAndThread EXCEPT ![t] = m_fibers[i]]
  BY DEF Take, Eligibles
<1>3. PICK e \in Entry : /\ e = m_fibers[i] /\ InQueue(e) /\ Eligible(t, e)
                         /\ fiberAndThread'[t] = e
  BY <1>2, QueueEntries, SafeParts DEF TypeOK
<1>4. Acts(t)
  BY <1>1, <1>2 DEF Acts, Others, Same, HandSame, FiberSame, TypeOK
<1>5. \A d : (InQueue(d)' => InQueue(d)) /\ (InQueue(d) => InQueue(d)' \/ d = e)
  BY <1>2, <1>3, TakeEntries
<1>6. \A d : TaskOf(d)' = TaskOf(d)
  BY <1>1 DEF TaskOf
<1>7. TaskOf(fiberAndThread[t])' = TaskOf(e)
  BY <1>1, <1>3 DEF TaskOf
<1>8. ASSUME NEW c \in Tasks, Open(c)'
      PROVE  Queued(c)' \/ Holds(t, c)' \/ (Open(c) /\ ~Holds(t, c) /\ ~Queued(c))
  <2>1. Open(c) /\ ~Holds(t, c)
    BY <1>1, <1>8 DEF Open, Holds, Engaged, Switching, Outgoing
  <2>2. Queued(c) => Queued(c)' \/ TaskOf(e) = c
    BY <1>5, <1>6 DEF Queued
  <2>. QED BY <1>1, <1>7, <2>1, <2>2 DEF Holds
<1>9. "ready" \notin Suspends => AskedStep(t)
  <2>. SUFFICES ASSUME "ready" \notin Suspends PROVE AskedStep(t)
    OBVIOUS
  <2>1. NoReady /\ AskedOK
    BY DEF TaskInv
  <2>2. Asked(t, TaskOf(fiberAndThread[t]))'
    BY <1>1, <1>3, <1>7, <2>1 DEF AskedOK, Asked, Eligible
  <2>. QED BY <1>1, <1>5, <2>1, <2>2 DEF AskedStep, NoReady
<1>. QED BY <1>1, <1>4, <1>8, <1>9, StepTasks DEF FiberSame

LEMMA EnterFiberTasks ==
  ASSUME TypeOK, SafeInv, TaskInv, NEW t \in Threads, EnterFiber(t)
  PROVE  TaskInv'
<1>1. /\ pc[t] = "enter" /\ pc'[t] = "swap" /\ \A u \in Threads : u # t => pc'[u] = pc[u]
      /\ m_state' = m_state /\ m_callback' = m_callback /\ progress' = progress
      /\ assigned' = assigned /\ callback_fiber' = callback_fiber /\ m_fibers' = m_fibers
      /\ fiberAndThread' = fiberAndThread /\ fiberAndThread[t].fiber # Null
  BY DEF EnterFiber, Goto, TypeOK, fiberVars, taskVars, localVars, queueVars
<1>2. Acts(t)
  BY <1>1 DEF Acts, Others, Same, HandSame, FiberSame, EnterFiber, TypeOK
<1>3. /\ \A e : (InQueue(e)' <=> InQueue(e)) /\ TaskOf(e)' = TaskOf(e)
      /\ \A c : Queued(c)' <=> Queued(c)
  BY <1>1 DEF InQueue, TaskOf, Queued
<1>4. Current(t)' = fiberAndThread[t].fiber
      /\ TaskOf(fiberAndThread[t]) = m_callback[fiberAndThread[t].fiber]
  BY <1>1 DEF Current, TaskOf
<1>5. \A c : Holds(t, c) => Holds(t, c)'
  BY <1>1, <1>4 DEF Holds, Engaged, Switching, Outgoing
<1>6. "ready" \notin Suspends => AskedStep(t)
  <2>. SUFFICES ASSUME "ready" \notin Suspends PROVE AskedStep(t)
    OBVIOUS
  <2>1. NoReady /\ AskedOK
    BY DEF TaskInv
  <2>2. Asked(t, m_callback[Current(t)])'
    BY <1>1, <1>4, <2>1 DEF AskedOK, Asked
  <2>. QED BY <1>1, <1>3, <2>1, <2>2 DEF AskedStep, NoReady
<1>. QED BY <1>1, <1>2, <1>3, <1>5, <1>6, StepTasks DEF FiberSame, Open

LEMMA EnterCallbackTasks ==
  ASSUME TypeOK, SafeInv, TaskInv, NEW t \in Threads, EnterCallback(t)
  PROVE  TaskInv'
<1>1. /\ pc[t] = "enter" /\ pc'[t] = "swap" /\ \A u \in Threads : u # t => pc'[u] = pc[u]
      /\ progress' = progress /\ assigned' = assigned /\ m_fibers' = m_fibers
      /\ fiberAndThread[t].fiber = Null /\ HandOK(t)
  BY SafeParts DEF EnterCallback, Goto, TypeOK, taskVars, queueVars
<1>2. PICK c \in Tasks : c = fiberAndThread[t].callback /\ Unused(c)
  BY <1>1, Fields DEF HandOK, Unused
<1>3. PICK f \in Tasks : f = IF callback_fiber[t] = Null THEN c ELSE callback_fiber[t]
  BY HandTypes
<1>4. /\ \A g \in Tasks : /\ m_state'[g] = IF g = f THEN "INIT" ELSE m_state[g]
                          /\ m_callback'[g] = IF g = f THEN c ELSE m_callback[g]
      /\ callback_fiber' = [callback_fiber EXCEPT ![t] = f]
      /\ fiberAndThread' = [fiberAndThread EXCEPT ![t] = NoEntry]
      /\ t_fiber' = [t_fiber EXCEPT ![t] = f]
  BY <1>2, <1>3 DEF EnterCallback, Reset, NewFiber, TypeOK
<1>5. (Has(t, f) \/ m_state[f] = "NONE") /\ \A p : ~Waiting(f, p)
  <2>1. CASE callback_fiber[t] = Null
    BY <1>2, <1>3, <2>1 DEF Unused, Waiting
  <2>2. CASE callback_fiber[t] # Null
    BY <1>1, <1>3, <2>2, NotWaiting DEF Has, Outgoing
  <2>. QED BY <2>1, <2>2
<1>6. Acts(t)
  <2>1. Others(t)
    BY <1>1, <1>4 DEF Others, Same, HandSame, TypeOK
  <2>. QED BY <1>4, <1>5, <2>1 DEF Acts, FiberSame
<1>7. Current(t)' = f /\ m_callback'[f] = c /\ progress[c] = "queued"
  BY <1>2, <1>4, Fields DEF Current, TypeOK, Unused
<1>8. StageOK(f)'
  BY <1>1, <1>4, <1>7 DEF StageOK, Ended
<1>9. \A x : Holds(t, x) => Holds(t, x)'
  <2>1. \A x : Holds(t, x) => x = c
    BY <1>1, <1>2 DEF Holds, TaskOf, Engaged, Switching, Outgoing
  <2>2. Holds(t, c)'
    BY <1>1, <1>7 DEF Holds, Engaged, Switching, Outgoing
  <2>. QED BY <2>1, <2>2
<1>10. /\ \A e : InQueue(e)' <=> InQueue(e)
       /\ \A x : Queued(x) => Queued(x)'
  BY <1>1, <1>6, QueueKept DEF InQueue
<1>11. "ready" \notin Suspends => AskedStep(t)
  <2>. SUFFICES ASSUME "ready" \notin Suspends PROVE AskedStep(t)
    OBVIOUS
  <2>1. NoReady /\ AskedOK
    BY DEF TaskInv
  <2>2. Asked(t, m_callback[Current(t)])'
    BY <1>1, <1>2, <1>7, <2>1 DEF AskedOK, Asked, TaskOf
  <2>. QED BY <1>1, <1>4, <1>10, <2>1, <2>2 DEF AskedStep, NoReady
<1>. QED BY <1>1, <1>4, <1>6, <1>8, <1>9, <1>10, <1>11, StepTasks DEF FiberSame, Open

-----------------------------------------------------------------------------
(* Steps of the task that runs, on the stack of its fiber. *)

LEMMA SwapInTasks ==
  ASSUME TypeOK, SafeInv, TaskInv, NEW t \in Threads, SwapIn(t)
  PROVE  TaskInv'
<1>1. pc[t] = "swap" /\ Goto(t, "body")
  BY DEF SwapIn
<1>2. PICK f \in Tasks : Runs(t, f)
  BY <1>1, RunsFiber
<1>3. PICK c \in Tasks :
        /\ c = m_callback[f] /\ t_fiber[t] = f /\ m_state[f] \in {"INIT", "HOLD", "READY"}
        /\ progress[c] # "parked" /\ Has(t, f) /\ c # Null /\ Current(t) = f
  BY <1>1, <1>2, Fields DEF Runs, StateAt, Outgoing
<1>4. /\ fiberAndThread' = fiberAndThread /\ callback_fiber' = callback_fiber
      /\ t_fiber' = t_fiber /\ m_callback' = m_callback /\ assigned' = assigned
      /\ m_fibers' = m_fibers
  BY DEF SwapIn, localVars, queueVars
<1>5. \A g \in Tasks : m_state'[g] = IF g = f THEN "EXEC" ELSE m_state[g]
  BY <1>3 DEF SwapIn, TypeOK
<1>6. StageOK(f)
  BY DEF TaskInv
<1>7. /\ \A x \in Tasks : x # c => progress'[x] = progress[x]
      /\ progress'[c] = "started" /\ Open(c)
  <2>1. CASE m_state[f] = "INIT"
    BY <1>3, <1>6, <2>1 DEF SwapIn, TypeOK, StageOK, Open
  <2>2. CASE m_state[f] # "INIT"
    <3>1. progress' = progress
      BY <1>3, <2>2 DEF SwapIn
    <3>. QED BY <1>3, <1>6, <2>2, <3>1 DEF StageOK, Open
  <2>. QED BY <2>1, <2>2
<1>8. Others(t) /\ HandSame(t) /\ pc'[t] = "body" /\ Current(t)' = f
  BY <1>1, <1>3, <1>4, OneRuns, HasSame
<1>9. Acts(t)
  BY <1>3, <1>4, <1>5, <1>8 DEF Acts, FiberSame
<1>10. /\ \A g \in Tasks : m_callback[g] = c => g = f
       /\ \A x : Holds(t, x) <=> x = c
  BY <1>1, <1>2, <1>3, RunsAlone
<1>11. Holds(t, c)'
  BY <1>3, <1>4, <1>8 DEF Holds, Engaged, Switching, Outgoing
<1>12. ASSUME NEW g \in Tasks
       PROVE  \/ StageOK(g)'
              \/ /\ FiberSame(g)
                 /\ m_callback[g] # Null => progress'[m_callback[g]] = progress[m_callback[g]]
  <2>1. CASE g = f
    BY <1>3, <1>4, <1>5, <1>7, <2>1 DEF StageOK, Ended
  <2>2. CASE g # f
    BY <1>4, <1>5, <1>7, <1>10, <2>2 DEF FiberSame, TypeOK
  <2>. QED BY <2>1, <2>2
<1>13. /\ \A e : InQueue(e)' <=> InQueue(e)
       /\ \A x : Queued(x) => Queued(x)'
  BY <1>4, <1>9, QueueKept DEF InQueue
<1>14. ASSUME NEW x \in Tasks, Open(x)'
       PROVE  Holds(t, x)' \/ (Open(x) /\ ~Holds(t, x) /\ (Queued(x) => Queued(x)'))
  BY <1>7, <1>10, <1>11, <1>13, <1>14 DEF Open
<1>15. "ready" \notin Suspends => AskedStep(t)
  <2>. SUFFICES ASSUME "ready" \notin Suspends PROVE AskedStep(t)
    OBVIOUS
  <2>1. NoReady /\ AskedOK
    BY DEF TaskInv
  <2>2. Asked(t, m_callback[Current(t)])'
    BY <1>1, <1>3, <1>4, <1>8, <2>1 DEF AskedOK, Asked
  <2>. QED BY <1>4, <1>5, <1>8, <1>13, <2>1, <2>2 DEF AskedStep, NoReady
<1>. QED BY <1>1, <1>5, <1>8, <1>9, <1>12, <1>14, <1>15, StepTasks

LEMMA FinishTasks ==
  ASSUME TypeOK, SafeInv, TaskInv, NEW t \in Threads, Finish(t)
  PROVE  TaskInv'
<1>1. pc[t] = "body" /\ Goto(t, "leave")
  BY DEF Finish
<1>2. PICK f \in Tasks : Runs(t, f)
  BY <1>1, RunsFiber
<1>3. PICK c \in Tasks :
        c = m_callback[f] /\ t_fiber[t] = f /\ Has(t, f) /\ c # Null /\ Current(t) = f
  BY <1>2, Fields DEF Runs
<1>4. /\ fiberAndThread' = fiberAndThread /\ callback_fiber' = callback_fiber
      /\ t_fiber' = t_fiber /\ assigned' = assigned /\ m_fibers' = m_fibers
  BY DEF Finish, localVars, queueVars
<1>5. /\ \A g \in Tasks : g # f => FiberSame(g)
      /\ m_state'[f] \in Ended /\ m_callback'[f] \in {c, Null}
  <2>1. CASE /\ m_callback' = [m_callback EXCEPT ![f] = Null]
             /\ m_state' = [m_state EXCEPT ![f] = "TERM"]
    BY <1>3, <2>1 DEF FiberSame, TypeOK, Ended
  <2>2. CASE m_state' = [m_state EXCEPT ![f] = "EXCEPT"] /\ m_callback' = m_callback
    BY <1>3, <2>2 DEF FiberSame, TypeOK, Ended
  <2>. QED BY <1>3, <2>1, <2>2 DEF Finish
<1>6. \A x \in Tasks : progress'[x] = IF x = c THEN "ended" ELSE progress[x]
  BY <1>3 DEF Finish, TypeOK
<1>7. Others(t) /\ pc'[t] = "leave"
  BY <1>1, <1>4, OneRuns
<1>8. Acts(t)
  BY <1>1, <1>3, <1>5, <1>7, NotWaiting DEF Acts, Outgoing
<1>9. /\ \A g \in Tasks : m_callback[g] = c => g = f
      /\ \A x : Holds(t, x) <=> x = c
  BY <1>1, <1>2, <1>3, RunsAlone
<1>10. ASSUME NEW g \in Tasks
       PROVE  \/ StageOK(g)'
              \/ /\ FiberSame(g)
                 /\ m_callback[g] # Null => progress'[m_callback[g]] = progress[m_callback[g]]
  <2>1. CASE g = f
    BY <1>3, <1>5, <1>6, <2>1 DEF StageOK, Ended
  <2>2. CASE g # f
    BY <1>5, <1>6, <1>9, <2>2 DEF TypeOK
  <2>. QED BY <2>1, <2>2
<1>11. /\ \A e : InQueue(e)' <=> InQueue(e)
       /\ \A x : Queued(x) => Queued(x)'
  BY <1>4, <1>8, QueueKept DEF InQueue
<1>12. ASSUME NEW x \in Tasks, Open(x)'
       PROVE  Open(x) /\ ~Holds(t, x) /\ (Queued(x) => Queued(x)')
  BY <1>6, <1>9, <1>11, <1>12 DEF Open
<1>13. "ready" \notin Suspends => AskedStep(t)
  <2>1. "ready" \notin Suspends => NoReady /\ AskedOK
    BY DEF TaskInv
  <2>. QED BY <1>4, <1>5, <1>7, <1>11, <2>1 DEF AskedStep, NoReady, FiberSame, Ended
<1>14. \A g \in Tasks : m_state'[g] = "EXEC" => m_state[g] = "EXEC" /\ g # f
  BY <1>5 DEF FiberSame, Ended
<1>. QED BY <1>3, <1>8, <1>10, <1>12, <1>13, <1>14, StepTasks

LEMMA YieldToReadyTasks ==
  ASSUME TypeOK, SafeInv, TaskInv, NEW t \in Threads, YieldToReady(t)
  PROVE  TaskInv'
<1>1. pc[t] = "body" /\ Goto(t, "leave") /\ "ready" \in Suspends
  BY DEF YieldToReady, Suspend
<1>2. PICK f \in Tasks : Runs(t, f)
  BY <1>1, RunsFiber
<1>3. PICK c \in Tasks :
        /\ c = m_callback[f] /\ t_fiber[t] = f /\ Has(t, f) /\ c # Null /\ Current(t) = f
        /\ m_state[f] = "EXEC"
  BY <1>1, <1>2, Fields DEF Runs, StateAt, Outgoing
<1>4. /\ fiberAndThread' = fiberAndThread /\ callback_fiber' = callback_fiber
      /\ t_fiber' = t_fiber /\ m_callback' = m_callback /\ assigned' = assigned
      /\ progress' = progress /\ m_fibers' = m_fibers
  BY DEF YieldToReady, localVars, queueVars
<1>5. \A g \in Tasks : m_state'[g] = IF g = f THEN "READY" ELSE m_state[g]
  BY <1>3 DEF YieldToReady, TypeOK
<1>6. Others(t) /\ HandSame(t) /\ pc'[t] = "leave" /\ Current(t)' = f
  BY <1>1, <1>3, <1>4, OneRuns, HasSame
<1>7. Acts(t)
  BY <1>3, <1>4, <1>5, <1>6 DEF Acts, FiberSame
<1>8. \A x : Holds(t, x) <=> x = c
  BY <1>1, <1>2, <1>3, RunsAlone
<1>9. Holds(t, c)'
  BY <1>3, <1>4, <1>5, <1>6 DEF Holds, Engaged, Switching, Outgoing
<1>10. StageOK(f)'
  <2>1. StageOK(f)
    BY DEF TaskInv
  <2>. QED BY <1>3, <1>4, <1>5, <2>1 DEF StageOK, Ended
<1>11. \A x : Queued(x) => Queued(x)'
  BY <1>4, <1>7, QueueKept DEF InQueue
<1>12. ASSUME NEW x \in Tasks, Open(x)'
       PROVE  Holds(t, x)' \/ (Open(x) /\ ~Holds(t, x) /\ (Queued(x) => Queued(x)'))
  BY <1>4, <1>8, <1>9, <1>11, <1>12 DEF Open
<1>13. \A g \in Tasks : \/ StageOK(g)'
                        \/ FiberSame(g) /\ progress' = progress
  BY <1>4, <1>5, <1>10 DEF FiberSame
<1>14. \A g \in Tasks : m_state'[g] = "EXEC" => m_state[g] = "EXEC" /\ g # f
  BY <1>5
<1>. QED BY <1>1, <1>3, <1>7, <1>12, <1>13, <1>14, StepTasks

LEMMA ScheduleSelfTasks ==
  ASSUME TypeOK, SafeInv, TaskInv, NEW t \in Threads, ScheduleSelf(t)
  PROVE  TaskInv'
<1>1. /\ pc[t] = "body" /\ Goto(t, "parking") /\ pc'[t] = "parking"
      /\ \A u \in Threads : u # t => pc'[u] = pc[u]
  BY DEF ScheduleSelf, Suspend, Goto, TypeOK
<1>2. PICK f \in Tasks : Runs(t, f)
  BY <1>1, RunsFiber
<1>3. PICK c \in Tasks :
        c = m_callback[f] /\ t_fiber[t] = f /\ Has(t, f) /\ c # Null /\ Current(t) = f
  BY <1>2, Fields DEF Runs
<1>4. PICK p \in Threads \cup {AnyThread} : p = IF HomePinned THEN t ELSE AnyThread
  OBVIOUS
<1>5. /\ fiberAndThread' = fiberAndThread /\ callback_fiber' = callback_fiber
      /\ t_fiber' = t_fiber /\ m_callback' = m_callback /\ m_state' = m_state
      /\ progress' = progress /\ Push(FiberEntry(f, p))
      /\ \A x \in Tasks : assigned'[x] = IF x = c THEN p ELSE assigned[x]
  BY <1>3, <1>4 DEF ScheduleSelf, localVars, fiberVars, TypeOK
<1>6. Others(t) /\ Current(t)' = f
  BY <1>1, <1>3, <1>5, OneRuns, HasSame
<1>7. Acts(t)
  BY <1>5, <1>6 DEF Acts, FiberSame
<1>. DEFINE d == FiberEntry(f, p)
<1>8. /\ d \in Entry /\ d.fiber = f /\ d.thread = p
      /\ \A e : InQueue(e)' <=> InQueue(e) \/ e = d
  BY <1>5, Fields, PushEntries
<1>9. TaskOf(d)' = c /\ \A x : Queued(x) => Queued(x)'
  BY <1>3, <1>5, <1>7, <1>8, Fields, QueueKept DEF TaskOf
<1>10. Queued(c)'
  BY <1>8, <1>9 DEF Queued
<1>11. /\ ~Queued(c)
       /\ \A u \in Threads : u # t => ~Holds(u, c)
       /\ \A x : Holds(t, x) <=> x = c
  BY <1>1, <1>2, <1>3, RunsAlone
<1>12. ASSUME NEW x \in Tasks, Open(x)'
       PROVE  Queued(x)' \/ (Open(x) /\ ~Holds(t, x) /\ (Queued(x) => Queued(x)'))
  BY <1>5, <1>9, <1>10, <1>11, <1>12 DEF Open
<1>13. "ready" \notin Suspends => AskedStep(t)
  <2>. SUFFICES ASSUME "ready" \notin Suspends PROVE AskedStep(t)
    OBVIOUS
  <2>1. NoReady /\ AskedOK
    BY DEF TaskInv
  <2>2. ASSUME NEW e \in Entry, InQueue(e)'
        PROVE  \/ InQueue(e) /\ assigned'[TaskOf(e)] = assigned[TaskOf(e)]
               \/ e.thread = assigned'[TaskOf(e)']
    <3>1. CASE e = d
      BY <1>5, <1>8, <1>9, <3>1
    <3>2. CASE InQueue(e)
      <4>1. TaskOf(e) \in Tasks /\ TaskOf(e) # c
        BY <1>11, <3>2, EntryTask DEF Queued
      <4>. QED BY <1>5, <3>2, <4>1
    <3>. QED BY <1>8, <2>2, <3>1, <3>2
  <2>. QED BY <1>1, <1>5, <1>11, <2>1, <2>2 DEF AskedStep, NoReady
<1>. QED BY <1>1, <1>3, <1>5, <1>6, <1>7, <1>12, <1>13, StepTasks DEF FiberSame

LEMMA YieldToHoldTasks ==
  ASSUME TypeOK, SafeInv, TaskInv, NEW t \in Threads, YieldToHold(t)
  PROVE  TaskInv'
<1>1. pc[t] \in {"body", "parking"} /\ Goto(t, "leave")
  BY DEF YieldToHold, Suspend
<1>2. PICK f \in Tasks : Runs(t, f)
  BY <1>1, RunsFiber
<1>3. PICK c \in Tasks :
        /\ c = m_callback[f] /\ t_fiber[t] = f /\ Has(t, f) /\ c # Null /\ Current(t) = f
        /\ m_state[f] = "EXEC"
  BY <1>1, <1>2, Fields DEF Runs, StateAt, Outgoing
<1>4. /\ fiberAndThread' = fiberAndThread /\ callback_fiber' = callback_fiber
      /\ t_fiber' = t_fiber /\ m_callback' = m_callback /\ assigned' = assigned
      /\ m_fibers' = m_fibers
  BY DEF YieldToHold, localVars, queueVars
<1>5. \A g \in Tasks : m_state'[g] = IF g = f THEN "HOLD" ELSE m_state[g]
  BY <1>3 DEF YieldToHold, TypeOK
<1>6. \/ pc[t] = "parking" /\ progress' = progress
      \/ pc[t] = "body" /\ progress' = [progress EXCEPT ![c] = "parked"]
  BY <1>3 DEF YieldToHold, Suspend
<1>7. Others(t) /\ HandSame(t) /\ pc'[t] = "leave" /\ Current(t)' = f
  BY <1>1, <1>3, <1>4, OneRuns, HasSame
<1>8. Acts(t)
  BY <1>3, <1>4, <1>5, <1>7 DEF Acts, FiberSame
<1>9. \A g \in Tasks : m_callback[g] = c => g = f
  BY <1>3, SafeParts DEF TaskOK
<1>10. /\ pc[t] = "body" => \A x : Holds(t, x) <=> x = c
       /\ pc[t] = "parking" => \A x : ~Holds(t, x)
  BY <1>2, <1>3, RunsAlone DEF Holds
<1>11. /\ \A x \in Tasks : x # c => progress'[x] = progress[x]
       /\ progress'[c] \in {"started", "parked"}
       /\ pc[t] = "body" => progress'[c] = "parked"
  <2>1. StageOK(f)
    BY DEF TaskInv
  <2>. QED BY <1>3, <1>6, <2>1 DEF TypeOK, StageOK
<1>12. ASSUME NEW g \in Tasks
       PROVE  \/ StageOK(g)'
              \/ /\ FiberSame(g)
                 /\ m_callback[g] # Null => progress'[m_callback[g]] = progress[m_callback[g]]
  <2>1. CASE g = f
    BY <1>3, <1>4, <1>5, <1>11, <2>1 DEF StageOK, Ended
  <2>2. CASE g # f
    BY <1>4, <1>5, <1>9, <1>11, <2>2 DEF FiberSame, TypeOK
  <2>. QED BY <2>1, <2>2
<1>13. /\ \A e : InQueue(e)' <=> InQueue(e)
       /\ \A x : Queued(x) => Queued(x)'
  BY <1>4, <1>8, QueueKept DEF InQueue
<1>14. ASSUME NEW x \in Tasks, Open(x)'
       PROVE  Open(x) /\ ~Holds(t, x) /\ (Queued(x) => Queued(x)')
  <2>1. CASE pc[t] = "body"
    BY <1>10, <1>11, <1>13, <1>14, <2>1 DEF Open
  <2>2. CASE pc[t] = "parking"
    BY <1>6, <1>10, <1>13, <1>14, <2>2 DEF Open
  <2>. QED BY <1>1, <2>1, <2>2
<1>15. "ready" \notin Suspends => AskedStep(t)
  <2>1. "ready" \notin Suspends => NoReady /\ AskedOK
    BY DEF TaskInv
  <2>. QED BY <1>4, <1>5, <1>7, <1>13, <2>1 DEF AskedStep, NoReady
<1>16. \A g \in Tasks : m_state'[g] = "EXEC" => m_state[g] = "EXEC" /\ g # f
  BY <1>5
<1>. QED BY <1>3, <1>8, <1>12, <1>14, <1>15, <1>16, StepTasks

-----------------------------------------------------------------------------
(* Steps of run() behind a fiber. *)

LEMMA RequeueTasks ==
  ASSUME TypeOK, SafeInv, TaskInv, NEW t \in Threads, Requeue(t)
  PROVE  TaskInv'
<1>1. /\ HandOK(t) /\ pc[t] = "requeue" /\ pc'[t] = "take"
      /\ \A u \in Threads : u # t => pc'[u] = pc[u]
  BY SafeParts DEF Requeue, Goto, TypeOK
<1>2. PICK f \in Tasks :
         f = Current(t) /\ m_state[f] = "READY" /\ m_callback[f] # Null /\ Has(t, f)
  BY <1>1 DEF HandOK, StateAt, Engaged, Outgoing, Ended, Current, Has
<1>3. /\ m_state' = m_state /\ m_callback' = m_callback /\ progress' = progress
      /\ t_fiber' = t_fiber /\ Push(FiberEntry(f, AnyThread))
  BY <1>2 DEF Requeue, fiberVars, taskVars
<1>4. Others(t)
  BY <1>1, <1>3 DEF Others, Same, HandSame, Requeue, Drop, TypeOK
<1>5. Acts(t)
  BY <1>3, <1>4 DEF Acts, FiberSame
<1>. DEFINE d == FiberEntry(f, AnyThread)
<1>6. /\ d \in Entry /\ d.fiber = f /\ f # Null
      /\ \A e : InQueue(e)' <=> InQueue(e) \/ e = d
  BY <1>3, Fields, PushEntries
<1>7. TaskOf(d)' = m_callback[f] /\ \A x : Queued(x) => Queued(x)'
  BY <1>3, <1>5, <1>6, QueueKept DEF TaskOf
<1>8. Queued(m_callback[f])'
  BY <1>3, <1>6, <1>7 DEF Queued
<1>9. \A x : Holds(t, x) => x = m_callback[f]
  BY <1>1, <1>2 DEF Holds
<1>10. ASSUME NEW x \in Tasks, Open(x)'
       PROVE  Queued(x)' \/ (Open(x) /\ ~Holds(t, x) /\ (Queued(x) => Queued(x)'))
  BY <1>3, <1>7, <1>8, <1>9, <1>10 DEF Open
<1>11. "ready" \in Suspends
  BY <1>2 DEF TaskInv, NoReady
<1>. QED BY <1>1, <1>3, <1>5, <1>10, <1>11, StepTasks DEF FiberSame

LEMMA SettleEndedTasks ==
  ASSUME TypeOK, SafeInv, TaskInv, NEW t \in Threads, SettleEnded(t)
  PROVE  TaskInv'
<1>1. /\ HandOK(t) /\ pc[t] = "settle" /\ pc'[t] = "take"
      /\ \A u \in Threads : u # t => pc'[u] = pc[u]
  BY SafeParts DEF SettleEnded, Goto, TypeOK
<1>2. PICK f \in Tasks : f = Current(t) /\ m_state[f] \in Ended /\ Has(t, f)
  BY <1>1 DEF HandOK, Engaged, Outgoing, SettleEnded, Current, Has
<1>3. /\ \A g \in Tasks : g # f => FiberSame(g)
      /\ FiberSame(f) \/ (m_state'[f] = "INIT" /\ m_callback'[f] = Null)
      /\ m_fibers' = m_fibers /\ progress' = progress /\ assigned' = assigned
      /\ t_fiber' = t_fiber /\ callback_fiber' = callback_fiber
  <2>1. CASE fiberAndThread[t].fiber # Null
    BY <2>1 DEF SettleEnded, FiberSame, fiberVars, queueVars, taskVars
  <2>2. CASE fiberAndThread[t].fiber = Null
    BY <1>2, <2>2 DEF SettleEnded, Reset, NewFiber, FiberSame, queueVars, taskVars, TypeOK
  <2>. QED BY <2>1, <2>2
<1>4. Acts(t)
  <2>1. Others(t)
    BY <1>1, <1>3 DEF Others, Same, HandSame, SettleEnded, TypeOK
  <2>2. \A p : ~Waiting(f, p)
    BY <1>2 DEF Waiting, Ended
  <2>. QED BY <1>2, <1>3, <2>1, <2>2 DEF Acts
<1>5. \A x : ~Holds(t, x)
  BY <1>1, <1>2 DEF Holds, Outgoing, Ended
<1>6. /\ \A e : InQueue(e)' <=> InQueue(e)
      /\ \A x : Queued(x) => Queued(x)'
  BY <1>3, <1>4, QueueKept DEF InQueue
<1>7. "ready" \notin Suspends => AskedStep(t)
  <2>1. "ready" \notin Suspends => NoReady /\ AskedOK
    BY DEF TaskInv
  <2>2. "ready" \notin Suspends => NoReady'
    BY <1>2, <1>3, <2>1 DEF NoReady, FiberSame
  <2>. QED BY <1>1, <1>3, <1>6, <2>2 DEF AskedStep
<1>8. \A g \in Tasks : StageOK(g)' \/ (FiberSame(g) /\ progress' = progress)
  BY <1>3 DEF StageOK
<1>9. \A g \in Tasks : m_state'[g] = "EXEC" => m_state[g] = "EXEC"
  BY <1>3 DEF FiberSame
<1>10. \A x \in Tasks : Open(x)' => Open(x) /\ ~Holds(t, x) /\ (Queued(x) => Queued(x)')
  BY <1>3, <1>5, <1>6 DEF Open
<1>. QED BY <1>1, <1>4, <1>7, <1>8, <1>9, <1>10, StepTasks

\* What the last steps of run() have in common: t holds nothing and changes none.
LEMMA EmptyTasks ==
  ASSUME TypeOK, SafeInv, TaskInv, NEW t \in Threads, Others(t),
         pc[t] \notin {"body", "parking"}, pc'[t] \notin {"enter", "swap", "body"},
         \A x : ~Holds(t, x),
         UNCHANGED <<m_fibers, m_state, m_callback, progress, assigned>>
  PROVE  TaskInv'
<1>1. Acts(t)
  BY DEF Acts, FiberSame
<1>2. /\ \A e : InQueue(e)' <=> InQueue(e)
      /\ \A x : Queued(x) => Queued(x)'
  BY <1>1, QueueKept DEF InQueue
<1>3. "ready" \notin Suspends => AskedStep(t)
  BY <1>2 DEF AskedStep, TaskInv, NoReady
<1>4. \A x \in Tasks : Open(x)' => Open(x) /\ ~Holds(t, x) /\ (Queued(x) => Queued(x)')
  BY <1>2 DEF Open
<1>. QED BY <1>1, <1>3, <1>4, StepTasks DEF FiberSame

LEMMA SettleHeldTasks ==
  ASSUME TypeOK, SafeInv, TaskInv, NEW t \in Threads, SettleHeld(t)
  PROVE  TaskInv'
<1>1. /\ HandOK(t) /\ pc[t] = "settle" /\ pc'[t] = "take"
      /\ \A u \in Threads : u # t => pc'[u] = pc[u]
  BY SafeParts DEF SettleHeld, Goto, TypeOK
<1>2. Current(t) \in Tasks /\ m_state[Current(t)] = "HOLD"
  BY <1>1 DEF HandOK, StateAt, Engaged, Outgoing, SettleHeld, Ended
<1>3. UNCHANGED <<m_fibers, m_state, m_callback, progress, assigned>>
  BY <1>2 DEF SettleHeld, TypeOK, queueVars, taskVars
<1>4. Others(t)
  BY <1>1 DEF Others, Same, HandSame, SettleHeld, Drop, TypeOK
<1>5. \A x : ~Holds(t, x)
  BY <1>1, <1>2 DEF Holds, Outgoing
<1>. QED BY <1>1, <1>3, <1>4, <1>5, EmptyTasks

LEMMA RunExitTasks ==
  ASSUME TypeOK, SafeInv, TaskInv, NEW t \in Threads, RunExit(t)
  PROVE  TaskInv'
<1>1. /\ pc[t] = "idle" /\ pc'[t] \in {"join", "exited"}
      /\ \A u \in Threads : u # t => pc'[u] = pc[u]
  BY DEF RunExit, Goto, TypeOK
<1>2. UNCHANGED <<m_fibers, m_state, m_callback, progress, assigned>>
  BY DEF RunExit, queueVars, fiberVars, taskVars
<1>3. Others(t)
  BY <1>1 DEF Others, Same, HandSame, RunExit, TypeOK
<1>4. \A x : ~Holds(t, x)
  BY <1>1 DEF Holds, Engaged, Switching
<1>. QED BY <1>1, <1>2, <1>3, <1>4, EmptyTasks

-----------------------------------------------------------------------------
(* schedule(). *)

LEMMA SubmitTasks ==
  ASSUME TypeOK, SafeInv, TaskInv, NEW t \in Threads, NEW c \in Tasks, Submit(t, c)
  PROVE  TaskInv'
<1>1. Scheduling /\ progress[c] = "fresh" /\ pc[t] \in {"new", "client", "body"}
  BY DEF Submit, Scheduling, controlVars, localVars
<1>2. /\ \A u \in Threads : Same(u) /\ Others(u) /\ Current(u)' = Current(u)
      /\ fiberAndThread' = fiberAndThread /\ pc' = pc
  BY <1>1, SchedulingKeeps DEF Scheduling
<1>3. /\ \A x \in Tasks : progress'[x] = IF x = c THEN "queued" ELSE progress[x]
      /\ m_state[c] = "NONE" /\ m_callback[c] = Null /\ \A g \in Tasks : m_callback[g] # c
  BY <1>1, SafeParts DEF Submit, TypeOK, TaskOK
<1>4. PICK p \in Threads \cup {AnyThread} :
        /\ assigned' = [assigned EXCEPT ![c] = p]
        /\ \/ Push(CallbackEntry(c, p)) /\ UNCHANGED fiberVars
           \/ Push(FiberEntry(c, p)) /\ NewFiber(c, c)
  <2>1. Pins(t) \subseteq Threads \cup {AnyThread}
    BY DEF Pins, Runners, Threads
  <2>. QED BY <2>1 DEF Submit
<1>5. /\ \A g \in Tasks : g # c => FiberSame(g)
      /\ FiberSame(c) \/ (m_state'[c] = "INIT" /\ m_callback'[c] = c)
      /\ \A x \in Tasks : assigned'[x] = IF x = c THEN p ELSE assigned[x]
  BY <1>4 DEF NewFiber, FiberSame, fiberVars, TypeOK
<1>6. Acts(t)
  BY <1>2, <1>3, <1>5 DEF Acts, Waiting
<1>7. PICK d \in Entry : /\ Push(d) /\ TaskOf(d)' = c /\ d.thread = p
  <2>1. CASE Push(CallbackEntry(c, p))
    BY <2>1, Fields DEF TaskOf, CallbackEntry
  <2>2. CASE Push(FiberEntry(c, p)) /\ NewFiber(c, c)
    BY <2>2, Fields DEF TaskOf, NewFiber, TypeOK
  <2>. QED BY <1>4, <2>1, <2>2
<1>8. /\ \A e : InQueue(e)' <=> InQueue(e) \/ e = d
  BY <1>7, PushEntries
<1>9. Queued(c)' /\ \A x : Queued(x) => Queued(x)'
  BY <1>6, <1>7, <1>8, QueueKept DEF Queued
<1>10. /\ ~Queued(c)
       /\ \A u \in Threads : ~Holds(u, c)
  <2>1. ~Open(c)
    BY <1>1 DEF Open
  <2>. QED BY <2>1, EntryTask, HeldTask DEF Queued
<1>11. \A x : Holds(t, x) => Holds(t, x)'
  <2>. SUFFICES ASSUME NEW x, Holds(t, x) PROVE Holds(t, x)'
    OBVIOUS
  <2>1. pc[t] = "body"
    BY <1>1 DEF Holds, Engaged, Switching
  <2>2. PICK f \in Tasks : Runs(t, f)
    BY <2>1, RunsFiber
  <2>3. f # c /\ Current(t) = f
    BY <1>3, <2>2, Fields DEF Runs
  <2>4. m_callback'[f] = m_callback[f] /\ m_callback[f] = x
    BY <1>5, <2>1, <2>3 DEF Holds, FiberSame
  <2>. QED BY <1>2, <2>1, <2>3, <2>4 DEF Holds, Engaged, Switching, Outgoing
<1>12. ASSUME NEW x \in Tasks, Open(x)'
       PROVE  \/ Queued(x)' \/ Holds(t, x)'
              \/ (Open(x) /\ ~Holds(t, x) /\ (Queued(x) => Queued(x)'))
  BY <1>3, <1>9, <1>11, <1>12 DEF Open
<1>13. "ready" \notin Suspends => AskedStep(t)
  <2>. SUFFICES ASSUME "ready" \notin Suspends PROVE AskedStep(t)
    OBVIOUS
  <2>1. NoReady /\ AskedOK
    BY DEF TaskInv
  <2>2. ASSUME NEW e \in Entry, InQueue(e)'
        PROVE  \/ InQueue(e) /\ assigned'[TaskOf(e)] = assigned[TaskOf(e)]
               \/ e.thread = assigned'[TaskOf(e)']
    <3>1. CASE e = d
      BY <1>5, <1>7, <3>1
    <3>2. CASE InQueue(e)
      <4>1. TaskOf(e) \in Tasks /\ TaskOf(e) # c
        BY <1>10, <3>2, EntryTask DEF Queued
      <4>. QED BY <1>5, <3>2, <4>1
    <3>. QED BY <1>8, <2>2, <3>1, <3>2
  <2>3. ASSUME pc[t] = "body" PROVE Asked(t, m_callback[Current(t)])'
    <3>1. PICK f \in Tasks : Runs(t, f)
      BY <2>3, RunsFiber
    <3>2. f # c /\ m_callback[f] # c /\ m_callback[f] \in Tasks /\ Current(t) = f
      BY <1>3, <3>1, Fields DEF Runs
    <3>3. m_callback'[f] = m_callback[f]
      BY <1>5, <3>2 DEF FiberSame
    <3>. QED BY <1>2, <1>5, <2>1, <2>3, <3>2, <3>3 DEF AskedOK, Asked
  <2>4. NoReady'
    BY <1>5, <2>1 DEF NoReady, FiberSame
  <2>. QED BY <1>1, <1>2, <1>5, <1>10, <2>2, <2>3, <2>4 DEF AskedStep
<1>14. ASSUME NEW g \in Tasks
       PROVE  \/ StageOK(g)'
              \/ /\ FiberSame(g)
                 /\ m_callback[g] # Null => progress'[m_callback[g]] = progress[m_callback[g]]
  <2>1. CASE g # c
    BY <1>3, <1>5, <2>1 DEF TypeOK
  <2>2. CASE g = c
    BY <1>3, <1>5, <2>2 DEF StageOK, FiberSame, Ended
  <2>. QED BY <2>1, <2>2
<1>15. \A g \in Tasks : m_state'[g] = "EXEC" => m_state[g] = "EXEC"
  BY <1>5 DEF FiberSame
<1>. QED BY <1>1, <1>2, <1>6, <1>12, <1>13, <1>14, <1>15, StepTasks

LEMMA ResumeTasks ==
  ASSUME TypeOK, SafeInv, TaskInv, NEW t \in Threads, NEW f \in Tasks, Resume(t, f)
  PROVE  TaskInv'
<1>1. Scheduling /\ pc[t] \in {"client", "body"}
  BY DEF Resume, Scheduling, controlVars, localVars
<1>2. /\ \A u \in Threads : Same(u) /\ Others(u) /\ Current(u)' = Current(u)
      /\ fiberAndThread' = fiberAndThread /\ pc' = pc
      /\ m_state' = m_state /\ m_callback' = m_callback
  BY <1>1, SchedulingKeeps DEF Scheduling, Resume, fiberVars
<1>3. PICK c \in Tasks : c = m_callback[f] /\ c # Null /\ progress[c] = "parked"
  BY DEF Resume, TypeOK
<1>4. PICK p \in Threads \cup {AnyThread} : p = IF HomePinned THEN home[c] ELSE AnyThread
  BY DEF TypeOK
<1>5. /\ \A x \in Tasks : progress'[x] = IF x = c THEN "started" ELSE progress[x]
      /\ \A x \in Tasks : assigned'[x] = IF x = c THEN p ELSE assigned[x]
      /\ Push(FiberEntry(f, p))
  BY <1>3, <1>4 DEF Resume, TypeOK
<1>6. Acts(t)
  BY <1>2 DEF Acts, FiberSame
<1>. DEFINE d == FiberEntry(f, p)
<1>7. /\ d \in Entry /\ d.fiber = f /\ d.thread = p /\ f # Null
      /\ \A e : InQueue(e)' <=> InQueue(e) \/ e = d
  BY <1>5, Fields, PushEntries
<1>8. TaskOf(d)' = c /\ \A x : Queued(x) => Queued(x)'
  BY <1>2, <1>3, <1>6, <1>7, QueueKept DEF TaskOf
<1>9. Queued(c)'
  BY <1>7, <1>8 DEF Queued
<1>10. /\ ~Queued(c)
       /\ \A u \in Threads : ~Holds(u, c)
  <2>1. ~Open(c)
    BY <1>3 DEF Open
  <2>. QED BY <2>1, EntryTask, HeldTask DEF Queued
<1>11. \A x : Holds(t, x) => Holds(t, x)'
  BY <1>2 DEF Holds, TaskOf
<1>12. ASSUME NEW x \in Tasks, Open(x)'
       PROVE  \/ Queued(x)' \/ Holds(t, x)'
              \/ (Open(x) /\ ~Holds(t, x) /\ (Queued(x) => Queued(x)'))
  BY <1>5, <1>8, <1>9, <1>11, <1>12 DEF Open
<1>13. "ready" \notin Suspends => AskedStep(t)
  <2>. SUFFICES ASSUME "ready" \notin Suspends PROVE AskedStep(t)
    OBVIOUS
  <2>1. NoReady /\ AskedOK
    BY DEF TaskInv
  <2>2. ASSUME NEW e \in Entry, InQueue(e)'
        PROVE  \/ InQueue(e) /\ assigned'[TaskOf(e)] = assigned[TaskOf(e)]
               \/ e.thread = assigned'[TaskOf(e)']
    <3>1. CASE e = d
      BY <1>5, <1>7, <1>8, <3>1
    <3>2. CASE InQueue(e)
      <4>1. TaskOf(e) \in Tasks /\ TaskOf(e) # c
        BY <1>10, <3>2, EntryTask DEF Queued
      <4>. QED BY <1>5, <3>2, <4>1
    <3>. QED BY <1>7, <2>2, <3>1, <3>2
  <2>3. ASSUME pc[t] = "body" PROVE Asked(t, m_callback[Current(t)])'
    <3>1. PICK g \in Tasks : Runs(t, g)
      BY <2>3, RunsFiber
    <3>2. m_callback[g] # c /\ m_callback[g] \in Tasks /\ Current(t) = g
      BY <1>3, <3>1 DEF Runs
    <3>. QED BY <1>2, <1>5, <2>1, <2>3, <3>2 DEF AskedOK, Asked
  <2>. QED BY <1>1, <1>2, <1>5, <1>10, <2>1, <2>2, <2>3 DEF AskedStep, NoReady
<1>14. ASSUME NEW g \in Tasks
       PROVE  \/ StageOK(g)'
              \/ /\ FiberSame(g)
                 /\ m_callback[g] # Null => progress'[m_callback[g]] = progress[m_callback[g]]
  <2>1. TaskOK(f) /\ (m_callback[g] = c => f = g)
    BY <1>3, SafeParts DEF TaskOK
  <2>2. CASE m_callback[g] # c
    BY <1>2, <1>5, <2>2 DEF FiberSame, TypeOK
  <2>3. CASE m_callback[g] = c
    BY <1>2, <1>3, <1>5, <2>1, <2>3 DEF StageOK, TaskOK, ParkedOK, Ended
  <2>. QED BY <2>2, <2>3
<1>. QED BY <1>1, <1>2, <1>6, <1>12, <1>13, <1>14, StepTasks

-----------------------------------------------------------------------------
(* Steps that only move threads. *)

Quiet(t) ==
  \/ TakeNothing(t) \/ SwapOut(t) \/ DecActive(t) \/ SettleReady(t)
  \/ IdleEnter(t) \/ IdleCheck(t) \/ IdleLeave(t)

LEMMA QuietTasks ==
  ASSUME TypeOK, SafeInv, TaskInv, NEW t \in Threads, Quiet(t)
  PROVE  TaskInv'
<1>1. UNCHANGED <<m_fibers, m_state, m_callback, progress, assigned>>
  BY DEF Quiet, TakeNothing, SwapOut, DecActive, SettleReady, IdleEnter, IdleCheck, IdleLeave,
         queueVars, fiberVars, taskVars
<1>2. /\ \A u \in Threads : HandSame(u) /\ (u # t => t_fiber'[u] = t_fiber[u])
      /\ \A u \in Threads : u # t => pc'[u] = pc[u]
  BY DEF Quiet, TakeNothing, SwapOut, DecActive, SettleReady, IdleEnter, IdleCheck, IdleLeave,
         localVars, HandSame, Goto, TypeOK
<1>3. \/ pc[t] \notin Engaged \cup {"enter"} /\ pc'[t] \notin Engaged \cup {"enter"}
      \/ pc[t] \in Outgoing /\ pc'[t] \in {"left", "settle"}
      \/ pc[t] = "settle" /\ pc'[t] = "requeue" /\ m_state[Current(t)] = "READY"
  BY DEF Quiet, TakeNothing, SwapOut, DecActive, SettleReady, IdleEnter, IdleCheck, IdleLeave,
         Goto, TypeOK, Engaged, Switching, Outgoing
<1>4. \A u \in Threads : Moves(u)
  BY <1>2, <1>3 DEF Moves, Same
<1>. QED BY <1>1, <1>4, MovesTasks

LEMMA OwnerTasks ==
  ASSUME CountInv, SafeInv, TaskInv, Start \/ StopAtOnce \/ StopBegin \/ StopStep \/ Destroy
  PROVE  TaskInv'
<1>1. UNCHANGED <<m_fibers, m_state, m_callback, progress, assigned>>
  BY DEF Start, StopAtOnce, StopBegin, StopStep, StopFlag, StopRoot, Join, Destroy,
         queueVars, fiberVars, taskVars
<1>2. \A u \in Threads : HandSame(u) /\ t_fiber'[u] = t_fiber[u]
  BY DEF Start, StopAtOnce, StopBegin, StopStep, StopFlag, StopRoot, Join, Destroy,
         localVars, HandSame
<1>3. CASE Start
  <2>1. ASSUME NEW u \in Threads
        PROVE  pc[u] \notin Engaged \cup {"enter"} /\ pc'[u] \notin Engaged \cup {"enter"}
    <3>1. pc[u] \in {"off", "exited", "new", "stopped"} /\ pc'[u] \in {"client", "take"}
      BY <1>3 DEF Start, CountInv, WorkersOK, Threads
    <3>. QED BY <3>1 DEF Engaged, Switching
  <2>. QED BY <1>1, <1>2, <2>1, MovesTasks DEF Moves, CountInv
<1>4. CASE StopAtOnce \/ StopBegin \/ StopStep \/ Destroy
  <2>1. /\ \A u \in Threads : u # Caller => pc'[u] = pc[u]
        /\ pc[Caller] \in OwnerPc /\ pc'[Caller] \in OwnerPc \cup {"take"}
    BY <1>4 DEF StopAtOnce, StopBegin, StopStep, StopFlag, StopRoot, Join, Destroy, MayStop,
           Goto, CountInv, TypeOK, Threads, OwnerPc
  <2>2. \A u \in Threads : Moves(u)
    BY <1>2, <2>1 DEF Moves, Same, OwnerPc, Engaged, Switching
  <2>. QED BY <1>1, <2>2, MovesTasks DEF CountInv
<1>. QED BY <1>3, <1>4

LEMMA TaskInit ==
  ASSUME Init
  PROVE  TaskInv
<1>1. \A f \in Tasks : StageOK(f) /\ ExecOK(f)
  BY DEF Init, StageOK, ExecOK
<1>2. NothingLost
  BY DEF Init, NothingLost, Open
<1>3. NoReady /\ AskedOK
  BY DEF Init, NoReady, AskedOK, InQueue, Threads
<1>. QED BY <1>1, <1>2, <1>3 DEF TaskInv

LEMMA TaskStep ==
  ASSUME CountInv, SafeInv, Considerate, TaskInv, [Next]_vars
  PROVE  TaskInv'
<1>. USE DEF CountInv
<1>1. ASSUME NEW t \in Threads, NEW c \in Tasks, Submit(t, c) \/ Resume(t, c)
      PROVE  TaskInv'
  BY <1>1, SubmitTasks, ResumeTasks
<1>2. ASSUME NEW f \in Tasks, Resubmit(f) PROVE TaskInv'
  BY <1>2 DEF Resubmit, Considerate, TypeOK
<1>3. ASSUME NEW t \in Threads, RunStep(t) PROVE TaskInv'
  BY <1>3, QuietTasks, TakeTasks, EnterFiberTasks, EnterCallbackTasks, SwapInTasks,
     FinishTasks, YieldToReadyTasks, ScheduleSelfTasks, YieldToHoldTasks, RequeueTasks,
     SettleEndedTasks, SettleHeldTasks, RunExitTasks DEF RunStep, Quiet
<1>4. CASE Start \/ StopAtOnce \/ StopBegin \/ StopStep \/ Destroy
  BY <1>4, OwnerTasks
<1>5. CASE UNCHANGED vars
  <2>1. UNCHANGED <<m_fibers, m_state, m_callback, progress, assigned>>
    BY <1>5 DEF vars, queueVars, fiberVars, taskVars
  <2>2. \A u \in Threads : Moves(u)
    BY <1>5 DEF vars, localVars, Moves, Same, HandSame
  <2>. QED BY <2>1, <2>2, MovesTasks
<1>. QED BY <1>1, <1>2, <1>3, <1>4, <1>5 DEF Next

LEMMA TaskInvHolds == Considerate => (Spec => []TaskInv)
<1>. SUFFICES ASSUME Considerate PROVE Spec => []TaskInv
  OBVIOUS
<1>1. (Spec => []CountInv) /\ (Spec => []SafeInv)
  BY CountInvHolds, SafeInvHolds
<1>2. CountInv /\ SafeInv /\ TaskInv /\ [Next]_vars => TaskInv'
  BY TaskStep
<1>. QED BY <1>1, <1>2, TaskInit, PTL DEF Spec

-----------------------------------------------------------------------------
(* Somebody will look at every entry. *)

\* What must not come together in a pool that has threads: a fiber that YieldToReady
\* has left is put back into the queue only after its thread is counted down, so
\* that others may leave run() in between; and a task that asks for one of them.
Deliberate == "ready" \notin Suspends \/ Workers = {} \/
  (Pinning # "any" /\ (TasksResume => "park" \notin Suspends))

\* Thread t will scan the queue again before it leaves run(), or enters it.
WillLook(t) ==
  \/ pc[t] \in RunPc /\ ~(pc[t] = "idle" /\ idle_fiber[t] = "TERM")
  \/ t = Caller /\ UseCaller /\ pc[t] \in {"new", "client", "stop1", "stop2"}

\* An entry for p is seen: by p, or by whoever runs or will be started.
Minded(p) ==
  IF p = AnyThread THEN pc[Caller] = "new" \/ \E t \in Threads : WillLook(t)
                   ELSE WillLook(p)

Attended == \A e \in Entry : InQueue(e) => Minded(e.thread)

\* The threads of the pool before start(), and up to stop().
StartOK ==
  /\ pc[Caller] = "new" => ~m_autoStop /\ \A w \in Workers : pc[w] = "off"
  /\ pc[Caller] = "client" =>
       ~m_stopping /\ \A w \in Workers : pc[w] \in RunPc /\ idle_fiber[w] # "TERM"
  /\ pc[Caller] \in RunPc => UseCaller

\* Thread t has left run(), or is about to.
Leaves(t) ==
  \/ idle_fiber[t] = "TERM" \/ pc[t] = "exited"
  \/ t = Caller /\ pc[t] \in {"join", "stopped", "destroyed"}

\* A thread leaves when nothing can become of the queue any more.
LeavesLast == \A t \in Runners : Leaves(t) => Stopping

\* A parked task has run on a thread that there is.
HomeOK(c) == progress[c] = "parked" =>
  home[c] \in Runners /\ pc[home[c]] # "off" /\ "park" \in Suspends

LookInv ==
  /\ Attended
  /\ StartOK
  /\ "ready" \notin Suspends => LeavesLast
  /\ \A c \in Tasks : HomeOK(c)

-----------------------------------------------------------------------------
(* When the scheduler is stopping. *)

LEMMA CountedActive ==
  ASSUME CountInv, m_activeThreadCount = 0, NEW t \in Threads
  PROVE  pc[t] \notin ActivePc
<1>1. Cardinality(Actives) = 0 /\ IsFiniteSet(Actives)
  BY CountsFinite DEF CountInv, CountersExact, Actives
<1>2. Actives = {}
  BY <1>1, FS_EmptySet
<1>. QED BY <1>2 DEF Actives

\* No thread leaves, no entry arrives and none is running: nothing but start()
\* ends that, unless a fiber is to be put back into the queue.
LEMMA StoppingStays ==
  ASSUME CountInv, SafeInv, TaskInv, StartOK, Considerate, "ready" \notin Suspends,
         Stopping, [Next]_vars, ~Start
  PROVE  Stopping'
<1>. USE DEF Stopping
<1>1. /\ \A t \in Threads : pc[t] \notin ActivePc /\ HandOK(t)
      /\ m_fibers = <<>> /\ \A i : i \notin DOMAIN m_fibers
      /\ NoReady /\ TypeOK /\ pc[Caller] \notin {"new", "client"}
  BY CountedActive, SafeParts DEF TaskInv, CountInv, StartOK
<1>2. \A t \in Threads : pc[t] \notin {"new", "client", "body"}
  BY <1>1 DEF CountInv, WorkersOK, Threads, RunPc, ActivePc
<1>3. ASSUME NEW t \in Threads, NEW c \in Tasks, Submit(t, c) \/ Resume(t, c) PROVE FALSE
  BY <1>2, <1>3 DEF Submit, Resume
<1>4. ASSUME NEW f \in Tasks, Resubmit(f) PROVE FALSE
  BY <1>4 DEF Resubmit, Considerate, CountInv, TypeOK
<1>5. ASSUME NEW t \in Threads, RunStep(t) PROVE Stopping'
  <2>1. pc[t] # "requeue"
    BY <1>1 DEF HandOK, StateAt, Engaged, Outgoing, NoReady
  <2>2. ~Take(t) /\ ~Requeue(t)
    BY <1>1, <2>1 DEF Take, Eligibles, Requeue
  <2>3. pc[t] \notin {"enter", "swap", "body", "parking", "leave", "left"}
    BY <1>1 DEF ActivePc
  <2>4. \/ TakeNothing(t) \/ SettleReady(t) \/ SettleEnded(t) \/ SettleHeld(t)
        \/ IdleEnter(t) \/ IdleCheck(t) \/ IdleLeave(t) \/ RunExit(t)
    BY <1>5, <2>2, <2>3 DEF RunStep, EnterFiber, EnterCallback, SwapIn, Finish, YieldToReady,
           ScheduleSelf, YieldToHold, Suspend, SwapOut, DecActive
  <2>. QED BY <2>4 DEF TakeNothing, SettleReady, SettleEnded, SettleHeld, IdleEnter, IdleCheck,
           IdleLeave, RunExit, queueVars, controlVars
<1>6. CASE StopAtOnce \/ StopBegin \/ StopStep \/ Destroy
  BY <1>6 DEF StopAtOnce, StopBegin, StopStep, StopFlag, StopRoot, Join, Destroy,
         queueVars, controlVars
<1>7. CASE UNCHANGED vars
  BY <1>7 DEF vars, queueVars, controlVars
<1>. QED BY <1>3, <1>4, <1>5, <1>6, <1>7 DEF Next

-----------------------------------------------------------------------------
(* Who is asked for, looks, and goes on looking. *)

\* A thread that may be asked for in schedule() will look.
LEMMA AskedLooks ==
  ASSUME CountInv, SafeInv, LookInv, NEW t \in Threads, pc[t] \in {"new", "client", "body"},
         NEW u \in Runners, pc[u] # "off",
         pc[t] = "body" => u = t \/ "ready" \notin Suspends \/ Workers = {}
  PROVE  WillLook(u)
<1>. USE DEF CountInv
<1>1. /\ u \in Threads /\ (u = Caller => UseCaller)
      /\ pc[u] \in {"off", "exited"} \cup RunPc \cup OwnerPc
  BY PoolAssumption DEF Runners, Threads, TypeOK
<1>2. CASE pc[t] \in {"new", "client"}
  <2>1. t = Caller
    BY <1>2 DEF WorkersOK, Threads, RunPc
  <2>2. CASE u = Caller
    BY <1>1, <1>2, <2>1, <2>2 DEF WillLook
  <2>3. CASE u # Caller
    BY <1>1, <1>2, <2>1, <2>3 DEF WillLook, LookInv, StartOK, Threads
  <2>. QED BY <2>2, <2>3
<1>3. CASE pc[t] = "body" /\ u = t
  BY <1>3 DEF WillLook, RunPc
<1>4. CASE pc[t] = "body" /\ Workers = {}
  <2>1. u = t
    BY <1>1, <1>4 DEF Threads
  <2>. QED BY <1>4, <2>1 DEF WillLook, RunPc
<1>5. CASE pc[t] = "body" /\ "ready" \notin Suspends
  <2>1. ~Stopping
    BY <1>5, CountedActive DEF Stopping, ActivePc
  <2>2. ~Leaves(u)
    BY <1>5, <2>1 DEF LookInv, LeavesLast
  <2>3. CASE u = Caller
    BY <1>1, <2>2, <2>3 DEF WillLook, Leaves, OwnerPc
  <2>4. CASE u # Caller
    BY <1>1, <2>2, <2>4 DEF WillLook, Leaves, WorkersOK, Threads
  <2>. QED BY <2>3, <2>4
<1>. QED BY <1>2, <1>3, <1>4, <1>5

LEMMA SomeoneLooks ==
  ASSUME CountInv, SafeInv, LookInv, NEW t \in Threads, pc[t] \in {"new", "client", "body"}
  PROVE  Minded(AnyThread)
<1>. USE DEF CountInv
<1>1. t \in Workers => pc[t] = "body"
  BY DEF WorkersOK, RunPc
<1>2. CASE pc[t] = "body"
  BY <1>2 DEF Minded, WillLook, RunPc
<1>3. CASE t = Caller /\ pc[t] = "new"
  BY <1>3 DEF Minded
<1>4. CASE t = Caller /\ pc[t] = "client"
  <2>1. PICK u \in Runners : TRUE
    BY PoolAssumption
  <2>2. pc[u] # "off"
    BY <1>4, PoolAssumption DEF LookInv, StartOK, Runners, Threads, RunPc
  <2>3. WillLook(u) /\ u \in Threads
    BY <1>4, <2>2, AskedLooks DEF Runners, Threads
  <2>. QED BY <2>3 DEF Minded
<1>. QED BY <1>1, <1>2, <1>3, <1>4 DEF Threads

\* No step but those named takes a thread out of sight.
LEMMA AttendedKeeps ==
  ASSUME TypeOK, Attended, \A u \in Threads : WillLook(u) => WillLook(u)',
         pc[Caller] = "new" => Minded(AnyThread)',
         \A e \in Entry : InQueue(e)' => InQueue(e) \/ Minded(e.thread)'
  PROVE  Attended'
<1>1. ASSUME NEW e \in Entry, InQueue(e) PROVE Minded(e.thread)'
  <2>1. Minded(e.thread) /\ (e.thread = AnyThread \/ e.thread \in Threads)
    BY <1>1, EntryTypes DEF Attended
  <2>2. CASE e.thread = AnyThread
    BY <2>1, <2>2 DEF Minded
  <2>3. CASE e.thread # AnyThread
    BY <2>1, <2>3 DEF Minded
  <2>. QED BY <2>2, <2>3
<1>. QED BY <1>1 DEF Attended

\* What is pushed for p is looked for.
LEMMA PushAttended ==
  ASSUME TypeOK, Attended, UNCHANGED <<pc, idle_fiber>>,
         NEW d \in Entry, Push(d), Minded(d.thread)
  PROVE  Attended'
<1>1. \A e : InQueue(e)' <=> InQueue(e) \/ e = d
  BY PushEntries
<1>2. /\ \A u : WillLook(u)' <=> WillLook(u)
      /\ \A p : Minded(p)' <=> Minded(p)
  BY DEF WillLook, Minded
<1>3. pc[Caller] = "new" => Minded(AnyThread)'
  BY <1>2 DEF Minded
<1>. QED BY <1>1, <1>2, <1>3, AttendedKeeps

LEMMA SubmitAttended ==
  ASSUME CountInv, SafeInv, LookInv, Deliberate,
         NEW t \in Threads, NEW c \in Tasks, Submit(t, c)
  PROVE  Attended'
<1>1. pc[t] \in {"new", "client", "body"} /\ UNCHANGED <<pc, idle_fiber>>
  BY DEF Submit, localVars
<1>2. PICK p \in Pins(t) :
        Push(CallbackEntry(c, p)) \/ Push(FiberEntry(c, p))
  BY DEF Submit
<1>3. p \in Threads \cup {AnyThread} /\ Minded(p)
  <2>1. CASE p = AnyThread
    BY <1>1, <2>1, SomeoneLooks
  <2>2. CASE p # AnyThread /\ Pinning = "own" /\ pc[t] = "body"
    <3>1. p = t
      BY <1>2, <2>2 DEF Pins
    <3>. QED BY <2>2, <3>1, PoolAssumption DEF Minded, WillLook, RunPc
  <2>3. CASE p # AnyThread /\ ~(Pinning = "own" /\ pc[t] = "body")
    <3>1. /\ Pinning # "none" /\ p \in Runners /\ pc[p] # "off"
          /\ pc[t] = "body" => Pinning = "any"
      BY <1>2, <2>3, ClientAssumption DEF Pins
    <3>2. WillLook(p)
      BY <1>1, <3>1, AskedLooks DEF Deliberate
    <3>. QED BY <2>3, <3>1, <3>2 DEF Minded, Runners, Threads
  <2>. QED BY <2>1, <2>2, <2>3
<1>4. PICK d \in Entry : Push(d) /\ d.thread = p
  BY <1>2, <1>3, Fields DEF CallbackEntry
<1>. QED BY <1>1, <1>3, <1>4, PushAttended DEF CountInv, LookInv

LEMMA ResumeAttended ==
  ASSUME CountInv, SafeInv, LookInv, Deliberate,
         NEW t \in Threads, NEW f \in Tasks, Resume(t, f)
  PROVE  Attended'
<1>1. /\ pc[t] \in {"client", "body"} /\ UNCHANGED <<pc, idle_fiber>>
      /\ pc[t] = "body" => TasksResume
  BY DEF Resume, localVars
<1>2. PICK c \in Tasks : c = m_callback[f] /\ c # Null /\ progress[c] = "parked"
                         /\ Push(FiberEntry(f, IF HomePinned THEN home[c] ELSE AnyThread))
  BY DEF Resume, CountInv, TypeOK
<1>3. HomePinned /\ home[c] \in Runners /\ pc[home[c]] # "off" /\ "park" \in Suspends
  BY <1>2, SafeParts DEF LookInv, HomeOK, TaskOK, ParkedOK
<1>4. WillLook(home[c])
  BY <1>1, <1>3, AskedLooks DEF Deliberate
<1>5. home[c] \in Threads /\ Minded(home[c])
  BY <1>3, <1>4, PoolAssumption DEF Minded, Runners, Threads
<1>6. FiberEntry(f, home[c]) \in Entry /\ FiberEntry(f, home[c]).thread = home[c]
  BY <1>5, Fields
<1>. QED BY <1>1, <1>2, <1>3, <1>5, <1>6, PushAttended DEF CountInv, LookInv

\* A step of run() is followed by another look, unless the thread has found nothing.
LEMMA RunLooks ==
  ASSUME CountInv, NEW t \in Threads, RunStep(t), ~TakeNothing(t)
  PROVE  /\ \A u \in Threads : WillLook(u) => WillLook(u)'
         /\ pc[Caller] = "new" => pc'[Caller] = "new"
         /\ ScheduleSelf(t) \/ Requeue(t) => WillLook(t)'
<1>. USE DEF Goto
<1>1. /\ \A u \in Threads : u # t => pc'[u] = pc[u] /\ idle_fiber'[u] = idle_fiber[u]
      /\ pc[t] \in RunPc
      /\ \/ pc'[t] \in RunPc \ {"idle"}
         \/ RunExit(t)
  <2>1. CASE Take(t) \/ EnterFiber(t) \/ EnterCallback(t) \/ SwapIn(t)
    BY <2>1 DEF Take, EnterFiber, EnterCallback, SwapIn, CountInv, TypeOK, localVars, RunPc
  <2>2. CASE Finish(t) \/ YieldToReady(t) \/ ScheduleSelf(t) \/ YieldToHold(t) \/ SwapOut(t)
    BY <2>2 DEF Finish, YieldToReady, ScheduleSelf, YieldToHold, SwapOut, Suspend, CountInv,
         TypeOK, localVars, RunPc
  <2>3. CASE DecActive(t) \/ SettleReady(t) \/ Requeue(t) \/ SettleEnded(t) \/ SettleHeld(t)
    BY <2>3 DEF DecActive, SettleReady, Requeue, SettleEnded, SettleHeld, CountInv, TypeOK,
         localVars, RunPc
  <2>4. CASE IdleEnter(t) \/ IdleCheck(t) \/ IdleLeave(t) \/ RunExit(t)
    BY <2>4 DEF IdleEnter, IdleCheck, IdleLeave, RunExit, CountInv, TypeOK, localVars, RunPc
  <2>. QED BY <2>1, <2>2, <2>3, <2>4 DEF RunStep
<1>2. RunExit(t) => pc[t] = "idle" /\ idle_fiber[t] = "TERM"
  BY DEF RunExit
<1>3. WillLook(t) => WillLook(t)'
  BY <1>1, <1>2 DEF WillLook, RunPc
<1>4. ASSUME NEW u \in Threads, WillLook(u) PROVE WillLook(u)'
  BY <1>1, <1>3, <1>4 DEF WillLook
<1>5. pc[Caller] = "new" => t # Caller
  BY <1>1 DEF RunPc
<1>6. ScheduleSelf(t) \/ Requeue(t) => WillLook(t)'
  BY DEF ScheduleSelf, Requeue, WillLook, CountInv, TypeOK, RunPc
<1>. QED BY <1>1, <1>4, <1>5, <1>6 DEF Threads

\* A thread that finds nothing leaves no entry behind that it might take.
LEMMA TakeNothingAttended ==
  ASSUME CountInv, SafeInv, TaskInv, LookInv, NEW t \in Threads, TakeNothing(t)
  PROVE  Attended'
<1>. USE DEF CountInv
<1>1. /\ pc[t] = "take" /\ m_fibers' = m_fibers /\ idle_fiber' = idle_fiber
      /\ \A u \in Threads : u # t => pc'[u] = pc[u]
      /\ \A i \in DOMAIN m_fibers : ~Eligible(t, m_fibers[i])
  BY DEF TakeNothing, Eligibles, Goto, TypeOK, queueVars, localVars
<1>2. ASSUME NEW e \in Entry, InQueue(e), e.thread \in {AnyThread, t} PROVE FALSE
  <2>1. e.fiber # Null /\ m_state[e.fiber] = "EXEC" /\ EntryOK(e)
    BY <1>1, <1>2, SafeParts DEF Eligible, InQueue, QueueOK
  <2>2. e.fiber \in Tasks /\ Waiting(e.fiber, e.thread)
    BY <2>1 DEF EntryOK, Waiting
  <2>3. PICK u \in Threads : pc[u] \in {"body", "parking"} /\ Current(u) = e.fiber
    BY <2>1, <2>2 DEF TaskInv, ExecOK
  <2>4. Has(u, e.fiber)
    BY <2>3 DEF Current, Has
  <2>5. u = e.thread
    BY <2>2, <2>4 DEF Waiting
  <2>. QED BY <1>1, <1>2, <2>3, <2>5, PoolAssumption
<1>3. ASSUME NEW e \in Entry, InQueue(e) PROVE Minded(e.thread)'
  <2>1. e.thread \in Threads \ {t} /\ e.thread # AnyThread /\ Minded(e.thread)
    BY <1>2, <1>3, EntryTypes, PoolAssumption DEF LookInv, Attended
  <2>. QED BY <1>1, <2>1 DEF Minded, WillLook
<1>. QED BY <1>1, <1>3 DEF Attended, InQueue

LEMMA RunAttended ==
  ASSUME CountInv, SafeInv, TaskInv, LookInv, NEW t \in Threads, RunStep(t)
  PROVE  Attended'
<1>. USE DEF CountInv
<1>1. CASE TakeNothing(t)
  BY <1>1, TakeNothingAttended
<1>2. CASE ~TakeNothing(t)
  <2>1. /\ \A u \in Threads : WillLook(u) => WillLook(u)'
        /\ pc[Caller] = "new" => Minded(AnyThread)'
        /\ ScheduleSelf(t) \/ Requeue(t) => WillLook(t)'
    BY <1>2, RunLooks DEF Minded
  <2>2. CASE Take(t)
    <3>1. PICK i \in DOMAIN m_fibers : m_fibers' = RemoveAt(m_fibers, i)
      BY <2>2 DEF Take, Eligibles
    <3>. QED BY <2>1, <3>1, TakeEntries, AttendedKeeps DEF LookInv
  <2>3. CASE ScheduleSelf(t) \/ Requeue(t)
    <3>1. PICK d \in Entry : Push(d) /\ d.thread \in {AnyThread, t}
      <4>1. CASE ScheduleSelf(t)
        <5>1. pc[t] = "body"
          BY <4>1 DEF ScheduleSelf, Suspend
        <5>2. PICK f \in Tasks : t_fiber[t] = f
          BY <5>1, RunsFiber DEF Runs
        <5>. QED BY <4>1, <5>2, Fields DEF ScheduleSelf
      <4>2. CASE Requeue(t)
        <5>1. Current(t) \in Tasks
          BY <4>2, SafeParts DEF Requeue, HandOK, Engaged
        <5>. QED BY <4>2, <5>1, Fields DEF Requeue
      <4>. QED BY <2>3, <4>1, <4>2
    <3>2. Minded(d.thread)'
      BY <2>1, <2>3, <3>1, PoolAssumption DEF Minded
    <3>. QED BY <2>1, <3>1, <3>2, PushEntries, AttendedKeeps DEF LookInv
  <2>4. CASE ~Take(t) /\ ~ScheduleSelf(t) /\ ~Requeue(t)
    <3>1. m_fibers' = m_fibers
      BY <2>4 DEF RunStep, TakeNothing, EnterFiber, EnterCallback, SwapIn, Finish, YieldToReady,
         YieldToHold, SwapOut, DecActive, SettleReady, SettleEnded, SettleHeld, IdleEnter,
         IdleCheck, IdleLeave, RunExit, queueVars
    <3>. QED BY <2>1, <3>1, AttendedKeeps DEF LookInv, InQueue
  <2>. QED BY <2>2, <2>3, <2>4
<1>. QED BY <1>1, <1>2

LEMMA OwnerAttended ==
  ASSUME CountInv, SafeInv, LookInv, Start \/ StopAtOnce \/ StopBegin \/ StopStep \/ Destroy
  PROVE  Attended'
<1>. USE DEF CountInv
<1>1. Caller \in Threads /\ m_fibers' = m_fibers /\ \A e : InQueue(e)' <=> InQueue(e)
  BY DEF Start, StopAtOnce, StopBegin, StopStep, StopFlag, StopRoot, Join, Destroy,
         queueVars, Threads, InQueue
<1>2. (UseCaller \/ \E w \in Workers : TRUE) /\ Workers \subseteq Threads
  BY PoolAssumption DEF Runners, Threads
<1>3. CASE Start
  <2>1. /\ pc' = [t \in Threads |-> IF t = Caller THEN "client" ELSE "take"]
        /\ pc[Caller] \in {"new", "stopped"}
    BY <1>3 DEF Start
  <2>2. \A u \in Threads : u # Caller \/ UseCaller => WillLook(u)'
    BY <2>1 DEF WillLook, RunPc
  <2>3. WillLook(Caller) => UseCaller
    BY <2>1 DEF WillLook, RunPc
  <2>4. Minded(AnyThread)'
    BY <1>1, <1>2, <2>2, PoolAssumption DEF Minded
  <2>5. \A u \in Threads : WillLook(u) => WillLook(u)'
    BY <2>2, <2>3
  <2>. QED BY <1>1, <2>4, <2>5, AttendedKeeps DEF LookInv
<1>4. CASE m_fibers = <<>>
  BY <1>1, <1>4 DEF Attended, InQueue
<1>5. CASE m_fibers # <<>> /\ (StopAtOnce \/ StopBegin \/ StopStep \/ Destroy)
  <2>1. /\ \A u \in Threads : u # Caller => pc'[u] = pc[u] /\ idle_fiber'[u] = idle_fiber[u]
        /\ UseCaller =>
             \/ pc'[Caller] \in {"stop1", "stop2", "take"}
             \/ pc[Caller] \in {"join", "stopped"}
        /\ ~UseCaller => pc[Caller] \notin {"new", "stop2"}
        /\ pc[Caller] \in {"new", "client", "stop1", "stop2", "join", "stopped"}
    BY <1>1, <1>5 DEF StopAtOnce, StopBegin, StopStep, StopFlag, StopRoot, Join, Destroy,
         MayStop, Stopping, Goto, TypeOK, localVars, SafeInv, OwnerOK
  <2>2. WillLook(Caller) => WillLook(Caller)'
    BY <2>1 DEF WillLook, RunPc
  <2>3. \A u \in Threads : WillLook(u) => WillLook(u)'
    BY <2>1, <2>2 DEF WillLook
  <2>4. pc[Caller] = "new" => Minded(AnyThread)'
    BY <1>1, <2>1 DEF Minded, WillLook, RunPc
  <2>. QED BY <1>1, <2>3, <2>4, AttendedKeeps DEF LookInv
<1>. QED BY <1>3, <1>4, <1>5

-----------------------------------------------------------------------------
(* Where the threads and the parked tasks are. *)

\* A step of run() changes nothing of stop()'s flags, and where a thread goes.
LEMMA RunMoves ==
  ASSUME CountInv, NEW t \in Threads, RunStep(t)
  PROVE  /\ \A u \in Threads : u # t => pc'[u] = pc[u] /\ idle_fiber'[u] = idle_fiber[u]
         /\ pc[t] \in RunPc
         /\ \/ pc'[t] \in RunPc
            \/ /\ RunExit(t) /\ idle_fiber[t] = "TERM"
               /\ pc'[t] = IF t = Caller THEN "join" ELSE "exited"
         /\ idle_fiber'[t] = "TERM" => idle_fiber[t] = "TERM" \/ Stopping
         /\ UNCHANGED <<m_stopping, m_autoStop>>
<1>. USE DEF Goto, CountInv, TypeOK, localVars, controlVars
<1>1. CASE TakeNothing(t) \/ Take(t) \/ EnterFiber(t) \/ EnterCallback(t) \/ SwapIn(t)
  BY <1>1 DEF TakeNothing, Take, EnterFiber, EnterCallback, SwapIn, RunPc
<1>2. CASE Finish(t) \/ YieldToReady(t) \/ ScheduleSelf(t) \/ YieldToHold(t) \/ SwapOut(t)
  BY <1>2 DEF Finish, YieldToReady, ScheduleSelf, YieldToHold, SwapOut, Suspend, RunPc
<1>3. CASE DecActive(t) \/ SettleReady(t) \/ Requeue(t) \/ SettleEnded(t) \/ SettleHeld(t)
  BY <1>3 DEF DecActive, SettleReady, Requeue, SettleEnded, SettleHeld, RunPc
<1>4. CASE IdleEnter(t) \/ IdleCheck(t) \/ IdleLeave(t) \/ RunExit(t)
  BY <1>4 DEF IdleEnter, IdleCheck, IdleLeave, RunExit, RunPc
<1>. QED BY <1>1, <1>2, <1>3, <1>4 DEF RunStep

LEMMA StartOKKeeps ==
  ASSUME CountInv, SafeInv, Considerate, StartOK, [Next]_vars
  PROVE  StartOK'
<1>. USE DEF CountInv
<1>0. Caller \in Threads /\ Workers \subseteq Threads /\ Caller \notin Workers
  BY PoolAssumption DEF Threads
<1>1. CASE UNCHANGED <<pc, idle_fiber, m_stopping, m_autoStop>>
  BY <1>1 DEF StartOK
<1>2. ASSUME NEW t \in Threads, RunStep(t) PROVE StartOK'
  <2>1. /\ \A u \in Threads : u # t => pc'[u] = pc[u] /\ idle_fiber'[u] = idle_fiber[u]
        /\ pc[t] \in RunPc
        /\ pc'[t] \in RunPc \/ /\ RunExit(t) /\ idle_fiber[t] = "TERM"
                               /\ pc'[t] = IF t = Caller THEN "join" ELSE "exited"
        /\ idle_fiber'[t] = "TERM" => idle_fiber[t] = "TERM" \/ Stopping
        /\ UNCHANGED <<m_stopping, m_autoStop>>
    BY <1>2, RunMoves
  <2>2. CASE t = Caller
    <3>1. pc'[Caller] \in RunPc \cup {"join"} /\ pc[Caller] \in RunPc
      BY <2>1, <2>2
    <3>. QED BY <3>1 DEF StartOK, RunPc
  <2>3. CASE t \in Workers
    <3>1. pc'[Caller] = pc[Caller] /\ pc[Caller] # "new"
      BY <1>0, <2>1, <2>3 DEF StartOK, RunPc
    <3>2. ASSUME pc[Caller] = "client"
          PROVE  \A w \in Workers : pc'[w] \in RunPc /\ idle_fiber'[w] # "TERM"
      BY <1>0, <2>1, <2>3, <3>2 DEF StartOK, Stopping
    <3>. QED BY <2>1, <3>1, <3>2 DEF StartOK
  <2>. QED BY <2>2, <2>3 DEF Threads
<1>3. CASE Start
  <2>1. /\ pc' = [t \in Threads |-> IF t = Caller THEN "client" ELSE "take"]
        /\ idle_fiber' = [t \in Threads |-> IF t = Caller THEN idle_fiber[t] ELSE "INIT"]
        /\ m_stopping' = FALSE
    BY <1>3 DEF Start
  <2>2. pc'[Caller] = "client"
    BY <1>0, <2>1
  <2>3. \A w \in Workers : pc'[w] = "take" /\ idle_fiber'[w] = "INIT"
    BY <1>0, <2>1
  <2>. QED BY <2>1, <2>2, <2>3 DEF StartOK, RunPc
<1>4. CASE StopAtOnce \/ StopBegin \/ StopStep \/ Destroy
  <2>1. /\ pc'[Caller] \in {"stop1", "stop2", "join", "stopped", "destroyed"}
           \/ (pc'[Caller] = "take" /\ UseCaller)
    BY <1>0, <1>4 DEF StopAtOnce, StopBegin, StopStep, StopFlag, StopRoot, Join, Destroy,
         Goto, TypeOK, SafeInv, OwnerOK
  <2>. QED BY <2>1 DEF StartOK, RunPc
<1>5. ASSUME NEW t \in Threads, NEW c \in Tasks, Submit(t, c) \/ Resume(t, c) PROVE StartOK'
  BY <1>1, <1>5 DEF Submit, Resume, controlVars, localVars
<1>6. ASSUME NEW f \in Tasks, Resubmit(f) PROVE StartOK'
  BY <1>1, <1>6 DEF Resubmit, controlVars, localVars
<1>7. CASE UNCHANGED vars
  BY <1>1, <1>7 DEF vars, controlVars, localVars
<1>. QED BY <1>2, <1>3, <1>4, <1>5, <1>6, <1>7 DEF Next

LEMMA LeavesLastKeeps ==
  ASSUME CountInv, SafeInv, TaskInv, Considerate, StartOK, "ready" \notin Suspends,
         LeavesLast, [Next]_vars
  PROVE  LeavesLast'
<1>. USE DEF CountInv
<1>0. /\ Caller \in Threads /\ Workers \subseteq Threads /\ Caller \notin Workers
      /\ Runners \subseteq Threads /\ (Caller \in Runners <=> UseCaller)
  BY PoolAssumption DEF Threads, Runners
<1>1. CASE Start
  <2>1. /\ pc' = [t \in Threads |-> IF t = Caller THEN "client" ELSE "take"]
        /\ idle_fiber' = [t \in Threads |-> IF t = Caller THEN idle_fiber[t] ELSE "INIT"]
        /\ UseCaller => pc[Caller] = "new"
    BY <1>1 DEF Start, Considerate
  <2>2. ASSUME NEW t \in Runners, Leaves(t)' PROVE FALSE
    <3>1. CASE t = Caller
      <4>1. ~Stopping
        BY <1>0, <2>1, <2>2, <3>1 DEF StartOK, Stopping
      <4>2. idle_fiber[t] # "TERM"
        BY <2>2, <4>1 DEF LeavesLast, Leaves
      <4>. QED BY <1>0, <2>1, <2>2, <3>1, <4>2 DEF Leaves
    <3>2. CASE t # Caller
      BY <1>0, <2>1, <2>2, <3>2 DEF Leaves
    <3>. QED BY <3>1, <3>2
  <2>. QED BY <2>2 DEF LeavesLast
<1>2. CASE ~Start
  <2>1. Stopping => Stopping'
    BY <1>2, StoppingStays
  <2>2. CASE \A t \in Runners : Leaves(t)' => Leaves(t) \/ Stopping \/ Stopping'
    BY <2>1, <2>2 DEF LeavesLast
  <2>3. CASE UNCHANGED <<pc, idle_fiber>>
    BY <2>2, <2>3 DEF Leaves
  <2>4. ASSUME NEW t \in Threads, RunStep(t) PROVE LeavesLast'
    <3>1. /\ \A u \in Threads : u # t => pc'[u] = pc[u] /\ idle_fiber'[u] = idle_fiber[u]
          /\ pc[t] \in RunPc
          /\ pc'[t] \in RunPc \/ /\ RunExit(t) /\ idle_fiber[t] = "TERM"
                                 /\ pc'[t] = IF t = Caller THEN "join" ELSE "exited"
          /\ idle_fiber'[t] = "TERM" => idle_fiber[t] = "TERM" \/ Stopping
      BY <2>4, RunMoves
    <3>2. \A u \in Threads : Leaves(u)' => Leaves(u) \/ Stopping
      BY <3>1 DEF Leaves, RunPc
    <3>. QED BY <1>0, <2>2, <3>2
  <2>5. CASE StopAtOnce \/ StopBegin \/ StopStep \/ Destroy
    <3>1. /\ \A u \in Threads : u # Caller => pc'[u] = pc[u]
          /\ idle_fiber' = idle_fiber
          /\ \/ pc'[Caller] \in {"stop1", "stop2", "take"}
             \/ Stopping' \/ Stopping \/ ~UseCaller
             \/ pc[Caller] \in {"join", "stopped"}
      BY <1>0, <2>5 DEF StopAtOnce, StopBegin, StopStep, StopFlag, StopRoot, Join, Destroy,
         Stopping, Goto, TypeOK, localVars, queueVars
    <3>2. \A u \in Runners : Leaves(u)' => Leaves(u) \/ Stopping \/ Stopping'
      BY <1>0, <3>1 DEF Leaves
    <3>. QED BY <2>2, <3>2
  <2>6. ASSUME NEW t \in Threads, NEW c \in Tasks, Submit(t, c) \/ Resume(t, c)
        PROVE  LeavesLast'
    BY <2>3, <2>6 DEF Submit, Resume, localVars
  <2>7. ASSUME NEW f \in Tasks, Resubmit(f) PROVE LeavesLast'
    BY <2>3, <2>7 DEF Resubmit, localVars
  <2>8. CASE UNCHANGED vars
    BY <2>3, <2>8 DEF vars, localVars
  <2>. QED BY <1>2, <2>4, <2>5, <2>6, <2>7, <2>8 DEF Next
<1>. QED BY <1>1, <1>2

\* Only YieldToHold parks a task, on the thread that runs it.
LEMMA HomeKeeps ==
  ASSUME CountInv, SafeInv, StartOK, [Next]_vars, NEW c \in Tasks, HomeOK(c)
  PROVE  HomeOK(c)'
<1>. USE DEF CountInv
<1>1. \A u \in Threads : pc[u] # "off" => pc'[u] # "off"
  <2>1. ASSUME NEW t \in Threads, RunStep(t) PROVE \A u \in Threads : pc[u] # "off" => pc'[u] # "off"
    BY <2>1, RunMoves DEF RunPc
  <2>2. CASE Start \/ StopAtOnce \/ StopBegin \/ StopStep \/ Destroy
    BY <2>2 DEF Start, StopAtOnce, StopBegin, StopStep, StopFlag, StopRoot, Join, Destroy,
       Goto, TypeOK
  <2>3. \/ \E t \in Threads : RunStep(t)
        \/ Start \/ StopAtOnce \/ StopBegin \/ StopStep \/ Destroy
        \/ pc' = pc
    BY DEF Next, Submit, Resume, Resubmit, vars
  <2>. QED BY <2>1, <2>2, <2>3
<1>2. CASE progress'[c] = "parked" => progress[c] = "parked" /\ home'[c] = home[c]
  BY <1>1, <1>2, PoolAssumption DEF HomeOK, Runners, Threads
<1>3. ASSUME NEW t \in Threads, pc[t] = "body" \/ pc[t] = "parking",
             NEW k, k \in Suspends, Suspend(t, k) \/ home' = home,
             progress' = progress \/
               (k = "park" /\ progress' = [progress EXCEPT ![m_callback[t_fiber[t]]] = "parked"]),
             progress' # progress => Suspend(t, k)
      PROVE  HomeOK(c)'
  <2>1. PICK f \in Tasks : Runs(t, f)
    BY <1>3, RunsFiber
  <2>2. PICK x \in Tasks : x = m_callback[t_fiber[t]] /\ progress[x] # "parked"
    BY <2>1 DEF Runs
  <2>3. \A y \in Tasks : y # x => home'[y] = home[y] /\ progress'[y] = progress[y]
    BY <1>3, <2>2 DEF Suspend, TypeOK
  <2>4. CASE c # x
    BY <1>2, <2>3, <2>4
  <2>5. CASE c = x /\ progress' = progress
    BY <2>2, <2>5 DEF HomeOK
  <2>6. CASE c = x /\ progress' # progress
    <3>1. home'[c] = t /\ "park" \in Suspends
      BY <1>3, <2>2, <2>6 DEF Suspend, TypeOK
    <3>2. t \in Runners /\ pc[t] # "off"
      BY <1>3 DEF StartOK, Runners, Threads, RunPc
    <3>. QED BY <1>1, <3>1, <3>2 DEF HomeOK
  <2>. QED BY <2>4, <2>5, <2>6
<1>4. ASSUME NEW t \in Threads, YieldToReady(t) \/ ScheduleSelf(t) \/ YieldToHold(t)
      PROVE  HomeOK(c)'
  <2>1. CASE YieldToReady(t)
    BY <1>3, <2>1 DEF YieldToReady, Suspend
  <2>2. CASE ScheduleSelf(t)
    BY <1>3, <2>2 DEF ScheduleSelf, Suspend
  <2>3. CASE YieldToHold(t) /\ Suspend(t, "park")
    BY <1>3, <2>3 DEF YieldToHold, Suspend
  <2>4. CASE YieldToHold(t) /\ progress' = progress /\ home' = home
    BY <1>2, <2>4
  <2>. QED BY <1>4, <2>1, <2>2, <2>3, <2>4 DEF YieldToHold
<1>5. ASSUME NEW t \in Threads, Finish(t) \/ SwapIn(t) PROVE HomeOK(c)'
  <2>1. home' = home
    BY <1>5 DEF Finish, SwapIn
  <2>2. progress'[c] \in {progress[c], "ended", "started"}
    BY <1>5 DEF Finish, SwapIn, TypeOK
  <2>. QED BY <1>2, <2>1, <2>2
<1>6. ASSUME NEW t \in Threads, NEW x \in Tasks, Submit(t, x) \/ Resume(t, x)
      PROVE  HomeOK(c)'
  <2>1. home' = home /\ progress'[c] \in {progress[c], "queued", "started"}
    BY <1>6 DEF Submit, Resume, TypeOK
  <2>. QED BY <1>2, <2>1
<1>7. CASE UNCHANGED taskVars
  BY <1>2, <1>7 DEF taskVars
<1>8. ASSUME NEW t \in Threads, RunStep(t) PROVE HomeOK(c)'
  BY <1>4, <1>5, <1>7, <1>8 DEF RunStep, TakeNothing, Take, EnterFiber, EnterCallback, SwapOut,
     DecActive, SettleReady, Requeue, SettleEnded, SettleHeld, IdleEnter, IdleCheck, IdleLeave,
     RunExit
<1>9. CASE Start \/ StopAtOnce \/ StopBegin \/ StopStep \/ Destroy \/ UNCHANGED vars
  BY <1>7, <1>9 DEF Start, StopAtOnce, StopBegin, StopStep, StopFlag, StopRoot, Join, Destroy, vars
<1>10. ASSUME NEW f \in Tasks, Resubmit(f) PROVE HomeOK(c)'
  BY <1>7, <1>10 DEF Resubmit
<1>. QED BY <1>6, <1>8, <1>9, <1>10 DEF Next

LEMMA LookInit ==
  ASSUME Init
  PROVE  LookInv
<1>1. Attended
  BY DEF Init, Attended, InQueue
<1>2. StartOK
  BY PoolAssumption DEF Init, StartOK, Threads, RunPc
<1>3. LeavesLast
  BY DEF Init, LeavesLast, Leaves, Runners, Threads
<1>4. \A c \in Tasks : HomeOK(c)
  BY DEF Init, HomeOK
<1>. QED BY <1>1, <1>2, <1>3, <1>4 DEF LookInv

LEMMA LookStep ==
  ASSUME CountInv, SafeInv, TaskInv, LookInv, Considerate, Deliberate, [Next]_vars
  PROVE  LookInv'
<1>1. Attended'
  <2>1. ASSUME NEW t \in Threads, NEW c \in Tasks, Submit(t, c) \/ Resume(t, c)
        PROVE  Attended'
    BY <2>1, SubmitAttended, ResumeAttended
  <2>2. ASSUME NEW f \in Tasks, Resubmit(f) PROVE Attended'
    BY <2>2 DEF Resubmit, Considerate, CountInv, TypeOK
  <2>3. ASSUME NEW t \in Threads, RunStep(t) PROVE Attended'
    BY <2>3, RunAttended
  <2>4. CASE Start \/ StopAtOnce \/ StopBegin \/ StopStep \/ Destroy
    BY <2>4, OwnerAttended
  <2>5. CASE UNCHANGED vars
    BY <2>5 DEF LookInv, vars, queueVars, localVars, Attended, InQueue, Minded, WillLook
  <2>. QED BY <2>1, <2>2, <2>3, <2>4, <2>5 DEF Next
<1>2. StartOK'
  BY StartOKKeeps DEF LookInv
<1>3. "ready" \notin Suspends => LeavesLast'
  BY LeavesLastKeeps DEF LookInv
<1>4. \A c \in Tasks : HomeOK(c)'
  BY HomeKeeps DEF LookInv
<1>. QED BY <1>1, <1>2, <1>3, <1>4 DEF LookInv

LEMMA LookInvHolds == Considerate /\ Deliberate => (Spec => []LookInv)
<1>. SUFFICES ASSUME Considerate, Deliberate PROVE Spec => []LookInv
  OBVIOUS
<1>1. (Spec => []CountInv) /\ (Spec => []SafeInv) /\ (Spec => []TaskInv)
  BY CountInvHolds, SafeInvHolds, TaskInvHolds
<1>2. CountInv /\ SafeInv /\ TaskInv /\ LookInv /\ [Next]_vars => LookInv'
  BY LookStep
<1>. QED BY <1>1, <1>2, LookInit, PTL DEF Spec

-----------------------------------------------------------------------------
(* The steps of a client's view of the scheduler. *)

\* stop() has returned.
Returned == pc[Caller] \in {"stopped", "destroyed"}

LEMMA NothingLeft ==
  ASSUME TypeOK, NothingLost, \A e \in Entry : ~InQueue(e),
         \A t \in Threads : pc[t] \notin {"enter"} \cup Engaged
  PROVE  Pool!Unfinished = {}
<1>1. \A t \in Threads, c \in Tasks : ~Holds(t, c)
  BY DEF Holds
<1>2. \A c \in Tasks : ~Open(c)
  BY <1>1 DEF NothingLost, Queued
<1>. QED BY <1>2 DEF Pool!Unfinished, Open

\* Whoever runs, or schedules, does so while stop() has not returned.
LEMMA NotReturned ==
  ASSUME CountInv, NEW t \in Threads, pc[t] \in RunPc \cup {"new", "client"}
  PROVE  ~Returned
<1>1. CASE t = Caller
  BY <1>1 DEF Returned, RunPc
<1>2. CASE t \in Workers
  BY <1>2 DEF CountInv, WorkersOK, Returned, RunPc
<1>. QED BY <1>1, <1>2 DEF Threads

LEMMA ClientPool ==
  ASSUME CountInv, SafeInv, NEW t \in Threads, NEW c \in Tasks, Submit(t, c) \/ Resume(t, c)
  PROVE  Pool!Next
<1>1. ~Returned /\ ~Returned'
  BY NotReturned DEF Submit, Resume, RunPc, Returned
<1>2. CASE Submit(t, c)
  <2>1. Pool!Submit(c)
    BY <1>1, <1>2 DEF Submit, Pool!Submit, Pool!Advance, Returned
  <2>. QED BY <2>1 DEF Pool!Next
<1>3. CASE Resume(t, c)
  <2>1. m_callback[c] \in Tasks
    BY <1>3 DEF Resume, CountInv, TypeOK
  <2>2. Pool!Resume(m_callback[c])
    BY <1>1, <1>3 DEF Resume, Pool!Resume, Pool!Advance, Returned
  <2>. QED BY <2>1, <2>2 DEF Pool!Next
<1>. QED BY <1>2, <1>3

\* A step of run() that leaves the tasks alone is none of the client's business.
LEMMA RunPool ==
  ASSUME CountInv, SafeInv, TaskInv, NEW t \in Threads, RunStep(t)
  PROVE  [Pool!Next]_(Pool!vars)
<1>1. pc[t] \in RunPc /\ pc'[Caller] \notin {"stopped", "destroyed"}
  <2>1. /\ pc[t] \in RunPc
        /\ pc'[t] \notin {"stopped", "destroyed"} /\ \A u \in Threads : u # t => pc'[u] = pc[u]
    BY DEF RunStep, Take, TakeNothing, EnterFiber, EnterCallback, SwapIn, Finish, YieldToReady,
       ScheduleSelf, YieldToHold, Suspend, SwapOut, DecActive, SettleReady, Requeue, SettleEnded,
       SettleHeld, IdleEnter, IdleCheck, IdleLeave, RunExit, Goto, CountInv, TypeOK, RunPc
  <2>2. ~Returned
    BY <2>1, NotReturned
  <2>. QED BY <2>1, <2>2 DEF Returned, Threads
<1>2. ~Returned /\ ~Returned'
  BY <1>1, NotReturned DEF Returned
<1>3. CASE progress' = progress
  BY <1>2, <1>3 DEF Pool!vars, Returned
<1>4. CASE SwapIn(t) \/ Finish(t) \/ YieldToHold(t)
  <2>. DEFINE f == t_fiber[t]  c == m_callback[f]
  <2>1. pc[t] \in {"swap", "body", "parking"}
    BY <1>4 DEF SwapIn, Finish, YieldToHold, Suspend
  <2>2. /\ f \in Tasks /\ c \in Tasks /\ StageOK(f) /\ c # Null
        /\ m_state[f] \in StateAt(pc[t])
    <3>1. /\ HandOK(t) /\ pc[t] \in Switching /\ pc[t] \in Engaged
      BY <2>1, SafeParts DEF Switching, Engaged
    <3>2. /\ f = Current(t) /\ f \in Tasks /\ m_state[f] \in StateAt(pc[t])
          /\ m_state[f] \notin Ended => c # Null
      BY <3>1 DEF HandOK
    <3>3. m_state[f] \notin Ended
      BY <2>1, <3>2 DEF StateAt, Ended, Outgoing
    <3>. QED BY <3>2, <3>3 DEF TaskInv, CountInv, TypeOK
  <2>3. CASE SwapIn(t)
    <3>1. CASE m_state[f] = "INIT"
      <4>1. progress[c] = "queued"
        BY <2>2, <3>1 DEF StageOK
      <4>2. Pool!Begin(c)
        BY <1>2, <2>3, <3>1, <4>1 DEF SwapIn, Pool!Begin, Pool!Advance, Returned
      <4>. QED BY <2>2, <4>2 DEF Pool!Next
    <3>2. CASE m_state[f] # "INIT"
      BY <1>3, <2>3, <3>2 DEF SwapIn
    <3>. QED BY <3>1, <3>2
  <2>4. pc[t] \in {"body", "parking"} => progress[c] = "started"
    BY <2>2 DEF StageOK, StateAt, Outgoing
  <2>5. CASE Finish(t)
    <3>1. Pool!End(c)
      BY <1>2, <2>4, <2>5 DEF Finish, Pool!End, Pool!Advance, Returned
    <3>. QED BY <2>2, <3>1 DEF Pool!Next
  <2>6. CASE YieldToHold(t) /\ progress' # progress
    <3>1. Pool!Park(c)
      BY <1>2, <2>4, <2>6 DEF YieldToHold, Suspend, Pool!Park, Pool!Advance, Returned
    <3>. QED BY <2>2, <3>1 DEF Pool!Next
  <2>. QED BY <1>3, <1>4, <2>3, <2>5, <2>6
<1>5. CASE ~(SwapIn(t) \/ Finish(t) \/ YieldToHold(t))
  <2>1. progress' = progress
    BY <1>5 DEF RunStep, Take, TakeNothing, EnterFiber, EnterCallback, YieldToReady,
       ScheduleSelf, SwapOut, DecActive, SettleReady, Requeue, SettleEnded,
       SettleHeld, IdleEnter, IdleCheck, IdleLeave, RunExit, taskVars
  <2>. QED BY <1>3, <2>1
<1>. QED BY <1>4, <1>5

\* stop() returns when every thread has left run(): nobody would look at an entry
\* that is left, so there is none, and nobody has a task in hand.
LEMMA StopPool ==
  ASSUME CountInv, TaskInv, LookInv, StopAtOnce \/ Join, Returned'
  PROVE  Pool!Next
<1>1. progress' = progress /\ ~Returned
  BY DEF StopAtOnce, Join, taskVars, MayStop, Returned
<1>2. TypeOK /\ NothingLost
  BY DEF CountInv, TaskInv
<1>3. /\ \A t \in Threads : pc[t] \in {"off", "exited", "new", "client", "join"}
      /\ \A e \in Entry : ~InQueue(e)
  <2>1. CASE StopAtOnce
    <3>1. m_fibers = <<>>
      BY <2>1 DEF StopAtOnce, Goto, Returned, TypeOK, CountInv, Threads
    <3>. QED BY <2>1, <3>1 DEF StopAtOnce, MayStop, Threads, InQueue
  <2>2. CASE Join
    <3>1. \A t \in Threads : pc[t] \in {"off", "exited", "join"} /\ ~WillLook(t)
      BY <2>2, PoolAssumption DEF Join, Threads, WillLook, RunPc
    <3>2. \A e \in Entry : ~Minded(e.thread)
      BY <2>2, <3>1, EntryTypes DEF Join, Minded
    <3>. QED BY <3>1, <3>2 DEF LookInv, Attended
  <2>. QED BY <2>1, <2>2
<1>4. Pool!Unfinished = {}
  BY <1>2, <1>3, NothingLeft DEF Engaged, Switching
<1>5. Pool!Stop
  BY <1>1, <1>4 DEF Pool!Stop, Returned
<1>. QED BY <1>5 DEF Pool!Next

LEMMA PoolStep ==
  ASSUME CountInv, SafeInv, TaskInv, LookInv, Considerate, [Next]_vars
  PROVE  [Pool!Next]_(Pool!vars)
<1>1. ASSUME NEW t \in Threads, NEW c \in Tasks, Submit(t, c) \/ Resume(t, c)
      PROVE  Pool!Next
  BY <1>1, ClientPool
<1>2. ASSUME NEW f \in Tasks, Resubmit(f) PROVE FALSE
  BY <1>2 DEF Resubmit, Considerate, CountInv, TypeOK
<1>3. ASSUME NEW t \in Threads, RunStep(t) PROVE [Pool!Next]_(Pool!vars)
  BY <1>3, RunPool
<1>4. CASE StopAtOnce \/ Join
  <2>1. progress' = progress /\ ~Returned
    BY <1>4 DEF StopAtOnce, Join, taskVars, MayStop, Returned
  <2>2. CASE Returned'
    BY <1>4, <2>2, StopPool
  <2>3. CASE ~Returned'
    BY <2>1, <2>3 DEF Pool!vars, Returned
  <2>. QED BY <2>2, <2>3
<1>5. CASE Start
  <2>1. progress' = progress /\ ~Returned'
    BY <1>5 DEF Start, taskVars, Returned, Threads
  <2>2. CASE Returned
    <3>1. Pool!Restart
      BY <2>1, <2>2 DEF Pool!Restart, Returned
    <3>. QED BY <3>1 DEF Pool!Next
  <2>3. CASE ~Returned
    BY <2>1, <2>3 DEF Pool!vars, Returned
  <2>. QED BY <2>2, <2>3
<1>6. CASE StopBegin \/ StopFlag \/ StopRoot
  <2>1. /\ pc[Caller] \in {"new", "client", "stop1", "stop2"} /\ Caller \in Threads
        /\ pc'[Caller] \in {"stop1", "stop2", "join", "take"}
    BY <1>6 DEF StopBegin, StopFlag, StopRoot, Goto, MayStop, CountInv, TypeOK, Threads
  <2>2. progress' = progress
    BY <1>6 DEF StopBegin, StopFlag, StopRoot, taskVars
  <2>. QED BY <2>1, <2>2 DEF Pool!vars
<1>7. CASE Destroy
  <2>1. pc[Caller] = "stopped" /\ pc'[Caller] = "destroyed" /\ progress' = progress
    BY <1>7 DEF Destroy, Goto, CountInv, TypeOK, Threads, taskVars
  <2>. QED BY <2>1 DEF Pool!vars
<1>8. CASE UNCHANGED vars
  BY <1>8 DEF vars, taskVars, Pool!vars
<1>. QED BY <1>1, <1>2, <1>3, <1>4, <1>5, <1>6, <1>7, <1>8 DEF Next, StopStep

LEMMA PoolInit ==
  ASSUME Init
  PROVE  Pool!Init
BY DEF Init, Pool!Init, Threads

-----------------------------------------------------------------------------
(* The theorems. *)

\* No entry is left for a thread that has returned from run(), or will not come to
\* it, for any number of threads and tasks.
THEOREM NotStrandedHolds == Considerate /\ Deliberate => (Spec => []NotStranded)
<1>. SUFFICES ASSUME Considerate, Deliberate PROVE Spec => []NotStranded
  OBVIOUS
<1>1. (Spec => []CountInv) /\ (Spec => []LookInv)
  BY CountInvHolds, LookInvHolds
<1>2. CountInv /\ LookInv => NotStranded
  <2>. SUFFICES ASSUME CountInv, LookInv, NEW i \in DOMAIN m_fibers,
                       m_fibers[i].thread \in Threads
                PROVE  /\ pc[m_fibers[i].thread] # "exited"
                       /\ m_fibers[i].thread = Caller =>
                            pc[m_fibers[i].thread] \notin {"join", "stopped", "destroyed"}
    BY DEF NotStranded
  <2>1. m_fibers[i] \in Entry /\ InQueue(m_fibers[i])
    BY ElementOfSeq DEF CountInv, TypeOK, InQueue
  <2>2. WillLook(m_fibers[i].thread)
    BY <2>1, PoolAssumption DEF LookInv, Attended, Minded
  <2>. QED BY <2>2 DEF WillLook, RunPc
<1>. QED BY <1>1, <1>2, PTL

\* A task runs on the thread last asked for, however often it suspends itself and
\* whoever resumes it, if no task calls YieldToReady.
THEOREM AssignedThreadOnlyHolds ==
  Considerate /\ "ready" \notin Suspends => (Spec => []AssignedThreadOnly)
<1>. SUFFICES ASSUME Considerate, "ready" \notin Suspends PROVE Spec => []AssignedThreadOnly
  OBVIOUS
<1>1. (Spec => []SafeInv) /\ (Spec => []TaskInv)
  BY SafeInvHolds, TaskInvHolds
<1>2. SafeInv /\ TaskInv => AssignedThreadOnly
  <2>. SUFFICES ASSUME SafeInv, TaskInv, NEW t \in Threads, pc[t] = "body"
                PROVE  assigned[m_callback[t_fiber[t]]] \in {AnyThread, t}
    BY DEF AssignedThreadOnly
  <2>1. t_fiber[t] = Current(t)
    BY SafeParts DEF HandOK, Switching
  <2>. QED BY <2>1 DEF TaskInv, AskedOK, Asked
<1>. QED BY <1>1, <1>2, PTL

\* The scheduler implements the abstract pool of tasks: each task is begun once,
\* ended at most once, and none is waiting or running when stop() returns.
THEOREM PoolSpecHolds == Considerate /\ Deliberate => (Spec => PoolSpec)
<1>. SUFFICES ASSUME Considerate, Deliberate PROVE Spec => PoolSpec
  OBVIOUS
<1>1. (Spec => []CountInv) /\ (Spec => []SafeInv) /\ (Spec => []TaskInv) /\ (Spec => []LookInv)
  BY CountInvHolds, SafeInvHolds, TaskInvHolds, LookInvHolds
<1>2. CountInv /\ SafeInv /\ TaskInv /\ LookInv /\ [Next]_vars => [Pool!Next]_(Pool!vars)
  BY PoolStep
<1>3. Init => Pool!Init
  BY PoolInit
<1>. QED BY <1>1, <1>2, <1>3, PTL DEF Spec, PoolSpec, Pool!Spec
=============================================================================
