------------------------ MODULE SchedulerSafetyProofs ------------------------
(* What the scheduler keeps, for any number of threads and tasks: the types  *)
(* of its variables, the exactness of its counters, and where its fibers are: *)
(* in the queue, in the hands of one thread, or with neither.  So no two      *)
(* threads run one fiber and no assertion fails, provided that tasks that     *)
(* suspend themselves are resumed on the thread that they ran on.             *)
EXTENDS Scheduler, FiniteSetTheorems, SequenceTheorems, TLAPS

Actives == {t \in Threads : pc[t] \in ActivePc}
Idles == {t \in Threads : pc[t] \in IdlePc}

\* The threads of the pool are where run() can be, and outside of it while
\* the owner is outside of start() .. stop().
WorkersOK ==
  \A w \in Workers :
    /\ pc[w] \in {"off", "exited"} \cup RunPc
    /\ pc[Caller] \in {"new", "stopped", "destroyed"} => pc[w] \in {"off",
         "exited"}

CountInv == TypeOK /\ CountersExact /\ WorkersOK

-----------------------------------------------------------------------------
(* Sequences. *)

\* What is left of a queue whose i-th entry has been erased.
LEMMA RemoveAtProperties ==
  ASSUME NEW S, NEW s \in Seq(S), NEW i \in 1 .. Len(s)
  PROVE  /\ RemoveAt(s, i) \in Seq(S)
         /\ Len(RemoveAt(s, i)) = Len(s) - 1
         /\ \A j \in 1 .. Len(s) - 1 :
              RemoveAt(s, i)[j] = IF j < i THEN s[j] ELSE s[j + 1]
<1> DEFINE before == SubSeq(s, 1, i - 1)
           after == SubSeq(s, i + 1, Len(s))
<1>1. Len(s) \in Nat /\ i \in Int /\ \A j \in 1 .. Len(s) : s[j] \in S
  BY LenProperties, ElementOfSeq
<1>2. /\ before \in Seq(S)
      /\ Len(before) = i - 1
      /\ \A j \in 1 .. i - 1 : before[j] = s[j]
  <2>1. \A j \in 1 .. i - 1 : s[j] \in S
    BY <1>1
  <2>2. /\ before \in Seq(S)
        /\ Len(before) = IF 1 <= i - 1 THEN (i - 1) - 1 + 1 ELSE 0
        /\ \A j \in 1 .. (i - 1) - 1 + 1 : before[j] = s[1 + j - 1]
    BY <1>1, <2>1, SubSeqProperties
  <2>. QED BY <1>1, <2>2
<1>3. /\ after \in Seq(S)
      /\ Len(after) = Len(s) - i
      /\ \A j \in 1 .. Len(s) - i : after[j] = s[i + j]
  <2>1. \A j \in i + 1 .. Len(s) : s[j] \in S
    BY <1>1
  <2>2. /\ after \in Seq(S)
        /\ Len(after) = IF i + 1 <= Len(s) THEN Len(s) - (i + 1) + 1 ELSE 0
        /\ \A j \in 1 .. Len(s) - (i + 1) + 1 : after[j] = s[(i + 1) + j - 1]
    BY <1>1, <2>1, SubSeqProperties
  <2>. QED BY <1>1, <2>2
<1>4. RemoveAt(s, i) = before \o after
  BY DEF RemoveAt
<1> HIDE DEF before, after
<1>5. /\ before \o after \in Seq(S)
      /\ Len(before \o after) = Len(before) + Len(after)
      /\ \A j \in 1 .. Len(before) + Len(after) :
           (before \o after)[j] = IF j <= Len(before) THEN before[j]
                                                    ELSE after[j - Len(before)]
  BY <1>2, <1>3, ConcatProperties
<1>. QED BY <1>1, <1>2, <1>3, <1>4, <1>5

-----------------------------------------------------------------------------
(* The counters. *)

LEMMA CountsFinite ==
  /\ IsFiniteSet(Actives) /\ IsFiniteSet(Idles)
  /\ Cardinality(Actives) \in Nat /\ Cardinality(Idles) \in Nat
<1>1. IsFiniteSet(Threads)
  BY PoolAssumption, FS_AddElement DEF Threads
<1>. QED BY <1>1, FS_Subset, FS_CardinalityType DEF Actives, Idles

\* A thread that moves without entering or leaving a class changes no count.
LEMMA CountsStay ==
  ASSUME CountInv, NEW t \in Threads, NEW l,
         pc' = [pc EXCEPT ![t] = l],
         pc[t] \in ActivePc <=> l \in ActivePc,
         pc[t] \in IdlePc <=> l \in IdlePc,
         UNCHANGED <<m_activeThreadCount, m_idleThreadCount>>
  PROVE  CountersExact'
<1>1. Actives' = Actives /\ Idles' = Idles
  BY DEF CountInv, TypeOK, Actives, Idles
<1>. QED BY <1>1 DEF CountInv, CountersExact, Actives, Idles

\* A thread becomes active.
LEMMA CountActive ==
  ASSUME CountInv, NEW t \in Threads, NEW l, pc' = [pc EXCEPT ![t] = l],
         pc[t] \notin ActivePc \cup IdlePc, l \in ActivePc,
         m_activeThreadCount' = m_activeThreadCount + 1,
              UNCHANGED m_idleThreadCount
  PROVE  CountersExact' /\ m_activeThreadCount' \in Nat
<1>1. Actives' = Actives \cup {t} /\ t \notin Actives /\ Idles' = Idles
  BY DEF CountInv, TypeOK, Actives, Idles, ActivePc, IdlePc
<1>2. Cardinality(Actives') = Cardinality(Actives) + 1 /\ Cardinality(Actives') \in Nat
  BY <1>1, CountsFinite, FS_AddElement, FS_CardinalityType
<1>3. m_activeThreadCount = Cardinality(Actives) /\ m_idleThreadCount = Cardinality(Idles)
  BY DEF CountInv, CountersExact, Actives, Idles
<1>4. m_activeThreadCount' = Cardinality(Actives') /\ m_idleThreadCount' = Cardinality(Idles')
  BY <1>1, <1>2, <1>3
<1>. QED BY <1>2, <1>4 DEF CountersExact, Actives, Idles

\* A thread is active no longer.
LEMMA UncountActive ==
  ASSUME CountInv, NEW t \in Threads, NEW l, pc' = [pc EXCEPT ![t] = l],
         pc[t] \in ActivePc, l \notin ActivePc \cup IdlePc,
         m_activeThreadCount' = m_activeThreadCount - 1,
              UNCHANGED m_idleThreadCount
  PROVE  CountersExact' /\ m_activeThreadCount' \in Nat
<1>1. Actives' = Actives \ {t} /\ t \in Actives /\ Idles' = Idles
  BY DEF CountInv, TypeOK, Actives, Idles, ActivePc, IdlePc
<1>2. Cardinality(Actives') = Cardinality(Actives) - 1 /\ Cardinality(Actives') \in Nat
  BY <1>1, CountsFinite, FS_RemoveElement, FS_CardinalityType
<1>3. m_activeThreadCount = Cardinality(Actives) /\ m_idleThreadCount = Cardinality(Idles)
  BY DEF CountInv, CountersExact, Actives, Idles
<1>4. m_activeThreadCount' = Cardinality(Actives') /\ m_idleThreadCount' = Cardinality(Idles')
  BY <1>1, <1>2, <1>3
<1>. QED BY <1>2, <1>4 DEF CountersExact, Actives, Idles

\* A thread becomes idle.
LEMMA CountIdle ==
  ASSUME CountInv, NEW t \in Threads, NEW l, pc' = [pc EXCEPT ![t] = l],
         pc[t] \notin ActivePc \cup IdlePc, l \in IdlePc,
         m_idleThreadCount' = m_idleThreadCount + 1, UNCHANGED m_activeThreadCount
  PROVE  CountersExact' /\ m_idleThreadCount' \in Nat
<1>1. Idles' = Idles \cup {t} /\ t \notin Idles /\ Actives' = Actives
  BY DEF CountInv, TypeOK, Actives, Idles, ActivePc, IdlePc
<1>2. Cardinality(Idles') = Cardinality(Idles) + 1 /\ Cardinality(Idles') \in Nat
  BY <1>1, CountsFinite, FS_AddElement, FS_CardinalityType
<1>3. m_idleThreadCount = Cardinality(Idles) /\ m_activeThreadCount = Cardinality(Actives)
  BY DEF CountInv, CountersExact, Actives, Idles
<1>4. m_idleThreadCount' = Cardinality(Idles') /\ m_activeThreadCount' = Cardinality(Actives')
  BY <1>1, <1>2, <1>3
<1>. QED BY <1>2, <1>4 DEF CountersExact, Actives, Idles

\* A thread is idle no longer.
LEMMA UncountIdle ==
  ASSUME CountInv, NEW t \in Threads, NEW l, pc' = [pc EXCEPT ![t] = l],
         pc[t] \in IdlePc, l \notin ActivePc \cup IdlePc,
         m_idleThreadCount' = m_idleThreadCount - 1, UNCHANGED m_activeThreadCount
  PROVE  CountersExact' /\ m_idleThreadCount' \in Nat
<1>1. Idles' = Idles \ {t} /\ t \in Idles /\ Actives' = Actives
  BY DEF CountInv, TypeOK, Actives, Idles, ActivePc, IdlePc
<1>2. Cardinality(Idles') = Cardinality(Idles) - 1 /\ Cardinality(Idles') \in Nat
  BY <1>1, CountsFinite, FS_RemoveElement, FS_CardinalityType
<1>3. m_idleThreadCount = Cardinality(Idles) /\ m_activeThreadCount = Cardinality(Actives)
  BY DEF CountInv, CountersExact, Actives, Idles
<1>4. m_idleThreadCount' = Cardinality(Idles') /\ m_activeThreadCount' = Cardinality(Actives')
  BY <1>1, <1>2, <1>3
<1>. QED BY <1>2, <1>4 DEF CountersExact, Actives, Idles

-----------------------------------------------------------------------------
(* The steps. *)

\* A step of run() by one thread keeps the pool's threads where they may be.
LEMMA WorkersStay ==
  ASSUME CountInv, NEW t \in Threads, pc[t] \in RunPc, NEW l,
         pc' = [pc EXCEPT ![t] = l],
         l \in RunPc \/ (t # Caller /\ l = "exited") \/ (t = Caller /\ l = "join")
  PROVE  WorkersOK'
BY PoolAssumption DEF CountInv, TypeOK, WorkersOK, Threads, RunPc

\* An entry of the queue has the type of an entry, and so has one that is made.
LEMMA EntryTypes ==
  /\ NoEntry \in Entry
  /\ \A f \in Tasks \cup {Null}, p \in Threads \cup {AnyThread} :
       FiberEntry(f, p) \in Entry /\ CallbackEntry(f, p) \in Entry
  /\ \A e \in Entry : /\ e.fiber \in Tasks \cup {Null}
                      /\ e.callback \in Tasks \cup {Null}
                      /\ e.thread \in Threads \cup {AnyThread}
BY DEF Entry, NoEntry, FiberEntry, CallbackEntry

LEMMA PushType ==
  ASSUME TypeOK, NEW f \in Tasks \cup {Null}, NEW p \in Threads \cup {AnyThread}
  PROVE  /\ Push(FiberEntry(f, p)) => m_fibers' \in Seq(Entry)
         /\ Push(CallbackEntry(f, p)) => m_fibers' \in Seq(Entry)
<1>1. m_fibers \in Seq(Entry)
  BY DEF TypeOK
<1>2. FiberEntry(f, p) \in Entry /\ CallbackEntry(f, p) \in Entry
  BY EntryTypes
<1>. QED BY <1>1, <1>2, AppendProperties DEF Push

\* The bound on the suspensions of a task is kept.
LEMMA SuspendTypes ==
  ASSUME CountInv, NEW t \in Threads, NEW kind, Suspend(t, kind)
  PROVE  /\ suspends' \in [Tasks -> 0 .. MaxSuspends]
         /\ home' \in [Tasks -> Threads \cup {AnyThread}]
<1> DEFINE c == m_callback[t_fiber[t]]
<1>1. CASE c \in Tasks
  <2>1. suspends[c] \in 0 .. MaxSuspends /\ suspends[c] < MaxSuspends
    BY <1>1 DEF CountInv, TypeOK, Suspend
  <2>2. suspends[c] + 1 \in 0 .. MaxSuspends
    BY <2>1, ClientAssumption
  <2>. QED BY <1>1, <2>2 DEF CountInv, TypeOK, Suspend
<1>2. CASE c \notin Tasks
  BY <1>2 DEF CountInv, TypeOK, Suspend
<1>. QED BY <1>1, <1>2

LEMMA CurrentType ==
  ASSUME TypeOK, NEW t \in Threads
  PROVE  Current(t) \in Tasks \cup {Null}
BY EntryTypes DEF TypeOK, Current

\* One lemma for each step of run().

LEMMA TakeStep ==
  ASSUME CountInv, NEW t \in Threads, Take(t)
  PROVE  CountInv'
<1>1. TypeOK'
  <2>1. PICK i \in DOMAIN m_fibers :
          /\ fiberAndThread' = [fiberAndThread EXCEPT ![t] = m_fibers[i]]
          /\ m_fibers' = RemoveAt(m_fibers, i)
    BY DEF Take, Eligibles
  <2>2. m_fibers \in Seq(Entry) /\ i \in 1 .. Len(m_fibers)
    BY <2>1, LenProperties DEF CountInv, TypeOK
  <2>3. m_fibers' \in Seq(Entry) /\ m_fibers[i] \in Entry
    BY <2>1, <2>2, RemoveAtProperties, ElementOfSeq
  <2>. QED BY <2>1, <2>3 DEF CountInv, TypeOK, Take, Goto, Check, queueVars,
       controlVars, fiberVars, localVars, taskVars, RunPc
<1>2. CountersExact'
  BY CountActive DEF Take, Goto, queueVars, controlVars, fiberVars, localVars,
       taskVars, ActivePc, IdlePc
<1>3. WorkersOK'
  BY WorkersStay DEF Take, Goto, RunPc
<1>. QED BY <1>1, <1>2, <1>3 DEF CountInv

LEMMA TakeNothingStep ==
  ASSUME CountInv, NEW t \in Threads, TakeNothing(t)
  PROVE  CountInv'
<1>1. TypeOK'
  BY DEF CountInv, TypeOK, TakeNothing, Goto, Check, queueVars, controlVars,
       fiberVars, localVars, taskVars, RunPc
<1>2. CountersExact'
  BY CountsStay DEF TakeNothing, Goto, queueVars, controlVars, fiberVars,
       localVars, taskVars, ActivePc, IdlePc
<1>3. WorkersOK'
  BY WorkersStay DEF TakeNothing, Goto, RunPc
<1>. QED BY <1>1, <1>2, <1>3 DEF CountInv

LEMMA EnterFiberStep ==
  ASSUME CountInv, NEW t \in Threads, EnterFiber(t)
  PROVE  CountInv'
<1>1. TypeOK'
  BY EntryTypes DEF CountInv, TypeOK, EnterFiber, Goto, Check, queueVars,
       controlVars, fiberVars, localVars, taskVars, RunPc
<1>2. CountersExact'
  BY CountsStay DEF EnterFiber, Goto, queueVars, controlVars, fiberVars,
       localVars, taskVars, ActivePc, IdlePc
<1>3. WorkersOK'
  BY WorkersStay DEF EnterFiber, Goto, RunPc
<1>. QED BY <1>1, <1>2, <1>3 DEF CountInv

LEMMA EnterCallbackStep ==
  ASSUME CountInv, NEW t \in Threads, EnterCallback(t)
  PROVE  CountInv'
<1>1. TypeOK'
  <2> DEFINE c == fiberAndThread[t].callback
             f == IF callback_fiber[t] = Null THEN c ELSE callback_fiber[t]
  <2>1. c \in Tasks \cup {Null} /\ f \in Tasks \cup {Null}
    BY EntryTypes DEF CountInv, TypeOK
  <2>2. /\ m_state' = [m_state EXCEPT ![f] = "INIT"]
        /\ m_callback' = [m_callback EXCEPT ![f] = c]
        /\ failed' \in {failed, "reset"}
    BY DEF EnterCallback, NewFiber, Reset, Check
  <2>3. /\ callback_fiber' = [callback_fiber EXCEPT ![t] = f]
        /\ t_fiber' = [t_fiber EXCEPT ![t] = f]
    BY DEF EnterCallback
  <2> HIDE DEF c, f
  <2>4. /\ m_state' \in [Tasks -> FiberState]
        /\ m_callback' \in [Tasks -> Tasks \cup {Null}]
        /\ failed' \in {"none", "m_mutex", "swapIn", "reset", "MainFunc",
             "CallerMainFunc", "~Scheduler"}
        /\ callback_fiber' \in [Threads -> Tasks \cup {Null}]
        /\ t_fiber' \in [Threads -> Tasks \cup {Null}]
    BY <2>1, <2>2, <2>3 DEF CountInv, TypeOK, FiberState
  <2>. QED BY <2>4, EntryTypes DEF CountInv, TypeOK, EnterCallback, Goto, Check,
       queueVars, controlVars, fiberVars, localVars, taskVars, RunPc
<1>2. CountersExact'
  BY CountsStay DEF EnterCallback, Goto, queueVars, controlVars, fiberVars,
       localVars, taskVars, ActivePc, IdlePc
<1>3. WorkersOK'
  BY WorkersStay DEF EnterCallback, Goto, RunPc
<1>. QED BY <1>1, <1>2, <1>3 DEF CountInv

LEMMA SwapInStep ==
  ASSUME CountInv, NEW t \in Threads, SwapIn(t)
  PROVE  CountInv'
<1>1. TypeOK'
  BY DEF CountInv, TypeOK, SwapIn, Goto, Check, queueVars, controlVars,
       fiberVars, localVars, taskVars, RunPc, FiberState
<1>2. CountersExact'
  BY CountsStay DEF SwapIn, Goto, queueVars, controlVars, fiberVars, localVars,
       taskVars, ActivePc, IdlePc
<1>3. WorkersOK'
  BY WorkersStay DEF SwapIn, Goto, RunPc
<1>. QED BY <1>1, <1>2, <1>3 DEF CountInv

LEMMA FinishStep ==
  ASSUME CountInv, NEW t \in Threads, Finish(t)
  PROVE  CountInv'
<1>1. TypeOK'
  BY DEF CountInv, TypeOK, Finish, Goto, Check, queueVars, controlVars,
       fiberVars, localVars, taskVars, RunPc, FiberState
<1>2. CountersExact'
  BY CountsStay DEF Finish, Goto, queueVars, controlVars, fiberVars, localVars,
       taskVars, ActivePc, IdlePc
<1>3. WorkersOK'
  BY WorkersStay DEF Finish, Goto, RunPc
<1>. QED BY <1>1, <1>2, <1>3 DEF CountInv

LEMMA YieldToReadyStep ==
  ASSUME CountInv, NEW t \in Threads, YieldToReady(t)
  PROVE  CountInv'
<1>1. TypeOK'
  BY SuspendTypes DEF CountInv, TypeOK, YieldToReady, Goto, Check, queueVars,
       controlVars, fiberVars, localVars, taskVars, RunPc, FiberState
<1>2. CountersExact'
  BY CountsStay DEF YieldToReady, Suspend, Goto, queueVars, controlVars,
       fiberVars, localVars, taskVars, ActivePc, IdlePc
<1>3. WorkersOK'
  BY WorkersStay DEF YieldToReady, Suspend, Goto, RunPc
<1>. QED BY <1>1, <1>2, <1>3 DEF CountInv

LEMMA ScheduleSelfStep ==
  ASSUME CountInv, NEW t \in Threads, ScheduleSelf(t)
  PROVE  CountInv'
<1>1. TypeOK'
  <2>1. m_fibers' \in Seq(Entry)
    BY PushType DEF CountInv, TypeOK, ScheduleSelf
  <2>. QED BY <2>1, SuspendTypes DEF CountInv, TypeOK, ScheduleSelf, Goto, Check,
       queueVars, controlVars, fiberVars, localVars, taskVars, RunPc
<1>2. CountersExact'
  BY CountsStay DEF ScheduleSelf, Suspend, Goto, queueVars, controlVars,
       fiberVars, localVars, taskVars, ActivePc, IdlePc
<1>3. WorkersOK'
  BY WorkersStay DEF ScheduleSelf, Suspend, Goto, RunPc
<1>. QED BY <1>1, <1>2, <1>3 DEF CountInv

LEMMA YieldToHoldStep ==
  ASSUME CountInv, NEW t \in Threads, YieldToHold(t)
  PROVE  CountInv'
<1>1. TypeOK'
  BY SuspendTypes DEF CountInv, TypeOK, YieldToHold, Goto, Check, queueVars,
       controlVars, fiberVars, localVars, taskVars, RunPc, FiberState
<1>2. CountersExact'
  BY CountsStay DEF YieldToHold, Suspend, Goto, queueVars, controlVars,
       fiberVars, localVars, taskVars, ActivePc, IdlePc
<1>3. WorkersOK'
  BY WorkersStay DEF YieldToHold, Suspend, Goto, RunPc
<1>. QED BY <1>1, <1>2, <1>3 DEF CountInv

LEMMA SwapOutStep ==
  ASSUME CountInv, NEW t \in Threads, SwapOut(t)
  PROVE  CountInv'
<1>1. TypeOK'
  BY DEF CountInv, TypeOK, SwapOut, Goto, Check, queueVars, controlVars,
       fiberVars, localVars, taskVars, RunPc
<1>2. CountersExact'
  BY CountsStay DEF SwapOut, Goto, queueVars, controlVars, fiberVars, localVars,
       taskVars, ActivePc, IdlePc
<1>3. WorkersOK'
  BY WorkersStay DEF SwapOut, Goto, RunPc
<1>. QED BY <1>1, <1>2, <1>3 DEF CountInv

LEMMA DecActiveStep ==
  ASSUME CountInv, NEW t \in Threads, DecActive(t)
  PROVE  CountInv'
<1>1. TypeOK'
  <2>1. m_activeThreadCount' \in Nat
    BY UncountActive DEF DecActive, Goto, ActivePc, IdlePc
  <2>. QED BY <2>1 DEF CountInv, TypeOK, DecActive, Goto, Check, queueVars,
       controlVars, fiberVars, localVars, taskVars, RunPc
<1>2. CountersExact'
  BY UncountActive DEF DecActive, Goto, queueVars, controlVars, fiberVars,
       localVars, taskVars, ActivePc, IdlePc
<1>3. WorkersOK'
  BY WorkersStay DEF DecActive, Goto, RunPc
<1>. QED BY <1>1, <1>2, <1>3 DEF CountInv

LEMMA SettleReadyStep ==
  ASSUME CountInv, NEW t \in Threads, SettleReady(t)
  PROVE  CountInv'
<1>1. TypeOK'
  BY DEF CountInv, TypeOK, SettleReady, Goto, Check, queueVars, controlVars,
       fiberVars, localVars, taskVars, RunPc
<1>2. CountersExact'
  BY CountsStay DEF SettleReady, Goto, queueVars, controlVars, fiberVars,
       localVars, taskVars, ActivePc, IdlePc
<1>3. WorkersOK'
  BY WorkersStay DEF SettleReady, Goto, RunPc
<1>. QED BY <1>1, <1>2, <1>3 DEF CountInv

LEMMA RequeueStep ==
  ASSUME CountInv, NEW t \in Threads, Requeue(t)
  PROVE  CountInv'
<1>1. TypeOK'
  <2>1. m_fibers' \in Seq(Entry)
    BY PushType, CurrentType DEF CountInv, Requeue
  <2>. QED BY <2>1, EntryTypes DEF CountInv, TypeOK, Requeue, Goto, Check,
       queueVars, controlVars, fiberVars, localVars, taskVars, RunPc, Drop
<1>2. CountersExact'
  BY CountsStay DEF Requeue, Goto, queueVars, controlVars, fiberVars, localVars,
       taskVars, ActivePc, IdlePc
<1>3. WorkersOK'
  BY WorkersStay DEF Requeue, Goto, RunPc
<1>. QED BY <1>1, <1>2, <1>3 DEF CountInv

LEMMA SettleEndedStep ==
  ASSUME CountInv, NEW t \in Threads, SettleEnded(t)
  PROVE  CountInv'
<1>1. TypeOK'
  BY EntryTypes DEF CountInv, TypeOK, SettleEnded, Goto, Check, queueVars,
       controlVars, fiberVars, localVars, taskVars, RunPc, NewFiber, Reset,
            FiberState
<1>2. CountersExact'
  BY CountsStay DEF SettleEnded, Goto, queueVars, controlVars, fiberVars,
       localVars, taskVars, ActivePc, IdlePc
<1>3. WorkersOK'
  BY WorkersStay DEF SettleEnded, Goto, RunPc
<1>. QED BY <1>1, <1>2, <1>3 DEF CountInv

LEMMA SettleHeldStep ==
  ASSUME CountInv, NEW t \in Threads, SettleHeld(t)
  PROVE  CountInv'
<1>1. TypeOK'
  BY EntryTypes DEF CountInv, TypeOK, SettleHeld, Goto, Check, queueVars,
       controlVars, fiberVars, localVars, taskVars, RunPc, Drop, FiberState
<1>2. CountersExact'
  BY CountsStay DEF SettleHeld, Goto, queueVars, controlVars, fiberVars,
       localVars, taskVars, ActivePc, IdlePc
<1>3. WorkersOK'
  BY WorkersStay DEF SettleHeld, Goto, RunPc
<1>. QED BY <1>1, <1>2, <1>3 DEF CountInv

LEMMA IdleEnterStep ==
  ASSUME CountInv, NEW t \in Threads, IdleEnter(t)
  PROVE  CountInv'
<1>1. TypeOK'
  BY DEF CountInv, TypeOK, IdleEnter, Goto, Check, queueVars, controlVars,
       fiberVars, localVars, taskVars, RunPc
<1>2. CountersExact'
  BY CountIdle DEF IdleEnter, Goto, queueVars, controlVars, fiberVars, localVars,
       taskVars, ActivePc, IdlePc
<1>3. WorkersOK'
  BY WorkersStay DEF IdleEnter, Goto, RunPc
<1>. QED BY <1>1, <1>2, <1>3 DEF CountInv

LEMMA IdleCheckStep ==
  ASSUME CountInv, NEW t \in Threads, IdleCheck(t)
  PROVE  CountInv'
<1>1. TypeOK'
  BY DEF CountInv, TypeOK, IdleCheck, Goto, Check, queueVars, controlVars,
       fiberVars, localVars, taskVars, RunPc
<1>2. CountersExact'
  BY CountsStay DEF IdleCheck, Goto, queueVars, controlVars, fiberVars,
       localVars, taskVars, ActivePc, IdlePc
<1>3. WorkersOK'
  BY WorkersStay DEF IdleCheck, Goto, RunPc
<1>. QED BY <1>1, <1>2, <1>3 DEF CountInv

LEMMA IdleLeaveStep ==
  ASSUME CountInv, NEW t \in Threads, IdleLeave(t)
  PROVE  CountInv'
<1>1. TypeOK'
  <2>1. m_idleThreadCount' \in Nat
    BY UncountIdle DEF IdleLeave, Goto, ActivePc, IdlePc
  <2>. QED BY <2>1 DEF CountInv, TypeOK, IdleLeave, Goto, Check, queueVars,
       controlVars, fiberVars, localVars, taskVars, RunPc
<1>2. CountersExact'
  BY UncountIdle DEF IdleLeave, Goto, queueVars, controlVars, fiberVars,
       localVars, taskVars, ActivePc, IdlePc
<1>3. WorkersOK'
  BY WorkersStay DEF IdleLeave, Goto, RunPc
<1>. QED BY <1>1, <1>2, <1>3 DEF CountInv

LEMMA RunExitStep ==
  ASSUME CountInv, NEW t \in Threads, RunExit(t)
  PROVE  CountInv'
<1>1. TypeOK'
  BY DEF CountInv, TypeOK, RunExit, Goto, Check, queueVars, controlVars,
       fiberVars, localVars, taskVars, RunPc, OwnerPc
<1>2. CountersExact'
  BY CountsStay DEF RunExit, Goto, queueVars, controlVars, fiberVars, localVars,
       taskVars, ActivePc, IdlePc
<1>3. WorkersOK'
  BY WorkersStay DEF RunExit, Goto, RunPc
<1>. QED BY <1>1, <1>2, <1>3 DEF CountInv

-----------------------------------------------------------------------------
(* Clients: the program counters do not move. *)

LEMMA PcStays ==
  ASSUME CountInv, UNCHANGED <<pc, m_activeThreadCount, m_idleThreadCount>>
  PROVE  CountersExact' /\ WorkersOK'
<1>1. Actives' = Actives /\ Idles' = Idles
  BY DEF Actives, Idles
<1>. QED BY <1>1 DEF CountInv, CountersExact, WorkersOK, Actives, Idles

LEMMA SubmitStep ==
  ASSUME CountInv, NEW t \in Threads, NEW c \in Tasks, Submit(t, c)
  PROVE  CountInv'
<1>1. TypeOK'
  <2>1. PICK p \in Pins(t) :
          /\ assigned' = [assigned EXCEPT ![c] = p]
          /\ \/ Push(CallbackEntry(c, p)) /\ UNCHANGED fiberVars
             \/ Push(FiberEntry(c, p)) /\ NewFiber(c, c)
    BY DEF Submit
  <2>2. p \in Threads \cup {AnyThread}
    BY DEF Pins, Runners, Threads
  <2>3. m_fibers' \in Seq(Entry)
    BY <2>1, <2>2, EntryTypes, PushType DEF CountInv
  <2>4. /\ m_state' \in [Tasks -> FiberState]
        /\ m_callback' \in [Tasks -> Tasks \cup {Null}]
    <3>1. CASE UNCHANGED fiberVars
      BY <3>1 DEF fiberVars, CountInv, TypeOK
    <3>2. CASE NewFiber(c, c)
      BY <3>2 DEF NewFiber, CountInv, TypeOK, FiberState
    <3>. QED BY <2>1, <3>1, <3>2
  <2>. QED BY <2>1, <2>2, <2>3, <2>4
       DEF CountInv, TypeOK, Submit, controlVars, localVars
<1>2. CountersExact' /\ WorkersOK'
  BY PcStays DEF Submit
<1>. QED BY <1>1, <1>2 DEF CountInv

LEMMA ResumeStep ==
  ASSUME CountInv, NEW t \in Threads, NEW f \in Tasks, Resume(t, f)
  PROVE  CountInv'
<1>1. TypeOK'
  <2> DEFINE c == m_callback[f]
             p == IF HomePinned THEN home[c] ELSE AnyThread
  <2>1. c \in Tasks /\ p \in Threads \cup {AnyThread}
    BY DEF CountInv, TypeOK, Resume
  <2>2. m_fibers' \in Seq(Entry)
    BY <2>1, EntryTypes, PushType DEF CountInv, Resume
  <2>3. /\ progress' = [progress EXCEPT ![c] = "started"]
        /\ assigned' = [assigned EXCEPT ![c] = p]
    BY DEF Resume
  <2> HIDE DEF c, p
  <2>. QED BY <2>1, <2>2, <2>3
       DEF CountInv, TypeOK, Resume, controlVars, fiberVars, localVars
<1>2. CountersExact' /\ WorkersOK'
  BY PcStays DEF Resume
<1>. QED BY <1>1, <1>2 DEF CountInv

LEMMA ResubmitStep ==
  ASSUME CountInv, NEW f \in Tasks, Resubmit(f)
  PROVE  CountInv'
<1>1. TypeOK'
  <2>1. m_fibers' \in Seq(Entry)
    BY EntryTypes, PushType DEF CountInv, Resubmit
  <2>2. resubmits' \in 0 .. MaxResubmits
    BY ClientAssumption DEF CountInv, TypeOK, Resubmit
  <2>. QED BY <2>1, <2>2
       DEF CountInv, TypeOK, Resubmit, controlVars, fiberVars, localVars, taskVars
<1>2. CountersExact' /\ WorkersOK'
  BY PcStays DEF Resubmit
<1>. QED BY <1>1, <1>2 DEF CountInv

-----------------------------------------------------------------------------
(* The owner. *)

\* A step of the owner outside of run(); the pool's threads have ended when
\* it leaves stop().
LEMMA OwnerMoves ==
  ASSUME CountInv, NEW l, pc' = [pc EXCEPT ![Caller] = l],
         pc[Caller] \in OwnerPc, l \in OwnerPc \cup {"take"},
         \/ l \notin {"new", "stopped", "destroyed"}
         \/ \A w \in Workers : pc[w] \in {"off", "exited"},
         UNCHANGED <<m_activeThreadCount, m_idleThreadCount>>
  PROVE  CountersExact' /\ WorkersOK' /\ pc' \in [Threads -> {"off",
       "exited"} \cup RunPc \cup OwnerPc]
<1>1. Caller \in Threads /\ Caller \notin Workers /\ Workers \subseteq Threads
  BY PoolAssumption DEF Threads
<1>2. CountersExact'
  BY <1>1, CountsStay DEF OwnerPc, ActivePc, IdlePc
<1>3. WorkersOK'
  BY <1>1 DEF CountInv, TypeOK, WorkersOK
<1>4. pc' \in [Threads -> {"off", "exited"} \cup RunPc \cup OwnerPc]
  BY <1>1 DEF CountInv, TypeOK, RunPc
<1>. QED BY <1>2, <1>3, <1>4

LEMMA StartStep ==
  ASSUME CountInv, Start
  PROVE  CountInv'
<1>1. TypeOK'
  <2>1. failed' \in {failed, "m_mutex"}
    BY DEF Start, UnlockAgain
  <2>. QED BY <2>1 DEF CountInv, TypeOK, Start, queueVars, fiberVars, taskVars, RunPc, OwnerPc
<1>2. Actives = {} /\ Actives' = {} /\ Idles = {} /\ Idles' = {}
  BY DEF CountInv, TypeOK, WorkersOK, Start, Actives, Idles, ActivePc, IdlePc,
       Threads
<1>3. CountersExact'
  BY <1>2 DEF CountInv, CountersExact, Actives, Idles, Start, queueVars
<1>4. WorkersOK'
  BY PoolAssumption DEF CountInv, TypeOK, WorkersOK, Start, Threads, RunPc
<1>. QED BY <1>1, <1>3, <1>4 DEF CountInv

LEMMA StopAtOnceStep ==
  ASSUME CountInv, StopAtOnce
  PROVE  CountInv'
<1>1. CountersExact' /\ WorkersOK' /\ pc' \in [Threads -> {"off", "exited"}
     \cup RunPc \cup OwnerPc]
  BY OwnerMoves DEF StopAtOnce, MayStop, Goto, OwnerPc, queueVars
<1>2. TypeOK'
  BY <1>1 DEF CountInv, TypeOK, StopAtOnce, Goto, Check, queueVars, controlVars,
       fiberVars, localVars, taskVars
<1>. QED BY <1>1, <1>2 DEF CountInv

LEMMA StopBeginStep ==
  ASSUME CountInv, StopBegin
  PROVE  CountInv'
<1>1. CountersExact' /\ WorkersOK' /\ pc' \in [Threads -> {"off", "exited"}
     \cup RunPc \cup OwnerPc]
  BY OwnerMoves DEF StopBegin, MayStop, Goto, OwnerPc, queueVars
<1>2. TypeOK'
  BY <1>1 DEF CountInv, TypeOK, StopBegin, Goto, Check, queueVars, controlVars,
       fiberVars, localVars, taskVars
<1>. QED BY <1>1, <1>2 DEF CountInv

LEMMA StopFlagStep ==
  ASSUME CountInv, StopFlag
  PROVE  CountInv'
<1>1. CountersExact' /\ WorkersOK' /\ pc' \in [Threads -> {"off", "exited"}
     \cup RunPc \cup OwnerPc]
  BY OwnerMoves DEF StopFlag, Goto, OwnerPc, queueVars
<1>2. TypeOK'
  BY <1>1 DEF CountInv, TypeOK, StopFlag, Goto, Check, queueVars, controlVars,
       fiberVars, localVars, taskVars
<1>. QED BY <1>1, <1>2 DEF CountInv

LEMMA StopRootStep ==
  ASSUME CountInv, StopRoot
  PROVE  CountInv'
<1>1. CountersExact' /\ WorkersOK' /\ pc' \in [Threads -> {"off", "exited"}
     \cup RunPc \cup OwnerPc]
  BY OwnerMoves DEF StopRoot, Goto, OwnerPc, queueVars
<1>2. TypeOK'
  BY <1>1 DEF CountInv, TypeOK, StopRoot, Goto, Check, queueVars, controlVars,
       fiberVars, localVars, taskVars
<1>. QED BY <1>1, <1>2 DEF CountInv

LEMMA JoinStep ==
  ASSUME CountInv, Join
  PROVE  CountInv'
<1>1. CountersExact' /\ WorkersOK' /\ pc' \in [Threads -> {"off", "exited"}
     \cup RunPc \cup OwnerPc]
  BY OwnerMoves DEF Join, Goto, OwnerPc, queueVars
<1>2. TypeOK'
  BY <1>1 DEF CountInv, TypeOK, Join, Goto, Check, queueVars, controlVars,
       fiberVars, localVars, taskVars
<1>. QED BY <1>1, <1>2 DEF CountInv

LEMMA DestroyStep ==
  ASSUME CountInv, Destroy
  PROVE  CountInv'
<1>1. CountersExact' /\ WorkersOK' /\ pc' \in [Threads -> {"off", "exited"}
     \cup RunPc \cup OwnerPc]
  BY OwnerMoves DEF Destroy, WorkersOK, CountInv, Goto, OwnerPc, queueVars
<1>2. TypeOK'
  BY <1>1 DEF CountInv, TypeOK, Destroy, Goto, Check, queueVars, controlVars,
       fiberVars, localVars, taskVars
<1>. QED BY <1>1, <1>2 DEF CountInv

-----------------------------------------------------------------------------
(* The theorems. *)

LEMMA CountInit ==
  ASSUME Init
  PROVE  CountInv
<1>1. TypeOK
  <2>1. m_fibers \in Seq(Entry) /\ fiberAndThread \in [Threads -> Entry]
    BY EntryTypes, EmptySeq DEF Init
  <2>2. suspends \in [Tasks -> 0 .. MaxSuspends] /\ resubmits \in 0 .. MaxResubmits
    BY ClientAssumption DEF Init
  <2>3. /\ pc \in [Threads -> {"off", "exited"} \cup RunPc \cup OwnerPc]
        /\ m_rootFiber \in {"NONE", "INIT", "EXEC", "TERM"}
        /\ m_state \in [Tasks -> FiberState]
        /\ m_activeThreadCount \in Nat
        /\ m_idleThreadCount \in Nat
    BY DEF Init, RunPc, OwnerPc, FiberState
  <2>. QED BY <2>1, <2>2, <2>3 DEF Init, TypeOK
<1>2. Actives = {} /\ Idles = {}
  BY DEF Init, Actives, Idles, ActivePc, IdlePc
<1>3. CountersExact
  BY <1>2, FS_EmptySet DEF Init, CountersExact, Actives, Idles
<1>4. WorkersOK
  BY PoolAssumption DEF Init, WorkersOK, Threads
<1>. QED BY <1>1, <1>3, <1>4 DEF CountInv

LEMMA CountStep ==
  ASSUME CountInv, [Next]_vars
  PROVE  CountInv'
<1>1. ASSUME NEW t \in Threads, NEW c \in Tasks, Submit(t, c) \/ Resume(t, c)
      PROVE  CountInv'
  BY <1>1, SubmitStep, ResumeStep
<1>2. ASSUME NEW f \in Tasks, Resubmit(f) PROVE CountInv'
  BY <1>2, ResubmitStep
<1>3. ASSUME NEW t \in Threads, RunStep(t) PROVE CountInv'
  BY <1>3, TakeStep, TakeNothingStep, EnterFiberStep, EnterCallbackStep,
       SwapInStep,
     FinishStep, YieldToReadyStep, ScheduleSelfStep, YieldToHoldStep, SwapOutStep,
     DecActiveStep, SettleReadyStep, RequeueStep, SettleEndedStep, SettleHeldStep,
     IdleEnterStep, IdleCheckStep, IdleLeaveStep, RunExitStep DEF RunStep
<1>4. CASE Start \/ StopAtOnce \/ StopBegin \/ StopStep \/ Destroy
  BY <1>4, StartStep, StopAtOnceStep, StopBeginStep, StopFlagStep, StopRootStep,
     JoinStep, DestroyStep DEF StopStep
<1>5. CASE UNCHANGED vars
  <2>1. CountersExact' /\ WorkersOK'
    BY <1>5, PcStays DEF vars, queueVars
  <2>2. TypeOK'
    BY <1>5 DEF CountInv, TypeOK, vars, queueVars, controlVars, fiberVars,
         localVars, taskVars
  <2>. QED BY <2>1, <2>2 DEF CountInv
<1>. QED BY <1>1, <1>2, <1>3, <1>4, <1>5 DEF Next

THEOREM CountInvHolds == Spec => []CountInv
BY CountInit, CountStep, PTL DEF Spec

\* The variables of the scheduler keep their types, for any number of threads
\* and tasks: in particular no counter goes below zero and wraps around.
THEOREM TypesHold == Spec => []TypeOK
BY CountInvHolds, PTL DEF CountInv

\* The counters that stopping() relies on are exact, for any number of
\* threads and tasks and whatever the tasks do.
THEOREM CountersExactHolds == Spec => []CountersExact
BY CountInvHolds, PTL DEF CountInv

-----------------------------------------------------------------------------
(* Fibers. *)

\* What the owner and the tasks must not do: suspend a fiber that another thread
\* may resume before its context is saved, schedule a fiber twice, run the root
\* fiber twice.
Considerate ==
  /\ HomePinned \/ Suspends \subseteq {"ready"}
  /\ MaxResubmits = 0
  /\ ~(UseCaller /\ Restarts)

\* Where a thread is that has switched into a fiber, or is about to; that has a
\* current fiber; and that leaves one.
Switching == {"swap", "body", "parking", "leave"}
Engaged   == Switching \cup {"left", "settle", "requeue"}
Outgoing  == {"leave", "left", "settle"}

\* Thread t refers to fiber f from within run().
Has(t, f) == f = fiberAndThread[t].fiber \/ f = callback_fiber[t]

\* A callback that is scheduled and has no fiber yet.
Unused(c) ==
  /\ c \in Tasks
  /\ m_state[c] = "NONE"
  /\ progress[c] = "queued"
  /\ \A g \in Tasks : m_callback[g] # c

\* A fiber that is scheduled for thread p: no thread has it, or p, which is about
\* to leave it for good.
Waiting(f, p) ==
  /\ f \in Tasks
  /\ m_state[f] \in {"INIT", "HOLD", "READY", "EXEC"}
  /\ m_callback[f] # Null
  /\ progress[m_callback[f]] # "parked"
  /\ \A t \in Threads : Has(t, f) =>
       /\ t = p
       /\ f = Current(t)
       /\ pc[t] = "parking" \/ (pc[t] \in Outgoing /\ m_state[f] = "HOLD")

EntryOK(e) ==
  \/ /\ e.fiber = Null /\ Unused(e.callback)
     /\ \A t \in Threads : fiberAndThread[t].callback # e.callback
  \/ e.callback = Null /\ Waiting(e.fiber, e.thread)

\* No callback and no fiber is scheduled twice.
Distinct(e, d) ==
  /\ e.fiber # Null => e.fiber # d.fiber
  /\ e.callback # Null => e.callback # d.callback

QueueOK ==
  /\ \A i \in DOMAIN m_fibers : EntryOK(m_fibers[i])
  /\ \A i, j \in DOMAIN m_fibers : i # j => Distinct(m_fibers[i], m_fibers[j])

\* The state of the fiber a thread is engaged with.
StateAt(label) ==
  CASE label \in {"enter", "swap"}   -> {"INIT", "HOLD", "READY"}
    [] label \in {"body", "parking"} -> {"EXEC"}
    [] label \in Outgoing            -> {"HOLD", "READY", "TERM", "EXCEPT"}
    [] label = "requeue"             -> {"READY"}
    [] OTHER                         -> {}

HandOK(t) ==
  LET e == fiberAndThread[t] IN
  /\ pc[t] = "enter" =>
       \/ e.fiber = Null /\ Unused(e.callback)
       \/ /\ e.callback = Null /\ e.fiber \in Tasks
          /\ m_state[e.fiber] \in StateAt("enter") /\ m_callback[e.fiber] # Null
  /\ pc[t] \in Engaged =>
       /\ e.callback = Null
       /\ Current(t) \in Tasks
       /\ m_state[Current(t)] \in StateAt(pc[t])
       /\ m_state[Current(t)] \notin Ended => m_callback[Current(t)] # Null
  /\ pc[t] \in Switching => t_fiber[t] = Current(t)
  /\ pc[t] \notin Engaged \cup {"enter"} => e.fiber = Null /\ e.callback = Null
  /\ callback_fiber[t] # Null /\ (pc[t] \notin Engaged \/ e.fiber # Null) =>
       m_state[callback_fiber[t]] = "INIT" /\ callback_fiber[t] # e.fiber

\* No two threads have a fiber or a callback in common.
HandsApart ==
  \A t, u \in Threads : t # u =>
    /\ \A f \in Tasks : ~(Has(t, f) /\ Has(u, f))
    /\ fiberAndThread[t].callback # Null =>
         fiberAndThread[t].callback # fiberAndThread[u].callback

\* A parked fiber is with no thread, or with the one that it will ask for.
ParkedOK(f) ==
  m_callback[f] # Null /\ progress[m_callback[f]] = "parked" =>
    /\ m_state[f] = "HOLD"
    /\ HomePinned
    /\ \A t \in Threads : Has(t, f) =>
         t = home[m_callback[f]] /\ f = Current(t) /\ pc[t] \in Outgoing

TaskOK(f) ==
  /\ progress[f] = "fresh" => m_state[f] = "NONE" /\ \A g \in Tasks : m_callback[g] # f
  /\ m_state[f] = "NONE" => m_callback[f] = Null /\ \A t \in Threads : ~Has(t, f)
  /\ \A g \in Tasks : m_callback[f] # Null /\ m_callback[f] = m_callback[g] => f = g
  /\ ParkedOK(f)

OwnerOK ==
  /\ UseCaller /\ pc[Caller] \in {"new", "client", "stop1", "stop2"} =>
       m_rootFiber = "INIT"
  /\ pc[Caller] = "stop2" => UseCaller
  /\ pc[Caller] \in {"stop2", "join", "stopped"} \cup RunPc => m_stopping

SafeInv ==
  /\ AssertionsHold
  /\ QueueOK
  /\ \A t \in Threads : HandOK(t)
  /\ HandsApart
  /\ \A f \in Tasks : TaskOK(f)
  /\ OwnerOK

-----------------------------------------------------------------------------
(* The parts of the invariant, and the fields of entries. *)

LEMMA SafeParts ==
  ASSUME SafeInv
  PROVE  /\ failed \in {"none", "m_mutex"} /\ QueueOK /\ HandsApart /\ OwnerOK
         /\ \A t \in Threads : HandOK(t)
         /\ \A f \in Tasks : TaskOK(f)
BY DEF SafeInv, AssertionsHold

LEMMA Fields ==
  /\ NoEntry \in Entry /\ NoEntry.fiber = Null /\ NoEntry.callback = Null
  /\ \A f \in Tasks, p \in Threads \cup {AnyThread} :
       /\ FiberEntry(f, p) \in Entry /\ CallbackEntry(f, p) \in Entry
       /\ FiberEntry(f, p).fiber = f /\ FiberEntry(f, p).callback = Null
       /\ FiberEntry(f, p).thread = p
       /\ CallbackEntry(f, p).fiber = Null /\ CallbackEntry(f, p).callback = f
  /\ Null \notin Tasks
BY EntryTypes, PoolAssumption DEF NoEntry, FiberEntry, CallbackEntry

LEMMA HandTypes ==
  ASSUME TypeOK, NEW t \in Threads
  PROVE  /\ fiberAndThread[t].fiber \in Tasks \cup {Null}
         /\ fiberAndThread[t].callback \in Tasks \cup {Null}
         /\ callback_fiber[t] \in Tasks \cup {Null}
         /\ Current(t) \in Tasks \cup {Null}
         /\ Current(t) # Null => Has(t, Current(t))
BY EntryTypes DEF TypeOK, Current, Has

\* The queue, when it is left alone, grows or shrinks.
InQueue(e) == \E i \in DOMAIN m_fibers : m_fibers[i] = e

LEMMA QueueEntries ==
  ASSUME TypeOK, QueueOK, NEW i \in DOMAIN m_fibers
  PROVE  m_fibers[i] \in Entry /\ EntryOK(m_fibers[i]) /\ InQueue(m_fibers[i])
<1>1. m_fibers \in Seq(Entry)
  BY DEF TypeOK
<1>. QED BY <1>1, ElementOfSeq DEF QueueOK, InQueue

LEMMA QueueStays ==
  ASSUME TypeOK, QueueOK, m_fibers' = m_fibers,
         \A e \in Entry : InQueue(e) => EntryOK(e)'
  PROVE  QueueOK'
<1>1. ASSUME NEW i \in DOMAIN m_fibers' PROVE EntryOK(m_fibers[i])'
  <2>1. m_fibers[i] \in Entry /\ InQueue(m_fibers[i])
    BY <1>1, QueueEntries
  <2>. DEFINE e == m_fibers[i]
  <2>2. \A d \in Entry : d = e => EntryOK(d)'
    BY <2>1
  <2>. QED BY <2>1, <2>2
<1>2. \A i, j \in DOMAIN m_fibers' : i # j => Distinct(m_fibers[i], m_fibers[j])'
  BY DEF QueueOK, Distinct
<1>. QED BY <1>1, <1>2 DEF QueueOK

LEMMA QueueShrinks ==
  ASSUME TypeOK, QueueOK, NEW k \in DOMAIN m_fibers, m_fibers' = RemoveAt(m_fibers, k),
         \A e \in Entry : InQueue(e) /\ Distinct(e, m_fibers[k]) => EntryOK(e)'
  PROVE  QueueOK'
<1>. DEFINE at(i) == IF i < k THEN i ELSE i + 1
<1>1. /\ m_fibers \in Seq(Entry) /\ k \in 1 .. Len(m_fibers)
      /\ DOMAIN m_fibers = 1 .. Len(m_fibers) /\ Len(m_fibers) \in Nat
  BY LenProperties DEF TypeOK
<1>2. /\ m_fibers' \in Seq(Entry) /\ Len(m_fibers') = Len(m_fibers) - 1
      /\ \A j \in 1 .. Len(m_fibers) - 1 :
           m_fibers'[j] = IF j < k THEN m_fibers[j] ELSE m_fibers[j + 1]
  BY <1>1, RemoveAtProperties
<1>3. DOMAIN m_fibers' = 1 .. Len(m_fibers) - 1
  BY <1>2, LenProperties
<1>4. \A i \in DOMAIN m_fibers' : /\ at(i) \in DOMAIN m_fibers /\ at(i) # k
                                 /\ m_fibers'[i] = m_fibers[at(i)]
  BY <1>1, <1>2, <1>3
<1>5. \A i, j \in DOMAIN m_fibers' : i # j => at(i) # at(j)
  BY <1>1, <1>3
<1>. HIDE DEF at
<1>6. ASSUME NEW i \in DOMAIN m_fibers' PROVE EntryOK(m_fibers[i])'
  <2>1. /\ m_fibers[at(i)] \in Entry /\ InQueue(m_fibers[at(i)])
        /\ Distinct(m_fibers[at(i)], m_fibers[k])
    BY <1>4, QueueEntries DEF QueueOK
  <2>2. \A e \in Entry : e = m_fibers[at(i)] => EntryOK(e)'
    BY <2>1
  <2>. QED BY <2>1, <2>2, <1>4
<1>7. \A i, j \in DOMAIN m_fibers' : i # j => Distinct(m_fibers'[i], m_fibers'[j])
  BY <1>4, <1>5 DEF QueueOK
<1>. QED BY <1>6, <1>7 DEF QueueOK, Distinct

LEMMA QueueGrows ==
  ASSUME TypeOK, QueueOK, NEW d \in Entry, Push(d), EntryOK(d)',
         \A e \in Entry : InQueue(e) => EntryOK(e)' /\ Distinct(e, d)
  PROVE  QueueOK'
<1>. DEFINE n == Len(m_fibers)
<1>1. m_fibers \in Seq(Entry) /\ n \in Nat /\ DOMAIN m_fibers = 1 .. n
  BY LenProperties DEF TypeOK
<1>2. /\ m_fibers' \in Seq(Entry) /\ Len(m_fibers') = n + 1
      /\ \A j \in 1 .. n : m_fibers'[j] = m_fibers[j]
      /\ m_fibers'[n + 1] = d
  BY <1>1, AppendProperties DEF Push
<1>3. DOMAIN m_fibers' = 1 .. n + 1
  BY <1>1, <1>2, LenProperties
<1>. HIDE DEF n
<1>4. ASSUME NEW i \in DOMAIN m_fibers' PROVE EntryOK(m_fibers[i])'
  <2>1. CASE i = n + 1
    <3>1. \A e \in Entry : e = d => EntryOK(e)'
      OBVIOUS
    <3>. QED BY <2>1, <3>1, <1>2
  <2>2. CASE i \in DOMAIN m_fibers
    <3>1. m_fibers[i] \in Entry /\ InQueue(m_fibers[i])
      BY <2>2, QueueEntries
    <3>2. \A e \in Entry : e = m_fibers[i] => EntryOK(e)'
      BY <3>1
    <3>. QED BY <2>2, <3>1, <3>2, <1>1, <1>2
  <2>. QED BY <2>1, <2>2, <1>1, <1>3
<1>5. \A i \in DOMAIN m_fibers : Distinct(m_fibers[i], d) /\ Distinct(d, m_fibers[i])
  BY QueueEntries DEF Distinct
<1>6. ASSUME NEW i \in DOMAIN m_fibers', NEW j \in DOMAIN m_fibers', i # j
      PROVE  Distinct(m_fibers'[i], m_fibers'[j])
  <2>1. i \in 1 .. n \/ i = n + 1
    BY <1>1, <1>3
  <2>2. j \in 1 .. n \/ j = n + 1
    BY <1>1, <1>3
  <2>. QED BY <2>1, <2>2, <1>1, <1>2, <1>5, <1>6 DEF QueueOK
<1>. QED BY <1>4, <1>6 DEF QueueOK, Distinct

-----------------------------------------------------------------------------
(* What a step leaves alone. *)

HandSame(u) ==
  /\ fiberAndThread'[u] = fiberAndThread[u]
  /\ callback_fiber'[u] = callback_fiber[u]

Same(u) == HandSame(u) /\ pc'[u] = pc[u] /\ t_fiber'[u] = t_fiber[u]

FiberSame(f) == m_state'[f] = m_state[f] /\ m_callback'[f] = m_callback[f]

LEMMA HasSame ==
  ASSUME NEW u, HandSame(u)
  PROVE  Current(u)' = Current(u) /\ \A f : Has(u, f)' <=> Has(u, f)
BY DEF HandSame, Current, Has

\* Where a thread may go that neither takes nor leaves a fiber.
Moves(u) ==
  /\ HandSame(u)
  /\ \/ Same(u)
     \/ pc[u] \notin Engaged \cup {"enter"} /\ pc'[u] \notin Engaged \cup {"enter"}
     \/ pc[u] \in Outgoing /\ pc'[u] \in {"left", "settle"}
     \/ pc[u] = "settle" /\ pc'[u] = "requeue" /\ m_state[Current(u)] = "READY"

LEMMA MoveKeeps ==
  ASSUME TypeOK, SafeInv, OwnerOK',
         UNCHANGED <<m_fibers, m_state, m_callback, progress, home>>,
         failed' \in {"none", "m_mutex"},
         \A u \in Threads : Moves(u)
  PROVE  SafeInv'
<1>. USE SafeParts
<1>1. \A u \in Threads : HandSame(u)
  BY DEF Moves
<1>2. \A u \in Threads : Current(u)' = Current(u) /\ \A f : Has(u, f)' <=> Has(u, f)
  BY <1>1, HasSame
<1>3. ASSUME NEW u \in Threads,
             pc[u] = "parking" \/ (pc[u] \in Outgoing /\ m_state[Current(u)] = "HOLD")
      PROVE  pc'[u] = pc[u] \/ pc'[u] \in Outgoing
  BY <1>3 DEF Moves, Same, Engaged, Switching, Outgoing
<1>4. ASSUME NEW f, NEW q, Waiting(f, q) PROVE Waiting(f, q)'
  <2>1. ASSUME NEW u \in Threads, Has(u, f)'
        PROVE  /\ u = q /\ f = Current(u)'
               /\ pc'[u] = "parking" \/ (pc'[u] \in Outgoing /\ m_state'[f] = "HOLD")
    <3>1. /\ u = q /\ f = Current(u)
          /\ pc[u] = "parking" \/ (pc[u] \in Outgoing /\ m_state[f] = "HOLD")
      BY <2>1, <1>2, <1>4 DEF Waiting
    <3>2. pc'[u] = pc[u] \/ pc'[u] \in Outgoing
      BY <3>1, <1>3
    <3>3. pc[u] = "parking" => pc'[u] = "parking"
      BY DEF Moves, Same, Engaged, Switching, Outgoing
    <3>. QED BY <3>1, <3>2, <3>3, <1>2 DEF Outgoing
  <2>. QED BY <2>1, <1>4 DEF Waiting
<1>5. \A c : Unused(c) => Unused(c)'
  BY DEF Unused
<1>6. \A e \in Entry : InQueue(e) /\ EntryOK(e) => EntryOK(e)'
  BY <1>1, <1>4, <1>5 DEF EntryOK, HandSame
<1>7. QueueOK'
  BY <1>6, QueueStays, QueueEntries DEF InQueue, QueueOK
<1>8. ASSUME NEW u \in Threads PROVE HandOK(u)'
  <2>. DEFINE e == fiberAndThread[u]
  <2>1. HandOK(u) /\ HandSame(u) /\ Current(u)' = Current(u) /\ Moves(u)
    BY <1>1, <1>2
  <2>2. CASE Same(u)
    BY <2>1, <2>2, <1>5 DEF HandOK, Same, HandSame, StateAt
  <2>3. CASE pc[u] \notin Engaged \cup {"enter"} /\ pc'[u] \notin Engaged \cup {"enter"}
    BY <2>1, <2>3 DEF HandOK, HandSame, Engaged, Switching
  <2>4. CASE pc[u] \in Outgoing /\ pc'[u] \in {"left", "settle"}
    BY <2>1, <2>4 DEF HandOK, HandSame, StateAt, Engaged, Switching, Outgoing
  <2>5. CASE pc[u] = "settle" /\ pc'[u] = "requeue" /\ m_state[Current(u)] = "READY"
    BY <2>1, <2>5 DEF HandOK, HandSame, StateAt, Engaged, Switching, Outgoing
  <2>. QED BY <2>1, <2>2, <2>3, <2>4, <2>5 DEF Moves
<1>9. HandsApart'
  BY <1>1, <1>2 DEF HandsApart, HandSame
<1>10. ASSUME NEW f \in Tasks PROVE TaskOK(f)'
  <2>1. TaskOK(f)
    OBVIOUS
  <2>2. ParkedOK(f)'
    BY <2>1, <1>2, <1>3 DEF TaskOK, ParkedOK
  <2>. QED BY <2>1, <2>2, <1>2 DEF TaskOK
<1>. QED BY <1>7, <1>8, <1>9, <1>10 DEF SafeInv, AssertionsHold

\* A step of run() leaves the owner where m_stopping is set.
LEMMA RunOwner ==
  ASSUME TypeOK, OwnerOK, NEW t \in Threads, pc[t] \in RunPc, NEW l,
         pc' = [pc EXCEPT ![t] = l], l \in RunPc \cup {"join", "exited"},
         m_stopping' = m_stopping, m_rootFiber' = m_rootFiber \/ t = Caller
  PROVE  OwnerOK'
<1>1. pc'[Caller] = IF t = Caller THEN l ELSE pc[Caller]
  BY DEF TypeOK, Threads
<1>2. l \notin {"new", "client", "stop1", "stop2"}
  BY DEF RunPc
<1>3. t = Caller => m_stopping
  BY DEF OwnerOK
<1>. QED BY <1>1, <1>2, <1>3 DEF OwnerOK

-----------------------------------------------------------------------------
(* Steps of run() that take and leave no fiber. *)

LEMMA OneMoves ==
  ASSUME TypeOK, SafeInv, NEW t \in Threads, NEW l, pc' = [pc EXCEPT ![t] = l],
         pc[t] \in RunPc, l \in RunPc, Moves(t),
         \A u \in Threads : u # t => HandSame(u) /\ t_fiber'[u] = t_fiber[u],
         UNCHANGED <<m_fibers, m_state, m_callback, progress, home, failed,
                     m_stopping, m_rootFiber>>
  PROVE  SafeInv'
<1>1. OwnerOK'
  BY RunOwner, SafeParts
<1>2. \A u \in Threads : u # t => Same(u)
  BY DEF TypeOK, Same
<1>3. failed' \in {"none", "m_mutex"}
  BY SafeParts
<1>. QED BY <1>1, <1>2, <1>3, MoveKeeps DEF Moves

LEMMA SmallSteps ==
  ASSUME TypeOK, SafeInv, NEW t \in Threads,
         \/ TakeNothing(t) \/ SwapOut(t) \/ DecActive(t) \/ SettleReady(t)
         \/ IdleEnter(t) \/ IdleCheck(t) \/ IdleLeave(t)
  PROVE  SafeInv'
<1>. USE DEF Goto, queueVars, controlVars, fiberVars, localVars, taskVars
<1>1. \A u \in Threads : HandSame(u)
  BY DEF HandSame, TakeNothing, SwapOut, DecActive, SettleReady, IdleEnter, IdleCheck,
       IdleLeave
<1>2. UNCHANGED <<m_state, m_callback, progress, home, failed, m_stopping, m_rootFiber,
                  m_fibers>>
  BY DEF TakeNothing, SwapOut, DecActive, SettleReady, IdleEnter, IdleCheck, IdleLeave
<1>3. \A u \in Threads : u # t => t_fiber'[u] = t_fiber[u]
  BY DEF TypeOK, TakeNothing, SwapOut, DecActive, SettleReady, IdleEnter, IdleCheck,
       IdleLeave
<1>4. /\ pc \in [Threads -> {"off", "exited"} \cup RunPc \cup OwnerPc]
      /\ \A l : pc' = [pc EXCEPT ![t] = l] => pc'[t] = l
  BY DEF TypeOK
<1>. HIDE DEF Goto, queueVars, controlVars, fiberVars, localVars, taskVars
<1>5. CASE TakeNothing(t)
  BY <1>1, <1>2, <1>3, <1>4, <1>5, OneMoves
     DEF TakeNothing, Goto, Moves, Engaged, Switching, RunPc
<1>6. CASE SwapOut(t)
  BY <1>1, <1>2, <1>3, <1>4, <1>6, OneMoves
     DEF SwapOut, Goto, Moves, Outgoing, RunPc
<1>7. CASE DecActive(t)
  BY <1>1, <1>2, <1>3, <1>4, <1>7, OneMoves
     DEF DecActive, Goto, Moves, Outgoing, RunPc
<1>8. CASE SettleReady(t)
  BY <1>1, <1>2, <1>3, <1>4, <1>8, OneMoves
     DEF SettleReady, Goto, Moves, RunPc
<1>9. CASE IdleEnter(t)
  BY <1>1, <1>2, <1>3, <1>4, <1>9, OneMoves
     DEF IdleEnter, Goto, Moves, Engaged, Switching, RunPc
<1>10. CASE IdleCheck(t)
  BY <1>1, <1>2, <1>3, <1>4, <1>10, OneMoves
     DEF IdleCheck, Goto, Moves, Engaged, Switching, RunPc
<1>11. CASE IdleLeave(t)
  BY <1>1, <1>2, <1>3, <1>4, <1>11, OneMoves
     DEF IdleLeave, Goto, Moves, Engaged, Switching, RunPc
<1>. QED BY <1>5, <1>6, <1>7, <1>8, <1>9, <1>10, <1>11

-----------------------------------------------------------------------------
(* The owner: start(), stop() and the destructor. *)

LEMMA OwnerMove ==
  ASSUME TypeOK, SafeInv, OwnerOK', NEW l, pc' = [pc EXCEPT ![Caller] = l],
         pc[Caller] \in OwnerPc, l \in OwnerPc \cup {"take"},
         UNCHANGED <<m_fibers, m_state, m_callback, progress, home, failed,
                     fiberAndThread, callback_fiber, t_fiber>>
  PROVE  SafeInv'
<1>1. Caller \in Threads
  BY DEF Threads
<1>2. \A u \in Threads : u # Caller => Same(u)
  BY DEF TypeOK, Same, HandSame
<1>3. HandSame(Caller) /\ pc'[Caller] = l
  BY <1>1 DEF TypeOK, HandSame
<1>4. Moves(Caller)
  BY <1>3 DEF Moves, OwnerPc, Engaged, Switching
<1>5. \A u \in Threads : Moves(u)
  BY <1>2, <1>4 DEF Moves, Same
<1>6. failed' \in {"none", "m_mutex"}
  BY SafeParts
<1>. QED BY <1>5, <1>6, MoveKeeps

LEMMA OwnerSteps ==
  ASSUME CountInv, SafeInv, Considerate,
         StopAtOnce \/ StopBegin \/ StopStep \/ Destroy
  PROVE  SafeInv'
<1>1. /\ TypeOK /\ Caller \in Threads /\ OwnerOK /\ failed \in {"none", "m_mutex"}
      /\ \A l : pc' = [pc EXCEPT ![Caller] = l] => pc'[Caller] = l
  BY SafeParts DEF CountInv, TypeOK, Threads
<1>. USE <1>1 DEF Goto, queueVars, controlVars, fiberVars, localVars, taskVars, MayStop
<1>2. CASE StopAtOnce
  <2>1. OwnerOK'
    BY <1>2 DEF StopAtOnce, OwnerOK, RunPc
  <2>. QED BY <1>2, <2>1, OwnerMove DEF StopAtOnce, OwnerPc
<1>3. CASE StopBegin
  <2>1. OwnerOK'
    BY <1>3 DEF StopBegin, OwnerOK, RunPc
  <2>. QED BY <1>3, <2>1, OwnerMove DEF StopBegin, OwnerPc
<1>4. CASE StopFlag
  <2>1. OwnerOK'
    BY <1>4 DEF StopFlag, OwnerOK, RunPc
  <2>. QED BY <1>4, <2>1, OwnerMove DEF StopFlag, OwnerPc
<1>5. CASE StopRoot
  <2>1. OwnerOK' /\ failed' = failed
    BY <1>5 DEF StopRoot, Check, OwnerOK, RunPc
  <2>. QED BY <1>5, <2>1, OwnerMove DEF StopRoot, OwnerPc
<1>6. CASE Join
  <2>1. OwnerOK'
    BY <1>6 DEF Join, OwnerOK, RunPc
  <2>. QED BY <1>6, <2>1, OwnerMove DEF Join, OwnerPc
<1>7. CASE Destroy
  <2>1. OwnerOK' /\ failed' = failed
    BY <1>7 DEF Destroy, Check, OwnerOK, RunPc
  <2>. QED BY <1>7, <2>1, OwnerMove DEF Destroy, OwnerPc
<1>. QED BY <1>2, <1>3, <1>4, <1>5, <1>6, <1>7 DEF StopStep

LEMMA StartKeeps ==
  ASSUME CountInv, SafeInv, Considerate, Start
  PROVE  SafeInv'
<1>1. TypeOK /\ Caller \in Threads /\ OwnerOK
  BY SafeParts DEF CountInv, Threads
<1>2. pc' = [t \in Threads |-> IF t = Caller THEN "client" ELSE "take"]
  BY DEF Start
<1>3. OwnerOK'
  BY <1>1, <1>2 DEF Start, OwnerOK, Considerate, RunPc
<1>4. ASSUME NEW u \in Threads PROVE Moves(u)
  <2>1. pc[u] \in {"off", "exited", "new", "stopped"}
    BY DEF Start, CountInv, WorkersOK, Threads
  <2>. QED BY <2>1, <1>2 DEF Moves, HandSame, Start, Engaged, Switching
<1>5. /\ UNCHANGED <<m_fibers, m_state, m_callback, progress, home>>
      /\ failed' \in {"none", "m_mutex"}
  BY SafeParts DEF Start, UnlockAgain, queueVars, fiberVars, taskVars
<1>. QED BY <1>1, <1>3, <1>4, <1>5, MoveKeeps

-----------------------------------------------------------------------------
(* What a step of thread t keeps of the others, and of fibers it has not. *)

Others(t) == \A u \in Threads : u # t => Same(u)

LEMMA OthersHave ==
  ASSUME NEW t \in Threads, Others(t), NEW u \in Threads, u # t
  PROVE  /\ Current(u)' = Current(u)
         /\ \A f : Has(u, f)' <=> Has(u, f)
BY HasSame DEF Others, Same

LEMMA UnusedKeeps ==
  ASSUME NEW c, Unused(c), m_state'[c] = m_state[c], progress'[c] = progress[c],
         \A g \in Tasks : m_callback'[g] \in {m_callback[g], Null}, Null \notin Tasks
  PROVE  Unused(c)'
BY DEF Unused

LEMMA WaitingKeeps ==
  ASSUME NEW t \in Threads, Others(t), NEW f, NEW p, Waiting(f, p), ~Has(t, f)',
         FiberSame(f), progress'[m_callback[f]] # "parked"
  PROVE  Waiting(f, p)'
<1>1. ASSUME NEW u \in Threads, Has(u, f)'
      PROVE  /\ u = p /\ f = Current(u)'
             /\ pc'[u] = "parking" \/ (pc'[u] \in Outgoing /\ m_state'[f] = "HOLD")
  <2>1. u # t /\ Same(u) /\ Has(u, f) /\ Current(u)' = Current(u)
    BY <1>1, OthersHave DEF Others
  <2>. QED BY <2>1 DEF Waiting, Same, FiberSame
<1>. QED BY <1>1 DEF Waiting, FiberSame

LEMMA EntryKeeps ==
  ASSUME TypeOK, NEW t \in Threads, Others(t), NEW e \in Entry, EntryOK(e),
         \A c \in Tasks : e.callback = c /\ e.fiber = Null /\ Unused(c) =>
           Unused(c)' /\ fiberAndThread'[t].callback # c,
         \A f \in Tasks : e.fiber = f /\ Waiting(f, e.thread) =>
           ~Has(t, f)' /\ FiberSame(f) /\ progress'[m_callback[f]] # "parked"
  PROVE  EntryOK(e)'
<1>1. CASE e.fiber = Null /\ Unused(e.callback)
             /\ \A u \in Threads : fiberAndThread[u].callback # e.callback
  <2>1. \A u \in Threads : fiberAndThread'[u].callback # e.callback
    BY <1>1 DEF Others, Same, HandSame, Unused
  <2>. QED BY <1>1, <2>1 DEF EntryOK, Unused
<1>2. CASE e.callback = Null /\ Waiting(e.fiber, e.thread)
  BY <1>2, WaitingKeeps DEF EntryOK, Waiting
<1>. QED BY <1>1, <1>2 DEF EntryOK

LEMMA OtherHand ==
  ASSUME TypeOK, NEW u \in Threads, HandOK(u), Same(u),
         \A f \in Tasks : Has(u, f) => FiberSame(f),
         \A c \in Tasks : fiberAndThread[u].callback = c /\ Unused(c) => Unused(c)'
  PROVE  HandOK(u)'
<1>. DEFINE e == fiberAndThread[u]
<1>1. /\ fiberAndThread'[u] = e /\ callback_fiber'[u] = callback_fiber[u]
      /\ pc'[u] = pc[u] /\ t_fiber'[u] = t_fiber[u] /\ Current(u)' = Current(u)
  BY HasSame DEF Same, HandSame
<1>2. /\ e.fiber \in Tasks => FiberSame(e.fiber)
      /\ callback_fiber[u] \in Tasks => FiberSame(callback_fiber[u])
      /\ Current(u) \in Tasks => FiberSame(Current(u))
      /\ callback_fiber[u] \in Tasks \cup {Null}
  BY HandTypes, Fields DEF Has
<1>3. pc'[u] = "enter" =>
       \/ e.fiber = Null /\ Unused(e.callback)'
       \/ /\ e.callback = Null /\ e.fiber \in Tasks
          /\ m_state'[e.fiber] \in StateAt("enter") /\ m_callback'[e.fiber] # Null
  BY <1>1, <1>2 DEF HandOK, FiberSame, Unused
<1>4. pc'[u] \in Engaged =>
       /\ e.callback = Null
       /\ Current(u) \in Tasks
       /\ m_state'[Current(u)] \in StateAt(pc[u])
       /\ m_state'[Current(u)] \notin Ended => m_callback'[Current(u)] # Null
  BY <1>1, <1>2 DEF HandOK, FiberSame
<1>5. callback_fiber[u] # Null /\ (pc[u] \notin Engaged \/ e.fiber # Null) =>
        m_state'[callback_fiber[u]] = "INIT" /\ callback_fiber[u] # e.fiber
  BY <1>1, <1>2 DEF HandOK, FiberSame
<1>. QED BY <1>1, <1>3, <1>4, <1>5 DEF HandOK, StateAt

LEMMA ApartKeeps ==
  ASSUME HandsApart, NEW t \in Threads, Others(t),
         \A f \in Tasks : Has(t, f)' =>
           Has(t, f) \/ \A u \in Threads : u # t => ~Has(u, f),
         fiberAndThread'[t].callback # Null =>
           \/ fiberAndThread'[t].callback = fiberAndThread[t].callback
           \/ \A u \in Threads : u # t =>
                fiberAndThread[u].callback # fiberAndThread'[t].callback
  PROVE  HandsApart'
<1>1. \A u \in Threads : u # t => fiberAndThread'[u] = fiberAndThread[u]
  BY DEF Others, Same, HandSame
<1>2. ASSUME NEW u \in Threads, u # t, NEW f \in Tasks PROVE Has(u, f)' <=> Has(u, f)
  BY <1>2, OthersHave
<1>3. ASSUME NEW u \in Threads, NEW v \in Threads, u # v, NEW f \in Tasks
      PROVE  ~(Has(u, f)' /\ Has(v, f)')
  BY <1>2, <1>3 DEF HandsApart
<1>4. ASSUME NEW u \in Threads, NEW v \in Threads, u # v,
             fiberAndThread'[u].callback # Null
      PROVE  fiberAndThread'[u].callback # fiberAndThread'[v].callback
  BY <1>1, <1>4 DEF HandsApart
<1>. QED BY <1>3, <1>4 DEF HandsApart

-----------------------------------------------------------------------------
(* Steps with which a thread gives up its fiber, or keeps it, reset. *)

Releases(t) ==
  /\ Others(t)
  /\ pc'[t] \notin Engaged \cup {"enter"}
  /\ fiberAndThread'[t].fiber = Null /\ fiberAndThread'[t].callback = Null
  /\ callback_fiber'[t] \in {Null, callback_fiber[t]}
  /\ callback_fiber'[t] # Null => m_state'[callback_fiber[t]] = "INIT"
  /\ \A f \in Tasks :
       \/ FiberSame(f)
       \/ /\ Has(t, f) /\ m_state[f] \in Ended
          /\ m_state'[f] = "INIT" /\ m_callback'[f] = Null
  /\ UNCHANGED <<progress, home, failed>>

LEMMA ReleaseEntries ==
  ASSUME TypeOK, NEW t \in Threads, HandOK(t), Releases(t)
  PROVE  \A e \in Entry : EntryOK(e) => EntryOK(e)'
<1>. SUFFICES ASSUME NEW e \in Entry, EntryOK(e) PROVE EntryOK(e)'
  OBVIOUS
<1>1. Others(t) /\ Null \notin Tasks
  BY Fields DEF Releases
<1>2. ASSUME NEW c \in Tasks, e.callback = c, Unused(c)
      PROVE  Unused(c)' /\ fiberAndThread'[t].callback # c
  <2>1. m_state'[c] = m_state[c] /\ progress'[c] = progress[c]
    BY <1>2 DEF Releases, FiberSame, Unused, Ended
  <2>2. \A g \in Tasks : m_callback'[g] \in {m_callback[g], Null}
    BY DEF Releases, FiberSame
  <2>3. fiberAndThread'[t].callback = Null
    BY DEF Releases
  <2>. QED BY <1>1, <1>2, <2>1, <2>2, <2>3, UnusedKeeps
<1>3. ASSUME NEW f \in Tasks, e.fiber = f, Waiting(f, e.thread)
      PROVE  ~Has(t, f)' /\ FiberSame(f) /\ progress'[m_callback[f]] # "parked"
  <2>1. FiberSame(f) /\ progress'[m_callback[f]] # "parked"
    BY <1>3 DEF Releases, Waiting, Ended
  <2>2. ASSUME Has(t, f)' PROVE FALSE
    <3>1. f = callback_fiber[t] /\ m_state'[f] = "INIT" /\ Has(t, f)
      BY <1>1, <2>2 DEF Releases, Has
    <3>2. m_state[f] = "INIT"
      BY <2>1, <3>1 DEF FiberSame
    <3>3. f = Current(t) /\ pc[t] = "parking"
      BY <1>3, <3>1, <3>2 DEF Waiting
    <3>. QED BY <3>2, <3>3 DEF HandOK, StateAt, Engaged, Switching
  <2>. QED BY <2>1, <2>2
<1>. QED BY <1>1, <1>2, <1>3, EntryKeeps

LEMMA ReleaseKeeps ==
  ASSUME TypeOK, SafeInv, NEW t \in Threads, Releases(t), QueueOK', OwnerOK'
  PROVE  SafeInv'
<1>1. /\ Others(t) /\ Null \notin Tasks /\ failed' \in {"none", "m_mutex"}
      /\ callback_fiber[t] \in Tasks \cup {Null}
  BY Fields, SafeParts, HandTypes DEF Releases
<1>2. \A f \in Tasks : Has(t, f)' => Has(t, f)
  BY <1>1 DEF Releases, Has
<1>3. HandOK(t)'
  BY <1>1 DEF HandOK, Releases, Engaged, Switching
<1>4. ASSUME NEW u \in Threads, u # t PROVE HandOK(u)'
  <2>1. HandOK(u) /\ Same(u)
    BY <1>1, <1>4, SafeParts DEF Others
  <2>2. \A f \in Tasks : Has(u, f) => FiberSame(f)
    BY <1>4, SafeParts DEF HandsApart, Releases
  <2>3. ASSUME NEW c \in Tasks, Unused(c) PROVE Unused(c)'
    <3>1. m_state'[c] = m_state[c] /\ progress'[c] = progress[c]
      BY <2>3 DEF Releases, FiberSame, Unused, Ended
    <3>2. \A g \in Tasks : m_callback'[g] \in {m_callback[g], Null}
      BY DEF Releases, FiberSame
    <3>. QED BY <1>1, <2>3, <3>1, <3>2, UnusedKeeps
  <2>. QED BY <2>1, <2>2, <2>3, OtherHand
<1>5. HandsApart'
  BY <1>1, <1>2, SafeParts, ApartKeeps DEF Releases
<1>6. ASSUME NEW f \in Tasks PROVE TaskOK(f)'
  <2>1. TaskOK(f)
    BY SafeParts
  <2>2. \A g \in Tasks : m_callback'[g] \in {m_callback[g], Null}
    BY DEF Releases, FiberSame
  <2>3. /\ m_state'[f] = "NONE" => m_state[f] = "NONE" /\ m_callback'[f] = m_callback[f]
        /\ m_state[f] = "NONE" => m_state'[f] = "NONE"
    BY DEF Releases, FiberSame, Ended
  <2>4. \A u \in Threads : Has(u, f)' => Has(u, f)
    BY <1>1, <1>2, OthersHave
  <2>5. \A c \in Tasks : progress'[c] = progress[c] /\ home'[c] = home[c]
    BY DEF Releases
  <2>6. progress'[f] = "fresh" => m_state'[f] = "NONE" /\ \A g \in Tasks : m_callback'[g] # f
    BY <1>1, <2>1, <2>2, <2>3, <2>5 DEF TaskOK
  <2>7. \A g \in Tasks : m_callback'[f] # Null /\ m_callback'[f] = m_callback'[g] => f = g
    BY <2>1, <2>2 DEF TaskOK
  <2>8. ParkedOK(f)'
    <3>. SUFFICES ASSUME m_callback'[f] # Null, progress'[m_callback'[f]] = "parked"
                  PROVE  /\ m_state'[f] = "HOLD" /\ HomePinned
                         /\ \A u \in Threads : Has(u, f)' =>
                              u = home'[m_callback'[f]] /\ f = Current(u)' /\ pc'[u] \in Outgoing
      BY DEF ParkedOK
    <3>1. FiberSame(f)
      BY DEF Releases
    <3>2. /\ m_state[f] = "HOLD" /\ HomePinned
          /\ \A u \in Threads : Has(u, f) =>
               u = home[m_callback[f]] /\ f = Current(u) /\ pc[u] \in Outgoing
      BY <2>1, <3>1 DEF TaskOK, ParkedOK, FiberSame, Releases
    <3>3. ~Has(t, f)'
      <4>1. Has(t, f)' => f = callback_fiber[t] /\ m_state'[f] = "INIT"
        BY <1>1 DEF Releases, Has
      <4>. QED BY <3>1, <3>2, <4>1 DEF FiberSame
    <3>4. \A u \in Threads : u # t => Current(u)' = Current(u) /\ pc'[u] = pc[u]
      BY <1>1, OthersHave DEF Others, Same
    <3>5. home' = home
      BY DEF Releases
    <3>. QED BY <2>4, <3>1, <3>2, <3>3, <3>4, <3>5 DEF FiberSame
  <2>. QED BY <2>1, <2>3, <2>4, <2>6, <2>7, <2>8 DEF TaskOK
<1>. QED BY <1>1, <1>3, <1>4, <1>5, <1>6 DEF SafeInv, AssertionsHold

LEMMA SettleHeldKeeps ==
  ASSUME TypeOK, SafeInv, NEW t \in Threads, SettleHeld(t)
  PROVE  SafeInv'
<1>. DEFINE f == Current(t)
<1>1. /\ HandOK(t) /\ OwnerOK /\ QueueOK /\ pc[t] = "settle"
      /\ \A l : Goto(t, l) => pc'[t] = l /\ \A u \in Threads : u # t => pc'[u] = pc[u]
  BY SafeParts DEF SettleHeld, Goto, TypeOK
<1>2. f \in Tasks /\ m_state[f] = "HOLD" /\ fiberAndThread[t].callback = Null
  BY <1>1 DEF HandOK, StateAt, Engaged, Outgoing, SettleHeld, Ended
<1>3. m_state' = m_state /\ m_callback' = m_callback
  BY <1>2 DEF SettleHeld, TypeOK
<1>4. Others(t)
  BY <1>1 DEF Others, Same, HandSame, SettleHeld, Drop, TypeOK
<1>5. /\ fiberAndThread'[t].fiber = Null /\ fiberAndThread'[t].callback = Null
      /\ callback_fiber'[t] \in {Null, callback_fiber[t]}
      /\ callback_fiber'[t] # Null => fiberAndThread[t].fiber # Null
  BY <1>2, Fields DEF SettleHeld, Drop, TypeOK, Current
<1>6. callback_fiber'[t] # Null => m_state'[callback_fiber[t]] = "INIT"
  BY <1>1, <1>3, <1>5 DEF HandOK
<1>7. Releases(t)
  BY <1>1, <1>3, <1>4, <1>5, <1>6
     DEF Releases, SettleHeld, FiberSame, Engaged, Switching, taskVars
<1>8. OwnerOK'
  BY <1>1, RunOwner DEF SettleHeld, Goto, RunPc, controlVars
<1>9. QueueOK'
  BY <1>1, <1>7, ReleaseEntries, QueueStays, QueueEntries
     DEF SettleHeld, queueVars, InQueue, QueueOK
<1>. QED BY <1>7, <1>8, <1>9, ReleaseKeeps

LEMMA SettleEndedKeeps ==
  ASSUME TypeOK, SafeInv, NEW t \in Threads, SettleEnded(t)
  PROVE  SafeInv'
<1>. DEFINE f == Current(t)
<1>1. /\ HandOK(t) /\ OwnerOK /\ QueueOK /\ pc[t] = "settle"
      /\ \A l : Goto(t, l) => pc'[t] = l /\ \A u \in Threads : u # t => pc'[u] = pc[u]
  BY SafeParts DEF SettleEnded, Goto, TypeOK
<1>2. /\ f \in Tasks /\ m_state[f] \in Ended /\ fiberAndThread[t].callback = Null
      /\ Has(t, f)
  BY <1>1 DEF HandOK, Engaged, Outgoing, SettleEnded, Current, Has
<1>3. IF fiberAndThread[t].fiber # Null
      THEN \A g \in Tasks : FiberSame(g)
      ELSE /\ f = callback_fiber[t] /\ m_state'[f] = "INIT" /\ m_callback'[f] = Null
           /\ \A g \in Tasks : g # f => FiberSame(g)
  BY <1>2 DEF SettleEnded, Reset, NewFiber, TypeOK, FiberSame, fiberVars, Current
<1>4. failed' = failed
  BY <1>2 DEF SettleEnded, Reset, Check
<1>5. Others(t)
  BY <1>1 DEF Others, Same, HandSame, SettleEnded, TypeOK
<1>6. /\ fiberAndThread'[t].fiber = Null /\ fiberAndThread'[t].callback = Null
      /\ callback_fiber'[t] = callback_fiber[t]
      /\ callback_fiber[t] \in Tasks \cup {Null}
  BY Fields, HandTypes DEF SettleEnded, TypeOK
<1>7. callback_fiber'[t] # Null => m_state'[callback_fiber[t]] = "INIT"
  BY <1>1, <1>3, <1>6 DEF HandOK, FiberSame
<1>8. Releases(t)
  BY <1>1, <1>2, <1>3, <1>4, <1>5, <1>6, <1>7
     DEF Releases, SettleEnded, Engaged, Switching, taskVars
<1>9. OwnerOK'
  BY <1>1, RunOwner DEF SettleEnded, Goto, RunPc, controlVars
<1>10. QueueOK'
  BY <1>1, <1>8, ReleaseEntries, QueueStays, QueueEntries
     DEF SettleEnded, queueVars, InQueue, QueueOK
<1>. QED BY <1>8, <1>9, <1>10, ReleaseKeeps

LEMMA RunExitKeeps ==
  ASSUME TypeOK, SafeInv, NEW t \in Threads, RunExit(t)
  PROVE  SafeInv'
<1>1. /\ HandOK(t) /\ OwnerOK /\ QueueOK /\ pc[t] = "idle"
      /\ \A l : Goto(t, l) => pc'[t] = l /\ \A u \in Threads : u # t => pc'[u] = pc[u]
  BY SafeParts DEF RunExit, Goto, TypeOK
<1>2. /\ fiberAndThread'[t].fiber = Null /\ fiberAndThread'[t].callback = Null
      /\ callback_fiber'[t] = Null
  BY <1>1 DEF HandOK, RunExit, TypeOK, Engaged, Switching
<1>3. pc'[t] \in {"join", "exited"} /\ Others(t)
  BY <1>1 DEF Others, Same, HandSame, RunExit, TypeOK
<1>4. Releases(t)
  BY <1>1, <1>2, <1>3
     DEF Releases, RunExit, Engaged, Switching, taskVars, fiberVars, FiberSame
<1>5. OwnerOK'
  BY <1>1, RunOwner DEF RunExit, Goto, RunPc
<1>6. QueueOK'
  BY <1>1, <1>4, ReleaseEntries, QueueStays, QueueEntries
     DEF RunExit, queueVars, InQueue, QueueOK
<1>. QED BY <1>4, <1>5, <1>6, ReleaseKeeps

LEMMA RequeueKeeps ==
  ASSUME TypeOK, SafeInv, NEW t \in Threads, Requeue(t)
  PROVE  SafeInv'
<1>1. /\ HandOK(t) /\ OwnerOK /\ QueueOK /\ HandsApart /\ pc[t] = "requeue"
      /\ \A l : Goto(t, l) => pc'[t] = l /\ \A u \in Threads : u # t => pc'[u] = pc[u]
  BY SafeParts DEF Requeue, Goto, TypeOK
<1>2. PICK f \in Tasks :
         /\ f = Current(t) /\ m_state[f] = "READY" /\ fiberAndThread[t].callback = Null
         /\ m_callback[f] # Null /\ Has(t, f)
  BY <1>1 DEF HandOK, StateAt, Engaged, Outgoing, Ended, Current, Has
<1>. DEFINE d == FiberEntry(f, AnyThread)
<1>3. m_state' = m_state /\ m_callback' = m_callback /\ progress' = progress
  BY DEF Requeue, fiberVars, taskVars
<1>4. Others(t)
  BY <1>1 DEF Others, Same, HandSame, Requeue, Drop, TypeOK
<1>5. /\ fiberAndThread'[t].fiber = Null /\ fiberAndThread'[t].callback = Null
      /\ callback_fiber'[t] \in {Null, callback_fiber[t]}
      /\ callback_fiber'[t] # Null => fiberAndThread[t].fiber # Null
  BY <1>2, Fields DEF Requeue, Drop, TypeOK, Current
<1>6. callback_fiber'[t] # Null => m_state'[callback_fiber[t]] = "INIT"
  BY <1>1, <1>3, <1>5 DEF HandOK
<1>7. Releases(t)
  BY <1>1, <1>3, <1>4, <1>5, <1>6
     DEF Releases, Requeue, FiberSame, Engaged, Switching, taskVars
<1>8. OwnerOK'
  BY <1>1, RunOwner DEF Requeue, Goto, RunPc, controlVars
<1>9. d \in Entry /\ d.fiber = f /\ d.callback = Null /\ d.thread = AnyThread
  BY <1>2, Fields
<1>10. EntryOK(d)'
  <2>1. \A u \in Threads : ~Has(u, f)'
    <3>1. ~Has(t, f)'
      BY <1>2, <1>3, <1>5, <1>6, Fields DEF Has
    <3>. QED BY <3>1, <1>1, <1>2, <1>4, OthersHave DEF HandsApart
  <2>2. progress[m_callback[f]] # "parked"
    BY <1>2, SafeParts DEF TaskOK, ParkedOK
  <2>3. Waiting(f, AnyThread)'
    BY <1>2, <1>3, <2>1, <2>2 DEF Waiting
  <2>. QED BY <1>9, <2>3 DEF EntryOK
<1>11. \A e \in Entry : InQueue(e) => EntryOK(e)' /\ Distinct(e, d)
  <2>. SUFFICES ASSUME NEW e \in Entry, InQueue(e) PROVE EntryOK(e)' /\ Distinct(e, d)
    OBVIOUS
  <2>1. EntryOK(e) /\ EntryOK(e)'
    BY <1>1, <1>7, ReleaseEntries DEF InQueue, QueueOK
  <2>2. e.fiber # f
    BY <1>1, <1>2, <2>1, Fields DEF EntryOK, Waiting, Outgoing
  <2>. QED BY <1>9, <2>1, <2>2 DEF Distinct, EntryOK, Unused, Waiting
<1>12. Push(d)
  BY <1>2 DEF Requeue
<1>. HIDE DEF d
<1>13. QueueOK'
  BY <1>1, <1>9, <1>10, <1>11, <1>12, QueueGrows
<1>. QED BY <1>7, <1>8, <1>13, ReleaseKeeps

-----------------------------------------------------------------------------
(* Steps that schedule. *)

\* A thread that does not leave a fiber has none that waits.
LEMMA NotWaiting ==
  ASSUME NEW t \in Threads, pc[t] \notin {"parking"} \cup Outgoing,
         NEW f, NEW p, Waiting(f, p)
  PROVE  ~Has(t, f)
BY DEF Waiting

\* A callback in a hand is still to be given a fiber.
LEMMA HandCallback ==
  ASSUME TypeOK, SafeInv, NEW t \in Threads, fiberAndThread[t].callback # Null
  PROVE  Unused(fiberAndThread[t].callback)
BY SafeParts DEF HandOK

\* What schedule() leaves alone.
Scheduling ==
  UNCHANGED <<pc, fiberAndThread, callback_fiber, t_fiber, failed, m_rootFiber,
              m_stopping>>

LEMMA SchedulingKeeps ==
  ASSUME TypeOK, SafeInv, Scheduling
  PROVE  /\ \A u \in Threads : Same(u) /\ Others(u) /\ Current(u)' = Current(u)
         /\ \A u \in Threads : \A f : Has(u, f)' <=> Has(u, f)
         /\ HandsApart' /\ OwnerOK' /\ failed' \in {"none", "m_mutex"}
<1>1. \A u \in Threads : Same(u) /\ Others(u)
  BY DEF Scheduling, Same, HandSame, Others
<1>2. \A u \in Threads : Current(u)' = Current(u) /\ \A f : Has(u, f)' <=> Has(u, f)
  BY <1>1, HasSame DEF Same
<1>. QED BY <1>1, <1>2, SafeParts DEF Scheduling, HandsApart, OwnerOK

LEMMA SubmitKeeps ==
  ASSUME TypeOK, SafeInv, NEW t \in Threads, NEW c \in Tasks, Submit(t, c)
  PROVE  SafeInv'
<1>1. Scheduling /\ pc[t] \in {"new", "client", "body"} /\ progress[c] = "fresh"
  BY DEF Submit, Scheduling, controlVars, localVars
<1>2. /\ \A u \in Threads : Same(u) /\ Others(u) /\ Current(u)' = Current(u)
      /\ \A u \in Threads : \A f : Has(u, f)' <=> Has(u, f)
      /\ HandsApart' /\ OwnerOK' /\ failed' \in {"none", "m_mutex"}
  BY <1>1, SchedulingKeeps
<1>3. /\ \A x \in Tasks : progress'[x] = IF x = c THEN "queued" ELSE progress[x]
      /\ home' = home
  BY DEF Submit, TypeOK
<1>4. /\ m_state[c] = "NONE" /\ m_callback[c] = Null
      /\ \A g \in Tasks : m_callback[g] # c
      /\ \A u \in Threads : ~Has(u, c)
  BY <1>1, SafeParts DEF TaskOK
<1>5. PICK p \in Threads \cup {AnyThread} :
        \/ Push(CallbackEntry(c, p)) /\ UNCHANGED fiberVars
        \/ Push(FiberEntry(c, p)) /\ NewFiber(c, c)
  BY DEF Submit, Pins, Runners, Threads
<1>6. /\ \A f \in Tasks : f # c => FiberSame(f)
      /\ FiberSame(c) \/ (m_state'[c] = "INIT" /\ m_callback'[c] = c)
  BY <1>5 DEF FiberSame, fiberVars, NewFiber, TypeOK
<1>7. \A x : Unused(x) => Unused(x)'
  <2>. SUFFICES ASSUME NEW x, Unused(x) PROVE Unused(x)'
    OBVIOUS
  <2>1. x \in Tasks /\ x # c
    BY <1>1 DEF Unused
  <2>. QED BY <2>1, <1>3, <1>6, Fields DEF Unused, FiberSame
<1>8. \A u \in Threads : fiberAndThread[u].callback # c
  BY <1>1, HandCallback, Fields DEF Unused
<1>9. \A e \in Entry : InQueue(e) => EntryOK(e)' /\ e.fiber # c /\ e.callback # c
  <2>. SUFFICES ASSUME NEW e \in Entry, InQueue(e)
                PROVE  EntryOK(e)' /\ e.fiber # c /\ e.callback # c
    OBVIOUS
  <2>1. EntryOK(e)
    BY SafeParts DEF InQueue, QueueOK
  <2>2. e.fiber # c /\ e.callback # c
    BY <1>1, <1>4, <2>1, Fields DEF EntryOK, Unused, Waiting
  <2>3. ASSUME NEW x \in Tasks, e.callback = x, e.fiber = Null, Unused(x)
        PROVE  Unused(x)' /\ fiberAndThread'[t].callback # x
    BY <1>2, <1>7, <2>1, <2>3, Fields DEF EntryOK, Same, HandSame, Waiting
  <2>4. ASSUME NEW f \in Tasks, e.fiber = f, Waiting(f, e.thread)
        PROVE  ~Has(t, f)' /\ FiberSame(f) /\ progress'[m_callback[f]] # "parked"
    <3>1. ~Has(t, f)
      BY <1>1, <2>4, NotWaiting DEF Outgoing
    <3>2. progress'[m_callback[f]] # "parked"
      BY <1>3, <1>4, <2>4 DEF Waiting, TypeOK
    <3>. QED BY <1>2, <1>6, <2>2, <2>4, <3>1, <3>2
  <2>. QED BY <1>2, <2>1, <2>2, <2>3, <2>4, EntryKeeps
<1>10. QueueOK'
  <2>1. CASE Push(CallbackEntry(c, p)) /\ UNCHANGED fiberVars
    <3>1. PICK d \in Entry : /\ d = CallbackEntry(c, p) /\ d.fiber = Null
                             /\ d.callback = c
      BY Fields
    <3>2. Unused(c)'
      BY <1>3, <1>4, <2>1 DEF Unused, fiberVars
    <3>3. EntryOK(d)'
      BY <1>2, <1>8, <3>1, <3>2 DEF EntryOK, Same, HandSame
    <3>4. \A e \in Entry : InQueue(e) => EntryOK(e)' /\ Distinct(e, d)
      BY <1>9, <3>1, Fields DEF Distinct
    <3>. QED BY <2>1, <3>1, <3>3, <3>4, QueueGrows, SafeParts
  <2>2. CASE Push(FiberEntry(c, p)) /\ NewFiber(c, c)
    <3>1. PICK d \in Entry : /\ d = FiberEntry(c, p) /\ d.fiber = c
                             /\ d.callback = Null /\ d.thread = p
      BY Fields
    <3>2. Waiting(c, p)'
      <4>1. m_state'[c] = "INIT" /\ m_callback'[c] = c
        BY <2>2 DEF NewFiber, TypeOK
      <4>. QED BY <1>2, <1>3, <1>4, <4>1, Fields DEF Waiting
    <3>3. EntryOK(d)'
      BY <3>1, <3>2 DEF EntryOK
    <3>4. \A e \in Entry : InQueue(e) => EntryOK(e)' /\ Distinct(e, d)
      BY <1>9, <3>1, Fields DEF Distinct
    <3>. QED BY <2>2, <3>1, <3>3, <3>4, QueueGrows, SafeParts
  <2>. QED BY <1>5, <2>1, <2>2
<1>11. ASSUME NEW u \in Threads PROVE HandOK(u)'
  <2>1. \A f \in Tasks : Has(u, f) => FiberSame(f)
    BY <1>4, <1>6
  <2>. QED BY <1>2, <1>7, <2>1, OtherHand, SafeParts
<1>12. ASSUME NEW f \in Tasks PROVE TaskOK(f)'
  <2>1. TaskOK(f)
    BY SafeParts
  <2>2. progress'[f] = "fresh" => m_state'[f] = "NONE" /\ \A g \in Tasks : m_callback'[g] # f
    BY <1>3, <1>4, <1>6, <2>1 DEF TaskOK, FiberSame
  <2>3. m_state'[f] = "NONE" => m_callback'[f] = Null /\ \A u \in Threads : ~Has(u, f)'
    BY <1>2, <1>4, <1>6, <2>1 DEF TaskOK, FiberSame
  <2>4. ASSUME NEW g \in Tasks, m_callback'[f] # Null, m_callback'[f] = m_callback'[g]
        PROVE  f = g
    BY <1>4, <1>6, <2>1, <2>4 DEF TaskOK, FiberSame
  <2>5. ParkedOK(f)'
    <3>1. CASE f = c
      BY <1>2, <1>3, <1>4, <1>6, <3>1 DEF ParkedOK, FiberSame
    <3>2. CASE f # c
      <4>1. /\ m_callback'[f] = m_callback[f] /\ m_state'[f] = m_state[f]
            /\ m_callback[f] \in Tasks \cup {Null}
        BY <1>6, <3>2 DEF FiberSame, TypeOK
      <4>2. m_callback[f] # Null => progress'[m_callback[f]] = progress[m_callback[f]]
        BY <1>3, <1>4, <4>1
      <4>3. ParkedOK(f)
        BY <2>1 DEF TaskOK
      <4>. QED BY <1>1, <1>2, <1>3, <4>1, <4>2, <4>3 DEF ParkedOK, Scheduling
    <3>. QED BY <3>1, <3>2
  <2>. QED BY <2>2, <2>3, <2>4, <2>5 DEF TaskOK
<1>. QED BY <1>2, <1>10, <1>11, <1>12 DEF SafeInv, AssertionsHold

LEMMA ResumeKeeps ==
  ASSUME TypeOK, SafeInv, NEW t \in Threads, NEW f \in Tasks, Resume(t, f)
  PROVE  SafeInv'
<1>1. Scheduling /\ pc[t] \in {"client", "body"} /\ home' = home
  BY DEF Resume, Scheduling, controlVars, localVars
<1>2. /\ \A u \in Threads : Same(u) /\ Others(u) /\ Current(u)' = Current(u)
      /\ \A u \in Threads : \A g : Has(u, g)' <=> Has(u, g)
      /\ HandsApart' /\ OwnerOK' /\ failed' \in {"none", "m_mutex"}
  BY <1>1, SchedulingKeeps
<1>3. PICK c \in Tasks :
        /\ c = m_callback[f] /\ progress[c] = "parked"
        /\ progress' = [progress EXCEPT ![c] = "started"]
        /\ Push(FiberEntry(f, IF HomePinned THEN home[c] ELSE AnyThread))
  BY DEF Resume, TypeOK
<1>4. /\ m_state[f] = "HOLD" /\ HomePinned
      /\ \A u \in Threads : Has(u, f) => u = home[c] /\ f = Current(u) /\ pc[u] \in Outgoing
  BY <1>3, SafeParts, Fields DEF TaskOK, ParkedOK
<1>5. m_state' = m_state /\ m_callback' = m_callback
  BY DEF Resume, fiberVars
<1>6. \A x \in Tasks : progress'[x] = IF x = c THEN "started" ELSE progress[x]
  BY <1>3 DEF TypeOK
<1>7. \A g \in Tasks : m_callback[g] = c => g = f
  BY <1>3, SafeParts, Fields DEF TaskOK
<1>8. \A x : Unused(x) => Unused(x)'
  BY <1>3, <1>5, <1>6 DEF Unused
<1>9. \A e \in Entry : InQueue(e) => EntryOK(e)' /\ e.fiber # f
  <2>. SUFFICES ASSUME NEW e \in Entry, InQueue(e) PROVE EntryOK(e)' /\ e.fiber # f
    OBVIOUS
  <2>1. EntryOK(e)
    BY SafeParts DEF InQueue, QueueOK
  <2>2. e.fiber # f
    BY <1>3, <2>1, Fields DEF EntryOK, Waiting
  <2>3. ASSUME NEW x \in Tasks, e.callback = x, e.fiber = Null, Unused(x)
        PROVE  Unused(x)' /\ fiberAndThread'[t].callback # x
    BY <1>2, <1>8, <2>1, <2>3, Fields DEF EntryOK, Same, HandSame, Waiting
  <2>4. ASSUME NEW g \in Tasks, e.fiber = g, Waiting(g, e.thread)
        PROVE  ~Has(t, g)' /\ FiberSame(g) /\ progress'[m_callback[g]] # "parked"
    <3>1. ~Has(t, g)
      BY <1>1, <2>4, NotWaiting DEF Outgoing
    <3>2. progress'[m_callback[g]] # "parked"
      BY <1>6, <2>4 DEF Waiting, TypeOK
    <3>. QED BY <1>2, <1>5, <3>1, <3>2 DEF FiberSame
  <2>. QED BY <1>2, <2>1, <2>2, <2>3, <2>4, EntryKeeps
<1>10. QueueOK'
  <2>1. home[c] \in Threads \cup {AnyThread}
    BY DEF TypeOK
  <2>2. PICK d \in Entry : /\ d = FiberEntry(f, home[c]) /\ d.fiber = f
                           /\ d.callback = Null /\ d.thread = home[c]
    BY <2>1, Fields
  <2>3. m_callback[f] # Null
    BY <1>3, Fields
  <2>4. Waiting(f, d.thread)'
    BY <1>2, <1>3, <1>4, <1>5, <1>6, <2>2, <2>3 DEF Waiting, Same
  <2>5. EntryOK(d)'
    BY <2>2, <2>4 DEF EntryOK
  <2>6. \A e \in Entry : InQueue(e) => EntryOK(e)' /\ Distinct(e, d)
    <3>1. \A e \in Entry : e.callback # Null => e.callback # d.callback
      BY <2>2
    <3>. QED BY <1>9, <2>2, <3>1 DEF Distinct
  <2>7. Push(d)
    BY <1>3, <1>4, <2>2
  <2>. QED BY <2>5, <2>6, <2>7, QueueGrows, SafeParts
<1>11. ASSUME NEW u \in Threads PROVE HandOK(u)'
  <2>1. \A g \in Tasks : Has(u, g) => FiberSame(g)
    BY <1>5 DEF FiberSame
  <2>. QED BY <1>2, <1>8, <2>1, OtherHand, SafeParts
<1>12. ASSUME NEW g \in Tasks PROVE TaskOK(g)'
  <2>1. TaskOK(g)
    BY SafeParts
  <2>2. ParkedOK(g)'
    <3>1. m_callback[g] \in Tasks \cup {Null}
      BY DEF TypeOK
    <3>2. ParkedOK(g)
      BY <2>1 DEF TaskOK
    <3>. QED BY <1>1, <1>2, <1>5, <1>6, <3>1, <3>2 DEF ParkedOK, Scheduling
  <2>3. progress'[g] = "fresh" => progress[g] = "fresh"
    BY <1>6
  <2>. QED BY <1>2, <1>5, <2>1, <2>2, <2>3 DEF TaskOK
<1>. QED BY <1>2, <1>10, <1>11, <1>12 DEF SafeInv, AssertionsHold

\* What YieldToHold waits for is in the queue, for the thread it runs on.
LEMMA ScheduleSelfKeeps ==
  ASSUME TypeOK, SafeInv, Considerate, NEW t \in Threads, ScheduleSelf(t)
  PROVE  SafeInv'
<1>1. /\ HandOK(t) /\ OwnerOK /\ QueueOK /\ HandsApart /\ pc[t] = "body"
      /\ pc'[t] = "parking" /\ \A u \in Threads : u # t => pc'[u] = pc[u]
  BY SafeParts DEF ScheduleSelf, Suspend, Goto, TypeOK
<1>2. PICK f \in Tasks : /\ f = t_fiber[t] /\ f = Current(t) /\ m_state[f] = "EXEC"
                         /\ m_callback[f] # Null /\ Has(t, f)
  BY <1>1 DEF HandOK, StateAt, Engaged, Switching, Outgoing, Ended, Current, Has
<1>3. PICK c \in Tasks : c = m_callback[f]
  BY <1>2 DEF TypeOK
<1>4. HomePinned
  BY DEF Considerate, ScheduleSelf, Suspend
<1>5. Push(FiberEntry(f, t)) /\ home' = [home EXCEPT ![c] = t]
  BY <1>2, <1>3, <1>4 DEF ScheduleSelf, Suspend
<1>6. /\ m_state' = m_state /\ m_callback' = m_callback /\ progress' = progress
      /\ fiberAndThread' = fiberAndThread /\ callback_fiber' = callback_fiber
      /\ t_fiber' = t_fiber /\ failed' \in {"none", "m_mutex"}
      /\ m_stopping' = m_stopping /\ m_rootFiber' = m_rootFiber
  BY SafeParts DEF ScheduleSelf, fiberVars, localVars, controlVars
<1>7. /\ Others(t) /\ HandSame(t)
      /\ \A u \in Threads : Current(u)' = Current(u)
      /\ \A u \in Threads : \A g : Has(u, g)' <=> Has(u, g)
  BY <1>1, <1>6 DEF Others, Same, HandSame, Current, Has
<1>8. progress[c] # "parked"
  BY <1>2, <1>3, SafeParts DEF TaskOK, ParkedOK
<1>9. \A x : Unused(x) => Unused(x)'
  BY <1>6 DEF Unused
<1>10. \A e \in Entry : InQueue(e) => EntryOK(e)' /\ e.fiber # f
  <2>. SUFFICES ASSUME NEW e \in Entry, InQueue(e) PROVE EntryOK(e)' /\ e.fiber # f
    OBVIOUS
  <2>1. EntryOK(e)
    BY <1>1 DEF InQueue, QueueOK
  <2>2. \A g, q : Waiting(g, q) => ~Has(t, g)
    BY <1>1, NotWaiting DEF Outgoing
  <2>3. e.fiber # f
    BY <1>2, <2>1, <2>2, Fields DEF EntryOK
  <2>4. ASSUME NEW x \in Tasks, e.callback = x, e.fiber = Null, Unused(x)
        PROVE  Unused(x)' /\ fiberAndThread'[t].callback # x
    BY <1>6, <1>9, <2>1, <2>4, Fields DEF EntryOK, Waiting
  <2>5. ASSUME NEW g \in Tasks, e.fiber = g, Waiting(g, e.thread)
        PROVE  ~Has(t, g)' /\ FiberSame(g) /\ progress'[m_callback[g]] # "parked"
    BY <1>6, <1>7, <2>2, <2>5 DEF Waiting, FiberSame
  <2>. QED BY <1>7, <2>1, <2>3, <2>4, <2>5, EntryKeeps
<1>11. QueueOK'
  <2>1. PICK d \in Entry : /\ d = FiberEntry(f, t) /\ d.fiber = f
                           /\ d.callback = Null /\ d.thread = t
    BY Fields
  <2>2. \A u \in Threads : Has(u, f) => u = t
    BY <1>1, <1>2 DEF HandsApart
  <2>3. Waiting(f, t)'
    BY <1>1, <1>2, <1>3, <1>6, <1>7, <1>8, <2>2 DEF Waiting
  <2>4. EntryOK(d)'
    BY <2>1, <2>3 DEF EntryOK
  <2>5. \A e \in Entry : InQueue(e) => EntryOK(e)' /\ Distinct(e, d)
    <3>1. \A e \in Entry : e.callback # Null => e.callback # d.callback
      BY <2>1
    <3>. QED BY <1>10, <2>1, <3>1 DEF Distinct
  <2>6. Push(d)
    BY <1>5, <2>1
  <2>. QED BY <1>1, <2>4, <2>5, <2>6, QueueGrows
<1>12. HandOK(t)'
  BY <1>1, <1>6, <1>7 DEF HandOK, HandSame, StateAt, Engaged, Switching, Outgoing
<1>13. ASSUME NEW u \in Threads, u # t PROVE HandOK(u)'
  <2>1. (\A g \in Tasks : Has(u, g) => FiberSame(g)) /\ HandOK(u) /\ Same(u)
    BY <1>6, <1>7, <1>13, SafeParts DEF FiberSame, Others
  <2>. QED BY <1>9, <2>1, OtherHand
<1>14. HandsApart'
  BY <1>1, <1>6, <1>7 DEF HandsApart
<1>15. ASSUME NEW g \in Tasks PROVE TaskOK(g)'
  <2>1. TaskOK(g)
    BY SafeParts
  <2>2. ParkedOK(g)'
    <3>. SUFFICES ASSUME m_callback[g] # Null, progress[m_callback[g]] = "parked"
                  PROVE  /\ m_state[g] = "HOLD" /\ HomePinned
                         /\ \A u \in Threads : Has(u, g)' =>
                              u = home'[m_callback[g]] /\ g = Current(u)' /\ pc'[u] \in Outgoing
      BY <1>6 DEF ParkedOK
    <3>1. /\ m_state[g] = "HOLD" /\ HomePinned
          /\ \A u \in Threads : Has(u, g) =>
               u = home[m_callback[g]] /\ g = Current(u) /\ pc[u] \in Outgoing
      BY <2>1 DEF TaskOK, ParkedOK
    <3>2. m_callback[g] \in Tasks /\ home'[m_callback[g]] = home[m_callback[g]]
      BY <1>3, <1>5, <1>8 DEF TypeOK
    <3>3. \A u \in Threads : Has(u, g) => u # t
      BY <1>1, <3>1 DEF Outgoing
    <3>. QED BY <1>1, <1>7, <3>1, <3>2, <3>3
  <2>. QED BY <1>6, <1>7, <2>1, <2>2 DEF TaskOK
<1>16. OwnerOK'
  BY <1>1, <1>6, RunOwner DEF ScheduleSelf, Goto, RunPc
<1>. QED BY <1>6, <1>11, <1>12, <1>13, <1>14, <1>15, <1>16 DEF SafeInv, AssertionsHold

-----------------------------------------------------------------------------
(* From the queue to the switch. *)

LEMMA TakeKeeps ==
  ASSUME TypeOK, SafeInv, NEW t \in Threads, Take(t)
  PROVE  SafeInv'
<1>1. /\ HandOK(t) /\ OwnerOK /\ QueueOK /\ HandsApart /\ pc[t] = "take"
      /\ pc'[t] = "enter" /\ \A u \in Threads : u # t => pc'[u] = pc[u]
  BY SafeParts DEF Take, Goto, TypeOK
<1>2. PICK i \in DOMAIN m_fibers :
        /\ Eligible(t, m_fibers[i]) /\ m_fibers' = RemoveAt(m_fibers, i)
        /\ fiberAndThread' = [fiberAndThread EXCEPT ![t] = m_fibers[i]]
  BY DEF Take, Eligibles
<1>3. PICK e \in Entry : /\ e = m_fibers[i] /\ EntryOK(e) /\ Eligible(t, e)
                         /\ fiberAndThread'[t] = e
  BY <1>1, <1>2, QueueEntries DEF TypeOK
<1>4. /\ m_state' = m_state /\ m_callback' = m_callback /\ progress' = progress
      /\ callback_fiber' = callback_fiber /\ t_fiber' = t_fiber /\ home' = home
      /\ failed' \in {"none", "m_mutex"} /\ m_stopping' = m_stopping /\ m_rootFiber' = m_rootFiber
  BY SafeParts DEF Take, fiberVars, taskVars, controlVars
<1>5. /\ Others(t)
      /\ \A f : Has(t, f)' <=> f = e.fiber \/ f = callback_fiber[t]
  BY <1>1, <1>2, <1>3, <1>4 DEF Others, Same, HandSame, TypeOK, Has
<1>6. \/ e.fiber = Null /\ Unused(e.callback)
      \/ /\ e.callback = Null /\ e.fiber \in Tasks /\ Waiting(e.fiber, e.thread)
         /\ m_state[e.fiber] \in StateAt("enter") /\ m_callback[e.fiber] # Null
  <2>1. CASE e.fiber = Null /\ Unused(e.callback)
    BY <2>1
  <2>2. CASE e.callback = Null /\ Waiting(e.fiber, e.thread)
    <3>1. e.fiber \in Tasks /\ m_state[e.fiber] # "EXEC"
      BY <1>3, <2>2, Fields DEF Eligible, Waiting
    <3>. QED BY <2>2, <3>1 DEF Waiting, StateAt, Outgoing
  <2>3. \/ e.fiber = Null /\ Unused(e.callback)
        \/ e.callback = Null /\ Waiting(e.fiber, e.thread)
    BY <1>3 DEF EntryOK
  <2>. QED BY <2>1, <2>2, <2>3
<1>7. \A f, p : Waiting(f, p) => ~Has(t, f)
  BY <1>1, NotWaiting DEF Outgoing
<1>8. \A u \in Threads : u # t => fiberAndThread[u].callback # e.callback \/ e.callback = Null
  BY <1>3 DEF EntryOK
<1>9. \A u \in Threads : u # t /\ e.fiber \in Tasks => ~Has(u, e.fiber)
  BY <1>3, <1>6, PoolAssumption DEF Waiting, Eligible, Unused
<1>10. \A x : Unused(x) => Unused(x)'
  BY <1>4 DEF Unused
<1>11. QueueOK'
  <2>. SUFFICES ASSUME NEW d \in Entry, InQueue(d), Distinct(d, e) PROVE EntryOK(d)'
    BY <1>1, <1>2, <1>3, QueueShrinks
  <2>1. EntryOK(d)
    BY <1>1 DEF InQueue, QueueOK
  <2>2. ASSUME NEW x \in Tasks, d.callback = x, d.fiber = Null, Unused(x)
        PROVE  Unused(x)' /\ fiberAndThread'[t].callback # x
    BY <1>3, <1>10, <2>2, Fields DEF Distinct
  <2>3. ASSUME NEW g \in Tasks, d.fiber = g, Waiting(g, d.thread)
        PROVE  ~Has(t, g)' /\ FiberSame(g) /\ progress'[m_callback[g]] # "parked"
    <3>1. ~Has(t, g) /\ g # e.fiber
      BY <1>7, <2>3, Fields DEF Distinct
    <3>. QED BY <1>4, <1>5, <2>3, <3>1 DEF Has, FiberSame, Waiting
  <2>. QED BY <1>5, <2>1, <2>2, <2>3, EntryKeeps
<1>12. HandOK(t)'
  <2>1. callback_fiber[t] # Null =>
          m_state[callback_fiber[t]] = "INIT" /\ callback_fiber[t] # e.fiber
    BY <1>1, <1>6, <1>7 DEF HandOK, Engaged, Switching, Has
  <2>. QED BY <1>1, <1>3, <1>4, <1>6, <1>10, <2>1 DEF HandOK, Engaged, Switching
<1>13. ASSUME NEW u \in Threads, u # t PROVE HandOK(u)'
  <2>1. (\A g \in Tasks : Has(u, g) => FiberSame(g)) /\ HandOK(u) /\ Same(u)
    BY <1>4, <1>5, <1>13, SafeParts DEF FiberSame, Others
  <2>. QED BY <1>10, <2>1, OtherHand
<1>14. HandsApart'
  BY <1>1, <1>3, <1>5, <1>8, <1>9, ApartKeeps DEF Has
<1>15. ASSUME NEW g \in Tasks PROVE TaskOK(g)'
  <2>1. TaskOK(g)
    BY SafeParts
  <2>2. \A u \in Threads : u # t => Current(u)' = Current(u) /\ pc'[u] = pc[u]
                                    /\ (Has(u, g)' <=> Has(u, g))
    BY <1>1, <1>5, OthersHave
  <2>3. g = e.fiber => m_state[g] # "NONE" /\ progress[m_callback[g]] # "parked"
    BY <1>6, Fields DEF Waiting
  <2>4. ParkedOK(g)'
    <3>1. ParkedOK(g)
      BY <2>1 DEF TaskOK
    <3>2. m_callback[g] # Null /\ progress[m_callback[g]] = "parked" => ~Has(t, g)'
      BY <1>1, <1>5, <2>3, <3>1 DEF ParkedOK, Has, Outgoing
    <3>. QED BY <1>4, <2>2, <3>1, <3>2 DEF ParkedOK
  <2>5. m_state[g] = "NONE" => \A u \in Threads : ~Has(u, g)'
    BY <1>5, <2>1, <2>2, <2>3 DEF TaskOK, Has
  <2>. QED BY <1>4, <2>1, <2>4, <2>5 DEF TaskOK
<1>16. OwnerOK'
  BY <1>1, <1>4, RunOwner DEF Take, Goto, RunPc
<1>. QED BY <1>4, <1>11, <1>12, <1>13, <1>14, <1>15, <1>16 DEF SafeInv, AssertionsHold

LEMMA EnterFiberKeeps ==
  ASSUME TypeOK, SafeInv, NEW t \in Threads, EnterFiber(t)
  PROVE  SafeInv'
<1>1. /\ HandOK(t) /\ OwnerOK /\ QueueOK /\ HandsApart /\ pc[t] = "enter"
      /\ pc'[t] = "swap" /\ \A u \in Threads : u # t => pc'[u] = pc[u]
      /\ failed \in {"none", "m_mutex"}
  BY SafeParts DEF EnterFiber, Goto, TypeOK
<1>2. PICK f \in Tasks :
        /\ f = fiberAndThread[t].fiber /\ f = Current(t) /\ fiberAndThread[t].callback = Null
        /\ m_state[f] \in StateAt("enter") /\ m_callback[f] # Null
  BY <1>1 DEF HandOK, EnterFiber, Current
<1>3. /\ m_state' = m_state /\ m_callback' = m_callback /\ progress' = progress
      /\ fiberAndThread' = fiberAndThread /\ callback_fiber' = callback_fiber
      /\ home' = home /\ m_fibers' = m_fibers
      /\ m_stopping' = m_stopping /\ m_rootFiber' = m_rootFiber
  BY DEF EnterFiber, fiberVars, taskVars, localVars, controlVars, queueVars
<1>4. failed' \in {"none", "m_mutex"}
  BY <1>1, <1>2 DEF EnterFiber, Check, StateAt
<1>5. t_fiber'[t] = f /\ Others(t)
  BY <1>1, <1>2, <1>3 DEF EnterFiber, TypeOK, Others, Same, HandSame
<1>6. \A u \in Threads : Current(u)' = Current(u) /\ \A g : Has(u, g)' <=> Has(u, g)
  BY <1>3 DEF Current, Has
<1>7. \A x : Unused(x) => Unused(x)'
  BY <1>3 DEF Unused
<1>8. QueueOK'
  <2>. SUFFICES ASSUME NEW d \in Entry, InQueue(d) PROVE EntryOK(d)'
    BY <1>1, <1>3, QueueStays
  <2>1. EntryOK(d)
    BY <1>1 DEF InQueue, QueueOK
  <2>2. \A g, p : Waiting(g, p) => ~Has(t, g)
    BY <1>1, NotWaiting DEF Outgoing
  <2>3. ASSUME NEW x \in Tasks, d.callback = x, d.fiber = Null, Unused(x)
        PROVE  Unused(x)' /\ fiberAndThread'[t].callback # x
    BY <1>2, <1>3, <1>7, <2>3, Fields
  <2>4. ASSUME NEW g \in Tasks, d.fiber = g, Waiting(g, d.thread)
        PROVE  ~Has(t, g)' /\ FiberSame(g) /\ progress'[m_callback[g]] # "parked"
    BY <1>3, <1>6, <2>2, <2>4 DEF FiberSame, Waiting
  <2>. QED BY <1>5, <2>1, <2>3, <2>4, EntryKeeps
<1>9. HandOK(t)'
  <2>1. callback_fiber[t] # Null =>
          m_state[callback_fiber[t]] = "INIT" /\ callback_fiber[t] # f
    BY <1>1, <1>2 DEF HandOK, Engaged, Switching
  <2>2. Current(t)' = f /\ m_state'[f] \in StateAt("swap")
    BY <1>2, <1>3, <1>6 DEF StateAt, Outgoing
  <2>. HIDE DEF StateAt
  <2>3. pc'[t] \in Engaged /\ pc'[t] \in Switching /\ pc'[t] # "enter"
    BY <1>1 DEF Engaged, Switching
  <2>. QED BY <1>1, <1>2, <1>3, <1>5, <2>1, <2>2, <2>3 DEF HandOK
<1>10. ASSUME NEW u \in Threads, u # t PROVE HandOK(u)'
  <2>1. (\A g \in Tasks : Has(u, g) => FiberSame(g)) /\ HandOK(u) /\ Same(u)
    BY <1>3, <1>5, <1>10, SafeParts DEF FiberSame, Others
  <2>. QED BY <1>7, <2>1, OtherHand
<1>11. HandsApart'
  BY <1>1, <1>3, <1>6 DEF HandsApart
<1>12. ASSUME NEW g \in Tasks PROVE TaskOK(g)'
  <2>1. TaskOK(g)
    BY SafeParts
  <2>2. ParkedOK(g)'
    BY <1>1, <1>3, <1>6, <2>1 DEF TaskOK, ParkedOK, Outgoing
  <2>. QED BY <1>3, <1>6, <2>1, <2>2 DEF TaskOK
<1>13. OwnerOK'
  BY <1>1, <1>3, RunOwner DEF EnterFiber, Goto, RunPc
<1>. QED BY <1>4, <1>8, <1>9, <1>10, <1>11, <1>12, <1>13 DEF SafeInv, AssertionsHold

LEMMA EnterCallbackKeeps ==
  ASSUME TypeOK, SafeInv, NEW t \in Threads, EnterCallback(t)
  PROVE  SafeInv'
<1>1. /\ HandOK(t) /\ OwnerOK /\ QueueOK /\ HandsApart /\ pc[t] = "enter"
      /\ pc'[t] = "swap" /\ \A u \in Threads : u # t => pc'[u] = pc[u]
      /\ failed \in {"none", "m_mutex"}
  BY SafeParts DEF EnterCallback, Goto, TypeOK
<1>2. PICK c \in Tasks : c = fiberAndThread[t].callback /\ Unused(c)
  BY <1>1, Fields DEF HandOK, EnterCallback, Unused
<1>3. PICK f \in Tasks : f = IF callback_fiber[t] = Null THEN c ELSE callback_fiber[t]
  BY HandTypes
<1>4. /\ f = c \/ (m_state[f] = "INIT" /\ Has(t, f))
      /\ callback_fiber[t] \in {Null, f} /\ fiberAndThread[t].fiber = Null
  BY <1>1, <1>3 DEF HandOK, Has, EnterCallback, Engaged, Switching
<1>5. /\ NewFiber(f, c) /\ failed' \in {"none", "m_mutex"}
      /\ callback_fiber' = [callback_fiber EXCEPT ![t] = f]
      /\ fiberAndThread' = [fiberAndThread EXCEPT ![t] = NoEntry]
      /\ t_fiber' = [t_fiber EXCEPT ![t] = f]
  <2>1. CASE callback_fiber[t] = Null
    BY <1>1, <1>2, <1>3, <2>1 DEF EnterCallback
  <2>2. CASE callback_fiber[t] # Null
    <3>1. Reset(f, c) /\ m_state[f] = "INIT"
      BY <1>1, <1>2, <1>3, <2>2
         DEF EnterCallback, HandOK, Engaged, Switching
    <3>. QED BY <1>1, <1>2, <1>3, <2>2, <3>1 DEF EnterCallback, Reset, Check
  <2>. QED BY <2>1, <2>2
<1>6. /\ progress' = progress /\ home' = home /\ m_fibers' = m_fibers
      /\ m_stopping' = m_stopping /\ m_rootFiber' = m_rootFiber
  BY DEF EnterCallback, taskVars, controlVars, queueVars
<1>7. /\ m_state'[f] = "INIT" /\ m_callback'[f] = c
      /\ \A g \in Tasks : g # f => FiberSame(g)
  BY <1>5 DEF NewFiber, FiberSame, TypeOK
<1>8. /\ t_fiber'[t] = f /\ callback_fiber'[t] = f /\ Others(t)
      /\ fiberAndThread'[t].fiber = Null /\ fiberAndThread'[t].callback = Null
      /\ Current(t)' = f
  BY <1>1, <1>5, Fields DEF TypeOK, Others, Same, HandSame, Current
<1>9. \A g \in Tasks : Has(t, g)' <=> g = f
  BY <1>8, Fields DEF Has
<1>10. \A u \in Threads : u # t => ~Has(u, f)
  <2>1. CASE f = c
    BY <1>2, <2>1, SafeParts DEF TaskOK, Unused
  <2>2. CASE m_state[f] = "INIT" /\ Has(t, f)
    BY <1>1, <2>2 DEF HandsApart
  <2>. QED BY <1>4, <2>1, <2>2
<1>11. \A x : Unused(x) /\ x # c => Unused(x)'
  <2>. SUFFICES ASSUME NEW x, Unused(x), x # c PROVE Unused(x)'
    OBVIOUS
  <2>1. x # f /\ x \in Tasks
    BY <1>4 DEF Unused
  <2>. QED BY <1>6, <1>7, <2>1 DEF Unused, FiberSame
<1>12. \A g, p : Waiting(g, p) => ~Has(t, g) /\ g # f
  BY <1>1, <1>2, <1>4, NotWaiting DEF Outgoing, Waiting, Unused
<1>13. QueueOK'
  <2>. SUFFICES ASSUME NEW d \in Entry, InQueue(d) PROVE EntryOK(d)'
    BY <1>1, <1>6, QueueStays
  <2>1. EntryOK(d)
    BY <1>1 DEF InQueue, QueueOK
  <2>2. d.fiber = Null /\ d.callback # Null => d.callback # c
    BY <1>2, <2>1, Fields DEF EntryOK, Waiting
  <2>3. ASSUME NEW x \in Tasks, d.callback = x, d.fiber = Null, Unused(x)
        PROVE  Unused(x)' /\ fiberAndThread'[t].callback # x
    BY <1>8, <1>11, <2>2, <2>3, Fields
  <2>4. ASSUME NEW g \in Tasks, d.fiber = g, Waiting(g, d.thread)
        PROVE  ~Has(t, g)' /\ FiberSame(g) /\ progress'[m_callback[g]] # "parked"
    BY <1>6, <1>7, <1>9, <1>12, <2>4 DEF Waiting
  <2>. QED BY <1>8, <2>1, <2>3, <2>4, EntryKeeps
<1>14. HandOK(t)'
  <2>1. m_state'[f] \in StateAt("swap") /\ m_callback'[f] # Null
    BY <1>7, Fields DEF StateAt, Outgoing
  <2>2. pc'[t] \in Engaged /\ pc'[t] \in Switching /\ pc'[t] # "enter"
    BY <1>1 DEF Engaged, Switching
  <2>. QED BY <1>1, <1>8, <2>1, <2>2 DEF HandOK
<1>15. ASSUME NEW u \in Threads, u # t PROVE HandOK(u)'
  <2>1. (\A g \in Tasks : Has(u, g) => FiberSame(g)) /\ HandOK(u) /\ Same(u)
    BY <1>7, <1>8, <1>10, <1>15, SafeParts DEF Others
  <2>2. fiberAndThread[u].callback # c
    BY <1>1, <1>2, <1>15, Fields DEF HandsApart
  <2>. QED BY <1>11, <2>1, <2>2, OtherHand
<1>16. HandsApart'
  BY <1>1, <1>8, <1>9, <1>10, ApartKeeps
<1>17. ASSUME NEW g \in Tasks PROVE TaskOK(g)'
  <2>1. TaskOK(g)
    BY SafeParts
  <2>2. \A u \in Threads : u # t => Current(u)' = Current(u) /\ pc'[u] = pc[u]
                                    /\ (Has(u, g)' <=> Has(u, g))
    BY <1>1, <1>8, OthersHave
  <2>3. progress'[g] = "fresh" =>
          m_state'[g] = "NONE" /\ \A h \in Tasks : m_callback'[h] # g
    <3>. SUFFICES ASSUME progress[g] = "fresh"
                  PROVE  m_state'[g] = "NONE" /\ \A h \in Tasks : m_callback'[h] # g
      BY <1>6
    <3>1. g # c /\ m_state[g] = "NONE" /\ \A h \in Tasks : m_callback[h] # g
      BY <1>2, <2>1 DEF TaskOK, Unused
    <3>2. g # f
      BY <1>4, <3>1
    <3>. QED BY <1>7, <3>1, <3>2 DEF FiberSame
  <2>4. m_state'[g] = "NONE" => m_callback'[g] = Null /\ \A u \in Threads : ~Has(u, g)'
    BY <1>7, <1>9, <2>1, <2>2 DEF TaskOK, FiberSame
  <2>5. ASSUME NEW h \in Tasks, m_callback'[g] # Null, m_callback'[g] = m_callback'[h]
        PROVE  g = h
    BY <1>2, <1>7, <2>1, <2>5 DEF TaskOK, FiberSame, Unused
  <2>6. ParkedOK(g)'
    <3>1. CASE g = f
      BY <1>2, <1>6, <1>7, <3>1 DEF ParkedOK, Unused
    <3>2. CASE g # f
      <4>1. ParkedOK(g) /\ ~Has(t, g)' /\ FiberSame(g)
        BY <1>7, <1>9, <2>1, <3>2 DEF TaskOK
      <4>. QED BY <1>6, <2>2, <4>1 DEF ParkedOK, FiberSame
    <3>. QED BY <3>1, <3>2
  <2>. QED BY <2>3, <2>4, <2>5, <2>6 DEF TaskOK
<1>18. OwnerOK'
  BY <1>1, <1>6, RunOwner DEF EnterCallback, Goto, RunPc
<1>. QED BY <1>5, <1>13, <1>14, <1>15, <1>16, <1>17, <1>18 DEF SafeInv, AssertionsHold

-----------------------------------------------------------------------------
(* Steps of a thread on the fiber it has switched into. *)

Runs(t, f) ==
  /\ f = Current(t) /\ f = t_fiber[t] /\ Has(t, f)
  /\ m_state[f] \in StateAt(pc[t])
  /\ m_state[f] \in {"INIT", "HOLD", "READY", "EXEC"}
  /\ m_callback[f] \in Tasks
  /\ progress[m_callback[f]] # "parked"
  /\ fiberAndThread[t].callback = Null

LEMMA RunsFiber ==
  ASSUME TypeOK, SafeInv, NEW t \in Threads, pc[t] \in {"swap", "body", "parking"}
  PROVE  \E f \in Tasks : Runs(t, f)
<1>1. HandOK(t) /\ pc[t] \in Engaged /\ pc[t] \in Switching /\ pc[t] \notin Outgoing
  BY SafeParts DEF Engaged, Switching, Outgoing
<1>2. PICK f \in Tasks : /\ f = Current(t) /\ f = t_fiber[t]
                         /\ m_state[f] \in StateAt(pc[t])
                         /\ m_state[f] \notin Ended => m_callback[f] # Null
                         /\ fiberAndThread[t].callback = Null
  BY <1>1 DEF HandOK
<1>3. Has(t, f)
  BY <1>2 DEF Current, Has
<1>4. m_state[f] \in {"INIT", "HOLD", "READY", "EXEC"}
  BY <1>2 DEF StateAt, Outgoing
<1>5. m_callback[f] # Null /\ m_callback[f] \in Tasks
  BY <1>2, <1>4 DEF Ended, TypeOK
<1>6. progress[m_callback[f]] # "parked"
  BY <1>1, <1>3, <1>5, SafeParts DEF TaskOK, ParkedOK
<1>. QED BY <1>2, <1>3, <1>4, <1>5, <1>6 DEF Runs

Running(t, f) ==
  /\ Others(t) /\ HandSame(t)
  /\ \A g \in Tasks : g # f => FiberSame(g)
  /\ m_state'[f] # "NONE" /\ m_callback'[f] \in {m_callback[f], Null}
  /\ progress'[m_callback[f]] # "fresh"
  /\ \A x \in Tasks : x # m_callback[f] => progress'[x] = progress[x] /\ home'[x] = home[x]
  /\ UNCHANGED <<m_fibers, failed>>

LEMMA RunningKeeps ==
  ASSUME TypeOK, SafeInv, NEW t \in Threads, NEW f \in Tasks, Runs(t, f), Running(t, f),
         HandOK(t)', OwnerOK', ParkedOK(f)',
         \A g, p : Waiting(g, p) /\ Has(t, g) => g = f /\ Waiting(g, p)'
  PROVE  SafeInv'
<1>1. /\ Others(t) /\ QueueOK /\ HandsApart /\ failed' \in {"none", "m_mutex"} /\ m_fibers' = m_fibers
      /\ \A g \in Tasks : g # f => FiberSame(g)
  BY SafeParts DEF Running
<1>2. /\ Current(t)' = Current(t) /\ \A g : Has(t, g)' <=> Has(t, g)
      /\ fiberAndThread'[t].callback = Null
  BY HasSame DEF Running, Runs, HandSame
<1>3. \A g \in Tasks : m_callback[g] = m_callback[f] => g = f
  BY SafeParts, Fields DEF TaskOK, Runs
<1>4. \A x : Unused(x) => Unused(x)'
  <2>. SUFFICES ASSUME NEW x, Unused(x) PROVE Unused(x)'
    OBVIOUS
  <2>1. x \in Tasks /\ x # m_callback[f] /\ x # f
    BY DEF Unused, Runs
  <2>2. m_state'[x] = m_state[x] /\ progress'[x] = progress[x]
    BY <2>1 DEF Running, FiberSame
  <2>3. \A g \in Tasks : m_callback'[g] \in {m_callback[g], Null}
    BY DEF Running, FiberSame
  <2>. QED BY <2>2, <2>3, UnusedKeeps, Fields
<1>5. QueueOK'
  <2>. SUFFICES ASSUME NEW d \in Entry, InQueue(d) PROVE EntryOK(d)'
    BY <1>1, QueueStays
  <2>1. EntryOK(d)
    BY <1>1 DEF InQueue, QueueOK
  <2>2. CASE d.callback = Null /\ Waiting(d.fiber, d.thread) /\ Has(t, d.fiber)
    BY <2>2 DEF EntryOK
  <2>3. CASE ~(d.callback = Null /\ Waiting(d.fiber, d.thread) /\ Has(t, d.fiber))
    <3>1. ASSUME NEW x \in Tasks, d.callback = x, d.fiber = Null, Unused(x)
          PROVE  Unused(x)' /\ fiberAndThread'[t].callback # x
      BY <1>2, <1>4, <3>1, Fields
    <3>2. ASSUME NEW g \in Tasks, d.fiber = g, Waiting(g, d.thread)
          PROVE  ~Has(t, g)' /\ FiberSame(g) /\ progress'[m_callback[g]] # "parked"
      <4>1. d.callback = Null
        BY <2>1, <3>2, Fields DEF EntryOK
      <4>2. ~Has(t, g) /\ g # f
        BY <2>3, <3>2, <4>1 DEF Runs
      <4>3. m_callback[g] \in Tasks /\ m_callback[g] # m_callback[f]
        BY <1>3, <3>2, <4>2 DEF Waiting, TypeOK
      <4>. QED BY <1>1, <1>2, <3>2, <4>2, <4>3 DEF Running, Waiting
    <3>. QED BY <1>1, <2>1, <3>1, <3>2, EntryKeeps
  <2>. QED BY <2>2, <2>3
<1>6. ASSUME NEW u \in Threads, u # t PROVE HandOK(u)'
  <2>1. ~Has(u, f) /\ HandOK(u) /\ Same(u)
    BY <1>1, <1>6, SafeParts DEF HandsApart, Runs, Others
  <2>. QED BY <1>1, <1>4, <2>1, OtherHand
<1>7. HandsApart'
  BY <1>1, <1>2, ApartKeeps
<1>8. ASSUME NEW g \in Tasks PROVE TaskOK(g)'
  <2>1. TaskOK(g)
    BY SafeParts
  <2>2. \A u \in Threads : Has(u, g)' <=> Has(u, g)
    BY <1>1, <1>2, OthersHave
  <2>3. progress'[g] = "fresh" =>
          m_state'[g] = "NONE" /\ \A h \in Tasks : m_callback'[h] # g
    <3>. SUFFICES ASSUME progress'[g] = "fresh"
                  PROVE  m_state'[g] = "NONE" /\ \A h \in Tasks : m_callback'[h] # g
      OBVIOUS
    <3>1. g # m_callback[f] /\ progress[g] = "fresh"
      BY DEF Running
    <3>2. m_state[g] = "NONE" /\ \A h \in Tasks : m_callback[h] # g
      BY <2>1, <3>1 DEF TaskOK
    <3>3. g # f
      BY <3>2 DEF Runs
    <3>. QED BY <3>2, <3>3, Fields DEF Running, FiberSame
  <2>4. m_state'[g] = "NONE" => m_callback'[g] = Null /\ \A u \in Threads : ~Has(u, g)'
    BY <1>1, <2>1, <2>2 DEF TaskOK, FiberSame, Running
  <2>5. ASSUME NEW h \in Tasks, m_callback'[g] # Null, m_callback'[g] = m_callback'[h]
        PROVE  g = h
    BY <1>1, <2>1, <2>5 DEF TaskOK, FiberSame, Running
  <2>6. ParkedOK(g)'
    <3>1. CASE g # f
      <4>1. ParkedOK(g) /\ FiberSame(g) /\ m_callback[g] # m_callback[f]
        BY <1>1, <1>3, <2>1, <3>1 DEF TaskOK
      <4>2. m_callback[g] \in Tasks \cup {Null}
        BY DEF TypeOK
      <4>3. m_callback[g] # Null => /\ progress'[m_callback[g]] = progress[m_callback[g]]
                                    /\ home'[m_callback[g]] = home[m_callback[g]]
        BY <4>1, <4>2 DEF Running
      <4>4. m_callback[g] # Null /\ progress[m_callback[g]] = "parked" => ~Has(t, g)
        BY <3>1, <4>1 DEF ParkedOK, Runs
      <4>5. \A u \in Threads : u # t => Current(u)' = Current(u) /\ pc'[u] = pc[u]
        BY <1>1, OthersHave DEF Others, Same
      <4>. QED BY <2>2, <4>1, <4>3, <4>4, <4>5 DEF ParkedOK, FiberSame
    <3>2. CASE g = f
      BY <3>2
    <3>. QED BY <3>1, <3>2
  <2>. QED BY <2>3, <2>4, <2>5, <2>6 DEF TaskOK
<1>. QED BY <1>1, <1>5, <1>6, <1>7, <1>8 DEF SafeInv, AssertionsHold

LEMMA RunningHand ==
  ASSUME TypeOK, NEW t \in Threads, HandOK(t), pc[t] \in {"swap", "body", "parking"},
         NEW f \in Tasks, Runs(t, f), Running(t, f),
         t_fiber' = t_fiber, pc'[t] \in {"body", "leave"},
         m_state'[f] \in StateAt(pc'[t]),
         m_state'[f] \notin Ended => m_callback'[f] # Null
  PROVE  HandOK(t)'
<1>1. HandSame(t) /\ Current(t)' = f /\ t_fiber'[t] = f
  BY HasSame DEF Running, Runs
<1>2. pc[t] \in Engaged /\ pc'[t] \in Engaged /\ pc'[t] # "enter"
  BY DEF Engaged, Switching
<1>3. callback_fiber[t] # Null /\ fiberAndThread[t].fiber # Null =>
        /\ callback_fiber[t] # fiberAndThread[t].fiber
        /\ m_state'[callback_fiber[t]] = "INIT"
  <2>. SUFFICES ASSUME callback_fiber[t] # Null, fiberAndThread[t].fiber # Null
                PROVE  /\ callback_fiber[t] # fiberAndThread[t].fiber
                       /\ m_state'[callback_fiber[t]] = "INIT"
    OBVIOUS
  <2>1. callback_fiber[t] # fiberAndThread[t].fiber /\ m_state[callback_fiber[t]] = "INIT"
    BY DEF HandOK
  <2>2. f = fiberAndThread[t].fiber /\ callback_fiber[t] \in Tasks
    BY HandTypes DEF Runs, Current
  <2>. QED BY <2>1, <2>2 DEF Running, FiberSame
<1>. QED BY <1>1, <1>2, <1>3 DEF HandOK, HandSame, Runs

\* What the steps below have in common.
LEMMA OneRuns ==
  ASSUME TypeOK, NEW t \in Threads, pc[t] \in {"swap", "body", "parking"},
         NEW l, Goto(t, l), UNCHANGED <<fiberAndThread, callback_fiber, t_fiber>>
  PROVE  Others(t) /\ HandSame(t) /\ pc'[t] = l
BY DEF TypeOK, Goto, Others, Same, HandSame

LEMMA SwapInKeeps ==
  ASSUME TypeOK, SafeInv, NEW t \in Threads, SwapIn(t)
  PROVE  SafeInv'
<1>1. HandOK(t) /\ OwnerOK /\ pc[t] = "swap" /\ Goto(t, "body") /\ failed \in {"none", "m_mutex"}
  BY SafeParts DEF SwapIn
<1>2. PICK f \in Tasks : Runs(t, f)
  BY <1>1, RunsFiber
<1>3. /\ t_fiber[t] = f /\ m_state[f] \in {"INIT", "HOLD", "READY"}
      /\ m_callback[f] \in Tasks /\ progress[m_callback[f]] # "parked"
  BY <1>1, <1>2 DEF Runs, StateAt, Outgoing
<1>4. /\ fiberAndThread' = fiberAndThread /\ callback_fiber' = callback_fiber
      /\ t_fiber' = t_fiber /\ m_callback' = m_callback /\ home' = home
      /\ m_fibers' = m_fibers /\ m_stopping' = m_stopping /\ m_rootFiber' = m_rootFiber
  BY DEF SwapIn, localVars, queueVars, controlVars
<1>5. \A g \in Tasks : m_state'[g] = IF g = f THEN "EXEC" ELSE m_state[g]
  BY <1>3 DEF SwapIn, TypeOK
<1>6. failed' = failed
  BY <1>3 DEF SwapIn, Check, Ended
<1>7. /\ \A x \in Tasks : x # m_callback[f] => progress'[x] = progress[x]
      /\ progress'[m_callback[f]] \notin {"fresh", "parked"}
  <2>1. CASE m_state[f] = "INIT"
    BY <1>3, <2>1 DEF SwapIn, TypeOK
  <2>2. CASE m_state[f] # "INIT"
    <3>1. progress' = progress
      BY <1>3, <2>2 DEF SwapIn
    <3>2. progress[m_callback[f]] # "fresh"
      BY <1>3, SafeParts DEF TaskOK
    <3>. QED BY <1>3, <3>1, <3>2
  <2>. QED BY <2>1, <2>2
<1>8. Others(t) /\ HandSame(t) /\ pc'[t] = "body"
  BY <1>1, <1>4, OneRuns
<1>9. Running(t, f)
  BY <1>4, <1>5, <1>6, <1>7, <1>8 DEF Running, FiberSame
<1>10. HandOK(t)'
  <2>1. m_state'[f] \in StateAt(pc'[t])
    BY <1>5, <1>8 DEF StateAt, Outgoing
  <2>. QED BY <1>1, <1>2, <1>3, <1>4, <1>8, <1>9, <2>1, RunningHand, Fields
<1>11. OwnerOK'
  BY <1>1, <1>4, RunOwner DEF Goto, RunPc
<1>12. ParkedOK(f)'
  BY <1>4, <1>7 DEF ParkedOK
<1>13. \A g, p : Waiting(g, p) => ~Has(t, g)
  BY <1>1, NotWaiting DEF Outgoing
<1>. QED BY <1>2, <1>9, <1>10, <1>11, <1>12, <1>13, RunningKeeps

LEMMA FinishKeeps ==
  ASSUME TypeOK, SafeInv, NEW t \in Threads, Finish(t)
  PROVE  SafeInv'
<1>1. HandOK(t) /\ OwnerOK /\ pc[t] = "body" /\ Goto(t, "leave")
  BY SafeParts DEF Finish
<1>2. PICK f \in Tasks : Runs(t, f)
  BY <1>1, RunsFiber
<1>3. t_fiber[t] = f /\ m_callback[f] \in Tasks
  BY <1>2 DEF Runs
<1>4. /\ fiberAndThread' = fiberAndThread /\ callback_fiber' = callback_fiber
      /\ t_fiber' = t_fiber /\ home' = home /\ failed' = failed
      /\ m_fibers' = m_fibers /\ m_stopping' = m_stopping /\ m_rootFiber' = m_rootFiber
  BY DEF Finish, localVars, queueVars, controlVars
<1>5. /\ \A g \in Tasks : g # f => FiberSame(g)
      /\ m_state'[f] \in Ended /\ m_callback'[f] \in {m_callback[f], Null}
  <2>1. CASE /\ m_callback' = [m_callback EXCEPT ![f] = Null]
             /\ m_state' = [m_state EXCEPT ![f] = "TERM"]
    BY <2>1 DEF FiberSame, TypeOK, Ended
  <2>2. CASE m_state' = [m_state EXCEPT ![f] = "EXCEPT"] /\ m_callback' = m_callback
    BY <2>2 DEF FiberSame, TypeOK, Ended
  <2>. QED BY <1>3, <2>1, <2>2 DEF Finish
<1>6. \A x \in Tasks : progress'[x] = IF x = m_callback[f] THEN "ended" ELSE progress[x]
  BY <1>3 DEF Finish, TypeOK
<1>7. Others(t) /\ HandSame(t) /\ pc'[t] = "leave"
  BY <1>1, <1>4, OneRuns
<1>8. Running(t, f)
  BY <1>3, <1>4, <1>5, <1>6, <1>7 DEF Running, FiberSame, Ended
<1>9. HandOK(t)'
  <2>1. m_state'[f] \in StateAt(pc'[t])
    BY <1>5, <1>7 DEF StateAt, Outgoing, Ended
  <2>. QED BY <1>1, <1>2, <1>4, <1>5, <1>7, <1>8, <2>1, RunningHand
<1>10. OwnerOK'
  BY <1>1, <1>4, RunOwner DEF Goto, RunPc
<1>11. ParkedOK(f)'
  BY <1>3, <1>5, <1>6 DEF ParkedOK
<1>12. \A g, p : Waiting(g, p) => ~Has(t, g)
  BY <1>1, NotWaiting DEF Outgoing
<1>. QED BY <1>2, <1>8, <1>9, <1>10, <1>11, <1>12, RunningKeeps

LEMMA YieldToReadyKeeps ==
  ASSUME TypeOK, SafeInv, NEW t \in Threads, YieldToReady(t)
  PROVE  SafeInv'
<1>1. HandOK(t) /\ OwnerOK /\ pc[t] = "body" /\ Goto(t, "leave")
  BY SafeParts DEF YieldToReady, Suspend
<1>2. PICK f \in Tasks : Runs(t, f)
  BY <1>1, RunsFiber
<1>3. /\ t_fiber[t] = f /\ m_callback[f] \in Tasks
      /\ progress[m_callback[f]] \notin {"parked", "fresh"}
  BY <1>2, SafeParts DEF Runs, TaskOK
<1>4. /\ fiberAndThread' = fiberAndThread /\ callback_fiber' = callback_fiber
      /\ t_fiber' = t_fiber /\ progress' = progress /\ failed' = failed
      /\ m_callback' = m_callback
      /\ m_fibers' = m_fibers /\ m_stopping' = m_stopping /\ m_rootFiber' = m_rootFiber
  BY DEF YieldToReady, localVars, queueVars, controlVars
<1>5. \A g \in Tasks : m_state'[g] = IF g = f THEN "READY" ELSE m_state[g]
  BY <1>3 DEF YieldToReady, TypeOK
<1>6. \A x \in Tasks : x # m_callback[f] => home'[x] = home[x]
  BY <1>3 DEF YieldToReady, Suspend, TypeOK
<1>7. Others(t) /\ HandSame(t) /\ pc'[t] = "leave"
  BY <1>1, <1>4, OneRuns
<1>8. Running(t, f)
  BY <1>3, <1>4, <1>5, <1>6, <1>7 DEF Running, FiberSame
<1>9. HandOK(t)'
  <2>1. m_state'[f] \in StateAt(pc'[t])
    BY <1>5, <1>7 DEF StateAt, Outgoing
  <2>. QED BY <1>1, <1>2, <1>3, <1>4, <1>7, <1>8, <2>1, RunningHand, Fields
<1>10. OwnerOK'
  BY <1>1, <1>4, RunOwner DEF Goto, RunPc
<1>11. ParkedOK(f)'
  BY <1>3, <1>4 DEF ParkedOK
<1>12. \A g, p : Waiting(g, p) => ~Has(t, g)
  BY <1>1, NotWaiting DEF Outgoing
<1>. QED BY <1>2, <1>8, <1>9, <1>10, <1>11, <1>12, RunningKeeps

\* Behind schedule() of itself the fiber may be taken by nobody else; and one
\* that waits to be scheduled by another will ask for this thread.
LEMMA YieldToHoldKeeps ==
  ASSUME TypeOK, SafeInv, Considerate, NEW t \in Threads, YieldToHold(t)
  PROVE  SafeInv'
<1>1. HandOK(t) /\ OwnerOK /\ pc[t] \in {"body", "parking"} /\ Goto(t, "leave")
  BY SafeParts DEF YieldToHold, Suspend
<1>2. PICK f \in Tasks : Runs(t, f)
  BY <1>1, RunsFiber
<1>3. PICK c \in Tasks : /\ t_fiber[t] = f /\ c = m_callback[f]
                         /\ progress[c] \notin {"parked", "fresh"} /\ f = Current(t)
  BY <1>2, SafeParts DEF Runs, TaskOK
<1>4. /\ fiberAndThread' = fiberAndThread /\ callback_fiber' = callback_fiber
      /\ t_fiber' = t_fiber /\ failed' = failed /\ m_callback' = m_callback
      /\ m_fibers' = m_fibers /\ m_stopping' = m_stopping /\ m_rootFiber' = m_rootFiber
  BY DEF YieldToHold, localVars, queueVars, controlVars
<1>5. \A g \in Tasks : m_state'[g] = IF g = f THEN "HOLD" ELSE m_state[g]
  BY <1>3 DEF YieldToHold, TypeOK
<1>6. \/ pc[t] = "parking" /\ progress' = progress /\ home' = home
      \/ /\ pc[t] = "body" /\ HomePinned
         /\ progress' = [progress EXCEPT ![c] = "parked"]
         /\ home' = [home EXCEPT ![c] = t]
  BY <1>3 DEF YieldToHold, Suspend, Considerate
<1>7. Others(t) /\ HandSame(t) /\ pc'[t] = "leave"
  BY <1>1, <1>4, OneRuns
<1>8. /\ \A x \in Tasks : x # c => progress'[x] = progress[x] /\ home'[x] = home[x]
      /\ progress'[c] # "fresh"
  BY <1>3, <1>6 DEF TypeOK
<1>9. Running(t, f)
  BY <1>3, <1>4, <1>5, <1>7, <1>8 DEF Running, FiberSame
<1>10. HandOK(t)'
  <2>1. m_state'[f] \in StateAt(pc'[t])
    BY <1>5, <1>7 DEF StateAt, Outgoing
  <2>. QED BY <1>1, <1>2, <1>3, <1>4, <1>7, <1>9, <2>1, RunningHand, Fields
<1>11. OwnerOK'
  BY <1>1, <1>4, RunOwner DEF Goto, RunPc
<1>12. /\ \A u \in Threads : u # t => ~Has(u, f)
       /\ \A u \in Threads : Has(u, f)' => u = t /\ f = Current(u)' /\ pc'[u] \in Outgoing
  <2>1. \A u \in Threads : u # t => ~Has(u, f)
    BY <1>2, SafeParts DEF HandsApart, Runs
  <2>2. \A u \in Threads : u # t => ~Has(u, f)'
    BY <1>7, <2>1, OthersHave
  <2>3. f = Current(t)'
    BY <1>3, <1>7, HasSame
  <2>. QED BY <1>7, <2>1, <2>2, <2>3 DEF Outgoing
<1>13. ParkedOK(f)'
  <2>1. CASE pc[t] = "parking"
    BY <1>3, <1>4, <1>6, <2>1 DEF ParkedOK
  <2>2. CASE pc[t] = "body"
    <3>1. HomePinned /\ home'[c] = t /\ m_callback'[f] = c /\ m_state'[f] = "HOLD"
      BY <1>3, <1>4, <1>5, <1>6, <2>2 DEF TypeOK
    <3>. QED BY <1>12, <3>1 DEF ParkedOK
  <2>. QED BY <1>1, <2>1, <2>2
<1>14. ASSUME NEW g, NEW p, Waiting(g, p), Has(t, g) PROVE g = f /\ Waiting(g, p)'
  <2>1. pc[t] = "parking" /\ g = f /\ t = p /\ m_callback[f] # Null
    BY <1>1, <1>3, <1>14 DEF Waiting, Outgoing
  <2>2. progress' = progress
    BY <1>6, <2>1
  <2>3. Waiting(f, p)'
    <3>1. m_state'[f] = "HOLD" /\ m_callback'[f] = c /\ progress'[c] # "parked"
      BY <1>3, <1>4, <1>5, <2>2
    <3>. QED BY <1>3, <1>12, <2>1, <3>1 DEF Waiting
  <2>. QED BY <2>1, <2>3
<1>. QED BY <1>2, <1>9, <1>10, <1>11, <1>13, <1>14, RunningKeeps

-----------------------------------------------------------------------------
(* The theorems. *)

LEMMA SafeInit ==
  ASSUME Init
  PROVE  SafeInv
<1>1. /\ m_fibers = <<>> /\ failed = "none" /\ m_stopping
      /\ \A f \in Tasks : m_state[f] = "NONE" /\ m_callback[f] = Null /\ progress[f] = "fresh"
      /\ \A t \in Threads : /\ pc[t] \in {"new", "off"}
                            /\ fiberAndThread[t] = NoEntry /\ callback_fiber[t] = Null
  BY DEF Init
<1>2. QueueOK
  BY <1>1 DEF QueueOK
<1>3. \A t \in Threads : \A f \in Tasks : ~Has(t, f)
  BY <1>1, Fields DEF Has
<1>4. \A t \in Threads : HandOK(t)
  BY <1>1, Fields DEF HandOK, Engaged, Switching
<1>5. HandsApart
  BY <1>1, <1>3, Fields DEF HandsApart
<1>6. \A f \in Tasks : TaskOK(f)
  BY <1>1, <1>3, Fields DEF TaskOK, ParkedOK
<1>7. OwnerOK
  BY DEF Init, OwnerOK, RunPc, Threads
<1>. QED BY <1>1, <1>2, <1>4, <1>5, <1>6, <1>7 DEF SafeInv, AssertionsHold

LEMMA SafeStep ==
  ASSUME CountInv, SafeInv, Considerate, [Next]_vars
  PROVE  SafeInv'
<1>. USE DEF CountInv
<1>1. ASSUME NEW t \in Threads, NEW c \in Tasks, Submit(t, c) \/ Resume(t, c)
      PROVE  SafeInv'
  BY <1>1, SubmitKeeps, ResumeKeeps
<1>2. ASSUME NEW f \in Tasks, Resubmit(f) PROVE SafeInv'
  BY <1>2 DEF Resubmit, Considerate, TypeOK
<1>3. ASSUME NEW t \in Threads, RunStep(t) PROVE SafeInv'
  BY <1>3, SmallSteps, TakeKeeps, EnterFiberKeeps, EnterCallbackKeeps, SwapInKeeps,
     FinishKeeps, YieldToReadyKeeps, ScheduleSelfKeeps, YieldToHoldKeeps, RequeueKeeps,
     SettleEndedKeeps, SettleHeldKeeps, RunExitKeeps DEF RunStep
<1>4. CASE Start \/ StopAtOnce \/ StopBegin \/ StopStep \/ Destroy
  BY <1>4, StartKeeps, OwnerSteps
<1>5. CASE UNCHANGED vars
  <2>1. /\ \A t \in Threads : Same(t)
        /\ UNCHANGED <<m_fibers, m_state, m_callback, progress, home, failed>>
        /\ UNCHANGED <<pc, m_rootFiber, m_stopping>>
    BY <1>5 DEF vars, queueVars, controlVars, fiberVars, localVars, taskVars, Same,
         HandSame
  <2>2. OwnerOK' /\ failed' \in {"none", "m_mutex"}
    BY <2>1, SafeParts DEF OwnerOK
  <2>. QED BY <2>1, <2>2, MoveKeeps DEF Moves, Same
<1>. QED BY <1>1, <1>2, <1>3, <1>4, <1>5 DEF Next

LEMMA SafeInvHolds == Considerate => (Spec => []SafeInv)
<1>. SUFFICES ASSUME Considerate PROVE Spec => []SafeInv
  OBVIOUS
<1>1. Spec => []CountInv
  BY CountInvHolds
<1>2. CountInv /\ SafeInv /\ [Next]_vars => SafeInv'
  BY SafeStep
<1>. QED BY <1>1, <1>2, SafeInit, PTL DEF Spec

LEMMA OneThreadPerFiber ==
  ASSUME SafeInv
  PROVE  ExclusiveStack
<1>. SUFFICES ASSUME NEW t \in Threads, NEW u \in Threads, pc[t] \in OnStack,
                     pc[u] \in OnStack, t_fiber[t] = t_fiber[u], t # u
              PROVE  FALSE
  BY DEF ExclusiveStack
<1>1. \A v \in {t, u} : Current(v) \in Tasks /\ t_fiber[v] = Current(v) /\ Has(v, Current(v))
  BY SafeParts DEF OnStack, HandOK, Engaged, Switching, Current, Has
<1>. QED BY <1>1, SafeParts DEF HandsApart

\* No two threads run on one fiber, and no assertion of fiber.cpp or scheduler.cpp
\* fails before start() has spoilt m_fibers, if it does, for any number of threads, tasks and suspensions, of a scheduler whose
\* tasks are resumed on the thread that they left, or only call YieldToReady.
THEOREM TasksSafeHolds == Considerate => (Spec => []TasksSafe)
<1>. SUFFICES ASSUME Considerate PROVE Spec => []TasksSafe
  OBVIOUS
<1>1. Spec => []SafeInv
  BY SafeInvHolds
<1>2. SafeInv => TasksSafe
  BY OneThreadPerFiber DEF TasksSafe, SafeInv
<1>. QED BY <1>1, <1>2, PTL
==============================================================================
