------------------------- MODULE FiberContextProofs -------------------------
(* Fibers and contexts, for any number of threads and fibers: no context is  *)
(* resumed that its stack has left behind, every switch returns to whoever   *)
(* resumed, and a fiber is freed when it has ended and nothing refers to it, *)
(* not before.                                                               *)
EXTENDS FiberContext, FiniteSetTheorems, TLAPS

\* Thread t executes on the stack of f, or is about to.
Entering(t, f) == going[t] = "in" /\ t_fiber[t] = f
Executes(t, f) == running[t] = f \/ Entering(t, f)

\* A thread that is not on its own stack has left it in its main fiber; the
\* owner enters other fibers from within the root fiber.  A thread in the middle
\* of a switch is where that switch began.
ThreadPlaces(t) ==
  /\ running[t] \in Threads => running[t] = t
  /\ running[t] = Root => t = RootThread
  /\ running[t] # t => t_threadFiber[t] = t /\ t \in latest
  /\ t_threadFiber[t] \in {Null, t}
  /\ m_state[t] = IF t_threadFiber[t] = t THEN "EXEC" ELSE "NONE"
  /\ t_fiber[t] = Null <=> t_threadFiber[t] = Null
  /\ ~m_callback[t] /\ at[t] = "body" /\ cur[t] = Null
  /\ t # RootThread =>
       /\ mainFiber[t] \in {Null, t}
       /\ running[t] # t => mainFiber[t] = t
  /\ t = RootThread =>
       /\ mainFiber[t] \in {Null, Root}
       /\ running[t] \in Fibers =>
            /\ mainFiber[t] = Root /\ RootThread \in handles[Root]
            /\ m_state[Root] = "EXEC" /\ Root \in latest
  /\ going[t] = "in" =>
       /\ t_fiber[t] \in Stacked /\ t_threadFiber[t] = t
       /\ t_fiber[t] = Root => t = RootThread /\ running[t] = t
       /\ t_fiber[t] \in Fibers => running[t] = mainFiber[t]
  /\ going[t] = "out" => running[t] \in Fibers
  /\ going[t] = "end" => running[t] \in Stacked

\* What is said of f when thread t executes on its stack: its state is that of the
\* switch that t is in.
Held(t, f) ==
  /\ t \in handles[f] /\ at[f] = "body"
  /\ going[t] \in {"none", "in"} => m_state[f] = "EXEC"
  /\ going[t] = "out" => m_state[f] \in {"HOLD", "READY"}
  /\ going[t] = "end" => m_state[f] \in Ended

\* The state of a fiber says where its stack is, but while a thread is about to
\* enter it or to leave it; one thread at most executes on it; and every stack
\* that is not executed can be resumed where it was left.
StackPlaces(f) ==
  /\ m_state[f] = "NONE" => at[f] # "body"
  /\ m_state[f] = "INIT" => at[f] = "fresh"
  /\ m_state[f] \in {"HOLD", "READY"} => at[f] = "body"
  /\ m_state[f] = "EXEC" =>
       /\ at[f] = "body" \/ \E t \in Threads : Entering(t, f)
       /\ f = Root \/ \E t \in Threads : Executes(t, f)
  /\ m_state[f] \in Ended => at[f] = "ended" \/ \E t \in Threads : running[t] = f
  /\ cur[f] = IF at[f] = "body" THEN f ELSE Null
  /\ \A t \in Threads : running[t] = f => Held(t, f)
  /\ \A t \in Threads :
       Entering(t, f) => /\ t \in handles[f] /\ at[f] # "ended"
                         /\ m_state[f] = "EXEC" /\ running[t] # f
  /\ \A t, u \in Threads : Executes(t, f) /\ Executes(u, f) => t = u
  /\ m_state[f] # "NONE" /\ (\A t \in Threads : running[t] # f) => f \in latest

RootPlaces ==
  /\ handles[Root] \subseteq {RootThread}
  /\ handles[Root] # {} => t_threadFiber[RootThread] = RootThread
  /\ m_state[Root] \notin {"HOLD", "READY"}

Kept == \A f \in Stacked : Exists(f) <=> (handles[f] # {} \/ at[f] = "body")

Living == {o \in Objects : Exists(o)}

Counted == s_fiber_count = Cardinality(Living)

Places ==
  /\ TypeOK
  /\ NothingFails
  /\ ThisIsRunning
  /\ Kept
  /\ \A o \in Objects : m_ctx[o] = o
  /\ \A t \in Threads : ThreadPlaces(t)
  /\ \A f \in Stacked : StackPlaces(f)
  /\ RootPlaces

FInv == Places /\ Counted
-----------------------------------------------------------------------------
LEMMA Kinds ==
  /\ \A t \in Threads : t \notin Stacked /\ t # Null /\ t \in Objects
  /\ \A f \in Stacked : f # Null /\ f \in Objects
  /\ \A f \in Fibers : f # Root /\ f \in Stacked
  /\ Root \in Stacked /\ RootThread \in Threads
  /\ \A o \in Objects : o \in Threads \/ o \in Stacked
  /\ \A f \in Stacked : f = Root \/ f \in Fibers
BY FiberAssumption DEF Stacked, Objects

\* The parts of the invariant, one by one, in this state.
LEMMA Parts ==
  ASSUME FInv
  PROVE  /\ TypeOK /\ NothingFails /\ ThisIsRunning
         /\ Kept /\ RootPlaces /\ Counted
         /\ \A o \in Objects : m_ctx[o] = o
         /\ \A t \in Threads : ThreadPlaces(t)
         /\ \A f \in Stacked : StackPlaces(f)
BY DEF FInv, Places

LEMMA InitFInv == Init => FInv
<1> SUFFICES ASSUME Init PROVE FInv
  OBVIOUS
<1>. USE DEF Init
<1>1. TypeOK
  BY Kinds DEF TypeOK, State
<1>2. NothingFails /\ ThisIsRunning
  BY Kinds DEF NothingFails, ThisIsRunning
<1>4. Kept
  BY Kinds DEF Kept, Exists
<1>5. Counted
  <2>1. Living = {}
    BY DEF Living, Exists
  <2>. QED BY <2>1, FS_EmptySet DEF Counted
<1>6. \A o \in Objects : m_ctx[o] = o
  OBVIOUS
<1>7. \A t \in Threads : ThreadPlaces(t)
  BY Kinds DEF ThreadPlaces
<1>8. \A f \in Stacked : StackPlaces(f)
  BY Kinds DEF StackPlaces, Ended, Held, Entering, Executes
<1>9. RootPlaces
  BY Kinds DEF RootPlaces
<1>. QED BY <1>1, <1>2, <1>4, <1>5, <1>6, <1>7, <1>8, <1>9 DEF FInv, Places

LEMMA LivingFinite == IsFiniteSet(Living)
<1>1. Living \subseteq Objects
  BY DEF Living
<1>. QED BY <1>1, FiberAssumption, FS_Subset

\* What the count of fibers becomes when one is made or destroyed.
LEMMA OneMore ==
  ASSUME Counted, NEW o \in Objects, ~Exists(o), Exists(o)',
         \A p \in Objects \ {o} : m_state'[p] = m_state[p],
         s_fiber_count' = s_fiber_count + 1
  PROVE  Counted'
<1>1. Living' = Living \cup {o}
  BY DEF Living, Exists
<1>2. o \notin Living
  BY DEF Living
<1>3. Cardinality(Living') = Cardinality(Living) + 1
  BY <1>1, <1>2, LivingFinite, FS_AddElement
<1>. QED BY <1>3 DEF Counted

LEMMA OneLess ==
  ASSUME Counted, NEW o \in Objects, Exists(o), ~Exists(o)',
         \A p \in Objects \ {o} : m_state'[p] = m_state[p],
         s_fiber_count' = s_fiber_count - 1
  PROVE  Counted' /\ s_fiber_count' \in Nat
<1>1. Living' = Living \ {o}
  BY DEF Living, Exists
<1>2. o \in Living
  BY DEF Living
<1>3. Cardinality(Living') = Cardinality(Living) - 1
  BY <1>1, <1>2, LivingFinite, FS_RemoveElement
<1>4. IsFiniteSet(Living')
  BY <1>1, LivingFinite, FS_RemoveElement
<1>. QED BY <1>3, <1>4, FS_CardinalityType DEF Counted

LEMMA AsMany ==
  ASSUME Counted, \A o \in Objects : Exists(o)' <=> Exists(o),
         UNCHANGED s_fiber_count
  PROVE  Counted'
<1>1. Living' = Living
  BY DEF Living
<1>. QED BY <1>1 DEF Counted

-----------------------------------------------------------------------------
\* A thread and a fiber that a step does not touch keep what is said of them.
LEMMA ThreadKept ==
  ASSUME NEW u \in Threads, ThreadPlaces(u),
         running'[u] = running[u], t_fiber'[u] = t_fiber[u],
         t_threadFiber'[u] = t_threadFiber[u], mainFiber'[u] = mainFiber[u],
         going'[u] = going[u],
         m_state'[u] = m_state[u], m_callback'[u] = m_callback[u],
         at'[u] = at[u], cur'[u] = cur[u], u \in latest => u \in latest',
         u = RootThread /\ running[u] \in Fibers =>
           /\ m_state'[Root] = m_state[Root] /\ handles'[Root] = handles[Root]
           /\ Root \in latest => Root \in latest'
  PROVE  ThreadPlaces(u)'
BY DEF ThreadPlaces

LEMMA StackKept ==
  ASSUME NEW f \in Stacked, StackPlaces(f),
         m_state'[f] = m_state[f], at'[f] = at[f], cur'[f] = cur[f],
         \A t \in Threads : running'[t] = f <=> running[t] = f,
         \A t \in Threads :
           running[t] = f => \/ going'[t] = going[t]
                             \/ {going[t], going'[t]} \subseteq {"none", "in"},
         \A t \in Threads : Entering(t, f)' <=> Entering(t, f),
         \A t \in Threads : Executes(t, f) /\ t \in handles[f] => t \in handles'[f],
         f \in latest => f \in latest'
  PROVE  StackPlaces(f)'
<1>1. \A t \in Threads : Executes(t, f)' <=> Executes(t, f)
  BY DEF Executes
<1>2. \A t \in Threads : running'[t] = f => Held(t, f)'
  BY DEF StackPlaces, Held, Executes
<1>3. \A t \in Threads :
        Entering(t, f)' => /\ t \in handles'[f] /\ at'[f] # "ended"
                           /\ m_state'[f] = "EXEC" /\ running'[t] # f
  BY DEF StackPlaces, Executes
<1>. QED BY <1>1, <1>2, <1>3 DEF StackPlaces

\* No thread is about to enter another fiber than before.
LEMMA EnteringKept ==
  ASSUME NEW t \in Threads, going[t] = "none", UNCHANGED going,
         \A u \in Threads \ {t} : t_fiber'[u] = t_fiber[u]
  PROVE  \A u \in Threads, f \in Stacked : Entering(u, f)' <=> Entering(u, f)
BY DEF Entering

LEMMA EnteringSame ==
  ASSUME UNCHANGED <<going, t_fiber>>
  PROVE  \A u \in Threads, f \in Stacked : Entering(u, f)' <=> Entering(u, f)
BY DEF Entering

LEMMA GetThisKeeps ==
  ASSUME FInv, NEW t \in Threads, going[t] = "none", UNCHANGED going, GetThis(t)
  PROVE  FInv'
<1>1. TypeOK /\ ThreadPlaces(t) /\ t # Null /\ t \in Objects /\ t \notin Stacked
  BY Parts, Kinds
<1>2. t_fiber[t] = Null
  BY DEF GetThis
<1>3. t_threadFiber[t] = Null
  BY <1>1, <1>2 DEF ThreadPlaces
<1>4. running[t] = t /\ m_state[t] = "NONE"
  BY <1>1, <1>3 DEF ThreadPlaces
<1>5. /\ \A u \in Objects : m_state'[u] = IF u = t THEN "EXEC" ELSE m_state[u]
      /\ \A u \in Threads : t_fiber'[u] = IF u = t THEN t ELSE t_fiber[u]
      /\ \A u \in Threads :
           t_threadFiber'[u] = IF u = t THEN t ELSE t_threadFiber[u]
      /\ UNCHANGED <<contextVars, mainFiber, m_callback, handles, failed>>
  BY <1>1 DEF GetThis, TypeOK
<1>6. Counted' /\ s_fiber_count' \in Nat
  <2>1. s_fiber_count' = s_fiber_count + 1
    BY DEF GetThis
  <2>2. s_fiber_count \in Nat
    BY <1>1 DEF TypeOK
  <2>. QED BY <2>1, <2>2, <1>1, <1>4, <1>5, OneMore, Parts DEF Exists
<1>7. TypeOK'
  <2>1. s_fiber_count' \in Nat
    BY <1>6
  <2>. QED BY <1>1, <2>1 DEF GetThis, TypeOK, State, contextVars
<1>8. NothingFails' /\ \A o \in Objects : m_ctx'[o] = o
  BY Parts, <1>5 DEF NothingFails, contextVars
<1>9. ThisIsRunning'
  BY Parts, <1>4, <1>5 DEF ThisIsRunning, contextVars
<1>10. Kept' /\ RootPlaces'
  BY Parts, <1>1, <1>5, Kinds DEF Kept, RootPlaces, Exists, contextVars
<1>11. ASSUME NEW u \in Threads PROVE ThreadPlaces(u)'
  <2>1. CASE u = t
    <3>1. /\ running'[t] = t /\ t_fiber'[t] = t /\ t_threadFiber'[t] = t
          /\ m_state'[t] = "EXEC" /\ UNCHANGED <<m_callback, at, cur, mainFiber>>
      BY <1>1, <1>4, <1>5 DEF contextVars
    <3>2. t \in Threads /\ t # Root /\ t \notin Fibers
      BY <1>1, Kinds
    <3>. QED BY <2>1, <1>1, <3>1, <3>2 DEF ThreadPlaces
  <2>2. CASE u # t
    BY <2>2, <1>5, Parts, Kinds, ThreadKept DEF contextVars
  <2>. QED BY <2>1, <2>2
<1>12. ASSUME NEW f \in Stacked PROVE StackPlaces(f)'
  <2>1. \A u \in Threads : Entering(u, f)' <=> Entering(u, f)
    BY <1>5, EnteringKept
  <2>2. f # t /\ f \in Objects /\ StackPlaces(f)
    BY <1>1, Parts, Kinds
  <2>. QED BY <1>5, <2>1, <2>2, StackKept DEF contextVars
<1>. QED
  BY <1>6, <1>7, <1>8, <1>9, <1>10, <1>11, <1>12 DEF FInv, Places

LEMMA EnterRunKeeps ==
  ASSUME FInv, NEW t \in Threads, going[t] = "none", UNCHANGED going, EnterRun(t)
  PROVE  FInv'
<1>1. /\ t # RootThread /\ t_fiber[t] # Null /\ mainFiber[t] = Null
      /\ mainFiber' = [mainFiber EXCEPT ![t] = t_fiber[t]]
      /\ UNCHANGED <<m_ctx, latest, at, cur, running, t_threadFiber, t_fiber,
                     m_state, m_callback, handles, s_fiber_count, failed>>
  BY DEF EnterRun, contextVars
<1>2. TypeOK /\ ThreadPlaces(t) /\ t # Null /\ ThisIsRunning
  BY Parts, Kinds
<1>3. running[t] = t /\ t_fiber[t] = t
  BY <1>1, <1>2 DEF ThreadPlaces, ThisIsRunning
<1>4. /\ mainFiber' \in [Threads -> Objects \cup {Null}]
      /\ \A u \in Threads : mainFiber'[u] = IF u = t THEN t ELSE mainFiber[u]
  BY <1>1, <1>2, <1>3, Kinds DEF TypeOK
<1>5. TypeOK'
  BY <1>1, <1>2, <1>4 DEF TypeOK
<1>6. Counted'
  BY <1>1, AsMany, Parts DEF Exists
<1>7. /\ NothingFails' /\ ThisIsRunning'
      /\ Kept' /\ RootPlaces' /\ \A o \in Objects : m_ctx'[o] = o
  BY <1>1, Parts DEF NothingFails, ThisIsRunning, Kept,
                     RootPlaces, Exists
<1>8. ASSUME NEW u \in Threads PROVE ThreadPlaces(u)'
  <2>1. CASE u = t
    BY <2>1, <1>1, <1>2, <1>3, <1>4, Kinds DEF ThreadPlaces
  <2>2. CASE u # t
    BY <2>2, <1>1, <1>4, Parts, ThreadKept
  <2>. QED BY <2>1, <2>2
<1>9. ASSUME NEW f \in Stacked PROVE StackPlaces(f)'
  BY <1>1, Parts, StackKept, EnteringSame
<1>. QED
  BY <1>5, <1>6, <1>7, <1>8, <1>9 DEF FInv, Places

LEMMA ThreadEndKeeps ==
  ASSUME FInv, NEW t \in Threads, going[t] = "none", UNCHANGED going, ThreadEnd(t)
  PROVE  FInv'
<1>1. /\ t_threadFiber[t] # Null /\ running[t] = t
      /\ \A f \in Stacked : t \notin handles[f]
      /\ UNCHANGED <<m_ctx, at, cur, running, m_callback, handles>>
  BY DEF ThreadEnd
<1>2. TypeOK /\ ThreadPlaces(t) /\ t # Null /\ ThisIsRunning /\ t \in Objects
  BY Parts, Kinds
<1>3. t_threadFiber[t] = t /\ m_state[t] = "EXEC" /\ t_fiber[t] = t /\ ~m_callback[t]
  BY <1>1, <1>2 DEF ThreadPlaces, ThisIsRunning
<1>4. /\ \A o \in Objects : m_state'[o] = IF o = t THEN "NONE" ELSE m_state[o]
      /\ \A u \in Threads : t_fiber'[u] = IF u = t THEN Null ELSE t_fiber[u]
      /\ \A u \in Threads :
           t_threadFiber'[u] = IF u = t THEN Null ELSE t_threadFiber[u]
      /\ \A u \in Threads : mainFiber'[u] = IF u = t THEN Null ELSE mainFiber[u]
      /\ latest' = latest \ {t}
      /\ failed' = failed
  BY <1>2, <1>3 DEF ThreadEnd, TypeOK, Check
<1>5. Counted' /\ s_fiber_count' \in Nat
  <2>1. s_fiber_count' = s_fiber_count - 1
    BY DEF ThreadEnd
  <2>2. Exists(t) /\ ~Exists(t)'
    BY <1>2, <1>3, <1>4 DEF Exists
  <2>. QED BY <2>1, <2>2, <1>2, <1>4, OneLess, Parts
<1>6. TypeOK'
  <2>1. /\ m_state' \in [Objects -> State \cup {"NONE"}]
        /\ t_fiber' \in [Threads -> Objects \cup {Null}]
        /\ t_threadFiber' \in [Threads -> Objects \cup {Null}]
        /\ mainFiber' \in [Threads -> Objects \cup {Null}]
    BY <1>2 DEF ThreadEnd, TypeOK
  <2>. QED BY <1>1, <1>2, <1>4, <1>5, <2>1 DEF TypeOK
<1>7. /\ NothingFails' /\ \A o \in Objects : m_ctx'[o] = o
  BY <1>1, <1>4, Parts DEF NothingFails
<1>8. ThisIsRunning'
  BY <1>1, <1>4, Parts DEF ThisIsRunning
<1>9. Kept' /\ RootPlaces'
  BY <1>1, <1>4, Parts, Kinds DEF Kept, RootPlaces, Exists
<1>10. ASSUME NEW u \in Threads PROVE ThreadPlaces(u)'
  <2>1. CASE u = t
    <3>1. /\ running'[t] = t /\ t_fiber'[t] = Null /\ t_threadFiber'[t] = Null
          /\ m_state'[t] = "NONE" /\ mainFiber'[t] = Null
          /\ UNCHANGED <<m_callback, at, cur>>
      BY <1>1, <1>2, <1>4
    <3>2. t # Root /\ t \notin Fibers
      BY Kinds
    <3>. QED BY <2>1, <1>2, <3>1, <3>2 DEF ThreadPlaces
  <2>2. CASE u # t
    BY <2>2, <1>1, <1>4, Parts, Kinds, ThreadKept
  <2>. QED BY <2>1, <2>2
<1>11. ASSUME NEW f \in Stacked PROVE StackPlaces(f)'
  <2>1. f # t /\ f \in Objects /\ StackPlaces(f)
    BY Parts, Kinds
  <2>2. \A u \in Threads : Entering(u, f)' <=> Entering(u, f)
    BY <1>4, EnteringKept
  <2>. QED BY <1>1, <1>4, <2>1, <2>2, StackKept
<1>. QED
  BY <1>5, <1>6, <1>7, <1>8, <1>9, <1>10, <1>11 DEF FInv, Places

-----------------------------------------------------------------------------
LEMMA NewFiberKeeps ==
  ASSUME FInv, NEW t \in Threads, NEW f \in Stacked, NewFiber(t, f),
         UNCHANGED going,
         f = Root => t = RootThread /\ t_fiber[t] # Null,
         mainFiber' \in [Threads -> Objects \cup {Null}],
         \A u \in Threads :
           \/ mainFiber'[u] = mainFiber[u]
           \/ u = RootThread /\ running[u] = u /\ mainFiber'[u] = Root
  PROVE  FInv'
<1>1. /\ ~Exists(f) /\ handles' = [handles EXCEPT ![f] = {t}]
      /\ latest' = latest \cup {f}
      /\ UNCHANGED <<t_threadFiber, t_fiber, cur, running, failed>>
  BY DEF NewFiber, MakeContext
<1>2. TypeOK /\ StackPlaces(f) /\ f # Null /\ f \in Objects /\ f \notin Threads
  BY Parts, Kinds
<1>3. m_state[f] = "NONE"
  BY <1>1, <1>2 DEF Exists
<1>4. handles[f] = {} /\ at[f] # "body"
  BY <1>1, Parts DEF Kept
<1>5. cur[f] = Null /\ \A u \in Threads : running[u] # f /\ ~Entering(u, f)
  BY <1>3, <1>4, <1>2 DEF StackPlaces, Held
<1>6. /\ \A o \in Objects : m_state'[o] = IF o = f THEN "INIT" ELSE m_state[o]
      /\ \A o \in Objects : m_callback'[o] = IF o = f THEN TRUE ELSE m_callback[o]
      /\ \A o \in Objects : at'[o] = IF o = f THEN "fresh" ELSE at[o]
      /\ \A o \in Objects : m_ctx'[o] = IF o = f THEN f ELSE m_ctx[o]
      /\ \A g \in Stacked : handles'[g] = IF g = f THEN {t} ELSE handles[g]
  BY <1>2 DEF NewFiber, MakeContext, TypeOK
<1>7. Counted' /\ s_fiber_count' \in Nat
  <2>1. s_fiber_count' = s_fiber_count + 1
    BY DEF NewFiber
  <2>2. s_fiber_count \in Nat
    BY <1>2 DEF TypeOK
  <2>3. Exists(f)'
    BY <1>2, <1>6 DEF Exists
  <2>. QED BY <2>1, <2>2, <2>3, <1>1, <1>2, <1>6, OneMore, Parts
<1>8. TypeOK'
  <2>1. /\ m_state' \in [Objects -> State \cup {"NONE"}]
        /\ m_callback' \in [Objects -> BOOLEAN]
        /\ m_ctx' \in [Objects -> Objects]
        /\ at' \in [Objects -> {"fresh", "body", "ended"}]
        /\ handles' \in [Stacked -> SUBSET Threads]
    BY <1>2 DEF NewFiber, MakeContext, TypeOK, State
  <2>. QED BY <1>1, <1>2, <1>7, <2>1 DEF TypeOK
<1>9. NothingFails' /\ \A o \in Objects : m_ctx'[o] = o
  BY <1>1, <1>6, Parts DEF NothingFails
<1>10. ThisIsRunning'
  BY <1>1, Parts DEF ThisIsRunning
<1>11. Kept'
  BY <1>2, <1>6, Parts, Kinds DEF Kept, Exists
<1>12. RootPlaces'
  <2>1. CASE f = Root
    <3>1. t_threadFiber[RootThread] = RootThread
      BY <2>1, Parts, Kinds DEF ThreadPlaces
    <3>. QED BY <2>1, <3>1, <1>1, <1>2, <1>6 DEF RootPlaces
  <2>2. CASE f # Root
    BY <2>2, <1>1, <1>6, Parts, Kinds DEF RootPlaces
  <2>. QED BY <2>1, <2>2
<1>13. ASSUME NEW u \in Threads PROVE ThreadPlaces(u)'
  <2>1. u \in Objects /\ u # f /\ ThreadPlaces(u) /\ Root \in Objects /\ Root \in Stacked
    BY <1>2, Parts, Kinds
  <2>2. /\ running'[u] = running[u] /\ t_fiber'[u] = t_fiber[u]
        /\ t_threadFiber'[u] = t_threadFiber[u]
        /\ m_state'[u] = m_state[u] /\ m_callback'[u] = m_callback[u]
        /\ at'[u] = at[u] /\ cur'[u] = cur[u] /\ latest \subseteq latest'
    BY <1>1, <1>6, <2>1
  <2>3. u = RootThread /\ running[u] \in Fibers => f # Root
    BY <1>3, <2>1, Kinds DEF ThreadPlaces
  <2>4. f # Root => m_state'[Root] = m_state[Root] /\ handles'[Root] = handles[Root]
    BY <1>6, <2>1
  <2>5. CASE mainFiber'[u] = mainFiber[u]
    BY <2>1, <2>2, <2>3, <2>4, <2>5, ThreadKept
  <2>6. CASE u = RootThread /\ running[u] = u /\ mainFiber'[u] = Root
    BY <2>1, <2>2, <2>6, Kinds DEF ThreadPlaces
  <2>. QED BY <2>5, <2>6
<1>14. ASSUME NEW g \in Stacked PROVE StackPlaces(g)'
  <2>. g \in Objects /\ StackPlaces(g) /\ \A u \in Threads : Entering(u, g)' <=> Entering(u, g)
    BY <1>1, EnteringSame, Parts, Kinds
  <2>1. CASE g = f
    <3>1. /\ m_state'[f] = "INIT" /\ at'[f] = "fresh" /\ cur'[f] = Null /\ f \in latest'
          /\ \A u \in Threads : ~Executes(u, f)' /\ running'[u] # f
      BY <2>1, <1>1, <1>2, <1>5, <1>6 DEF Executes
    <3>. QED BY <2>1, <3>1 DEF StackPlaces, Ended, Executes
  <2>2. CASE g # f
    BY <2>2, <1>1, <1>6, StackKept
  <2>. QED BY <2>1, <2>2
<1>. QED
  BY <1>7, <1>8, <1>9, <1>10, <1>11, <1>12, <1>13, <1>14 DEF FInv, Places

LEMMA ConstructKeeps ==
  ASSUME FInv, NEW t \in Threads, UNCHANGED going, NEW f \in Fibers, Construct(t, f)
  PROVE  FInv'
<1>1. NewFiber(t, f) /\ mainFiber' = mainFiber
  BY DEF Construct
<1>2. mainFiber \in [Threads -> Objects \cup {Null}]
  BY Parts DEF TypeOK
<1>. QED BY <1>1, <1>2, Kinds, NewFiberKeeps

LEMMA ConstructRootKeeps ==
  ASSUME FInv, UNCHANGED going, ConstructRoot
  PROVE  FInv'
<1>1. /\ NewFiber(RootThread, Root) /\ running[RootThread] = RootThread
      /\ t_fiber[RootThread] # Null
      /\ mainFiber' = [mainFiber EXCEPT ![RootThread] = Root]
  BY DEF ConstructRoot
<1>2. mainFiber \in [Threads -> Objects \cup {Null}] /\ Root \in Objects
  BY Parts, Kinds DEF TypeOK
<1>3. /\ mainFiber' \in [Threads -> Objects \cup {Null}]
      /\ \A u \in Threads :
           mainFiber'[u] = IF u = RootThread THEN Root ELSE mainFiber[u]
  BY <1>1, <1>2
<1>. QED BY <1>1, <1>3, Kinds, NewFiberKeeps

LEMMA ResetKeeps ==
  ASSUME FInv, NEW t \in Threads, UNCHANGED going, NEW f \in Fibers, Reset(t, f)
  PROVE  FInv'
<1>1. /\ t \in handles[f] /\ at[f] # "body"
      /\ \A u \in Threads : running[u] # f /\ ~Entering(u, f)
      /\ latest' = latest \cup {f}
      /\ UNCHANGED <<cur, running, t_threadFiber, mainFiber, t_fiber, handles,
                     s_fiber_count>>
  BY DEF Reset, MakeContext, threadVars, Executed, Entering
<1>2. /\ TypeOK /\ StackPlaces(f) /\ f # Null /\ f # Root
      /\ f \in Objects /\ f \in Stacked /\ f \notin Threads
  BY Parts, Kinds
<1>3. cur[f] = Null /\ m_state[f] \in Ended \cup {"INIT"} /\ failed' = failed
  <2>1. m_state[f] # "NONE"
    BY <1>1, <1>2, Parts DEF Kept, Exists
  <2>2. m_state[f] \notin {"HOLD", "READY", "EXEC"} /\ cur[f] = Null
    BY <1>1, <1>2 DEF StackPlaces
  <2>3. m_state[f] \in Ended \cup {"INIT"}
    BY <2>1, <2>2, <1>2 DEF TypeOK, State, Ended
  <2>. QED BY <2>2, <2>3 DEF Reset, Check
<1>4. /\ \A o \in Objects : m_state'[o] = IF o = f THEN "INIT" ELSE m_state[o]
      /\ \A o \in Objects : o # f => m_callback'[o] = m_callback[o]
      /\ \A o \in Objects : at'[o] = IF o = f THEN "fresh" ELSE at[o]
      /\ \A o \in Objects : m_ctx'[o] = IF o = f THEN f ELSE m_ctx[o]
  BY <1>2 DEF Reset, MakeContext, TypeOK
<1>5. Exists(f)
  BY <1>2, <1>3 DEF Exists, Ended
<1>6. Counted'
  BY <1>1, <1>4, <1>5, AsMany, Parts DEF Exists
<1>7. TypeOK'
  <2>1. /\ m_state' \in [Objects -> State \cup {"NONE"}]
        /\ m_callback' \in [Objects -> BOOLEAN]
        /\ m_ctx' \in [Objects -> Objects]
        /\ at' \in [Objects -> {"fresh", "body", "ended"}]
    BY <1>2 DEF Reset, MakeContext, TypeOK, State
  <2>. QED BY <1>1, <1>2, <1>3, <2>1 DEF TypeOK
<1>8. NothingFails' /\ \A o \in Objects : m_ctx'[o] = o
  BY <1>3, <1>4, Parts DEF NothingFails
<1>9. ThisIsRunning'
  BY <1>1, Parts DEF ThisIsRunning
<1>10. Kept'
  BY <1>1, <1>2, <1>3, <1>4, <1>5, Parts, Kinds DEF Kept, Exists
<1>11. RootPlaces'
  BY <1>1, <1>2, <1>4, Parts, Kinds DEF RootPlaces
<1>12. ASSUME NEW u \in Threads PROVE ThreadPlaces(u)'
  BY <1>1, <1>2, <1>4, Parts, Kinds, ThreadKept
<1>13. ASSUME NEW g \in Stacked PROVE StackPlaces(g)'
  <2>. g \in Objects /\ StackPlaces(g) /\ \A u \in Threads : Entering(u, g)' <=> Entering(u, g)
    BY <1>1, EnteringSame, Parts, Kinds
  <2>1. CASE g = f
    <3>1. /\ m_state'[f] = "INIT" /\ at'[f] = "fresh" /\ cur'[f] = Null /\ f \in latest'
          /\ \A u \in Threads : ~Executes(u, f)' /\ running'[u] # f
      BY <2>1, <1>1, <1>2, <1>3, <1>4 DEF Executes
    <3>. QED BY <2>1, <3>1 DEF StackPlaces, Ended, Executes
  <2>2. CASE g # f
    BY <2>2, <1>1, <1>4, StackKept
  <2>. QED BY <2>1, <2>2
<1>. QED
  BY <1>6, <1>7, <1>8, <1>9, <1>10, <1>11, <1>12, <1>13 DEF FInv, Places

LEMMA ShareKeeps ==
  ASSUME FInv, NEW t \in Threads, NEW u \in Threads, NEW f \in Fibers,
         UNCHANGED going, Share(t, u, f)
  PROVE  FInv'
<1>1. /\ t \in handles[f]
      /\ handles' = [handles EXCEPT ![f] = @ \cup {u}]
      /\ UNCHANGED <<m_ctx, latest, at, cur, running, t_threadFiber, mainFiber,
                     t_fiber, m_state, m_callback, s_fiber_count, failed>>
  BY DEF Share, contextVars, threadVars
<1>2. TypeOK /\ f # Root /\ f \in Stacked
  BY Parts, Kinds
<1>3. /\ handles' \in [Stacked -> SUBSET Threads]
      /\ \A g \in Stacked :
           handles'[g] = IF g = f THEN handles[f] \cup {u} ELSE handles[g]
  BY <1>1, <1>2 DEF TypeOK
<1>4. TypeOK'
  BY <1>1, <1>2, <1>3 DEF TypeOK
<1>5. Counted'
  BY <1>1, AsMany, Parts DEF Exists
<1>6. /\ NothingFails' /\ ThisIsRunning'
      /\ \A o \in Objects : m_ctx'[o] = o
  BY <1>1, Parts DEF NothingFails, ThisIsRunning
<1>7. Kept'
  BY <1>1, <1>3, Parts DEF Kept, Exists
<1>8. RootPlaces'
  BY <1>1, <1>2, <1>3, Parts, Kinds DEF RootPlaces
<1>9. ASSUME NEW v \in Threads PROVE ThreadPlaces(v)'
  BY <1>1, <1>2, <1>3, Parts, Kinds, ThreadKept
<1>10. ASSUME NEW g \in Stacked PROVE StackPlaces(g)'
  BY <1>1, <1>3, Parts, StackKept, EnteringSame
<1>. QED
  BY <1>4, <1>5, <1>6, <1>7, <1>8, <1>9, <1>10 DEF FInv, Places

LEMMA DropKeeps ==
  ASSUME FInv, NEW t \in Threads, going[t] = "none", UNCHANGED going,
         NEW f \in Stacked, Drop(t, f)
  PROVE  FInv'
<1>1. /\ t \in handles[f] /\ running[t] # f /\ (f = Root => running[t] = t)
      /\ Release(f, handles[f] \ {t}, cur)
      /\ UNCHANGED <<m_ctx, at, running, t_threadFiber, mainFiber, t_fiber,
                     m_callback>>
  BY DEF Drop, threadVars
<1>2. /\ TypeOK /\ StackPlaces(f) /\ f # Null /\ f \in Objects /\ f \notin Threads
      /\ ThisIsRunning /\ ThreadPlaces(t)
  BY Parts, Kinds
<1>3. Exists(f)
  BY <1>1, Parts DEF Kept
<1>4. /\ cur' = cur
      /\ handles' \in [Stacked -> SUBSET Threads]
      /\ \A g \in Stacked :
           handles'[g] = IF g = f THEN handles[f] \ {t} ELSE handles[g]
  BY <1>1, <1>2 DEF Release, TypeOK
<1>5. /\ \A u \in Threads : u # t /\ u \in handles[f] => u \in handles'[f]
      /\ f = Root => t = RootThread
  BY <1>1, <1>4, Parts DEF RootPlaces
<1>6. ThisIsRunning' /\ \A o \in Objects : m_ctx'[o] = o
  BY <1>1, <1>4, Parts DEF ThisIsRunning
<1>7. CASE handles[f] \ {t} = {} /\ \A s \in Objects : cur[s] # f
  <2>1. /\ at[f] # "body" /\ m_state[f] \in Ended \cup {"INIT"}
        /\ \A u \in Threads : running[u] # f /\ ~Entering(u, f)
    <3>1. at[f] # "body"
      BY <1>2, <1>7 DEF StackPlaces
    <3>2. \A u \in Threads : running[u] # f
      BY <1>2, <3>1 DEF StackPlaces, Held
    <3>3. ASSUME NEW u \in Threads, Entering(u, f) PROVE FALSE
      <4>1. u \in handles[f]
        BY <1>2, <3>3 DEF StackPlaces
      <4>2. u = t
        BY <4>1, <1>7
      <4>. QED BY <4>2, <3>3 DEF Entering
    <3>4. m_state[f] \notin {"NONE", "HOLD", "READY", "EXEC"}
      BY <1>2, <1>3, <3>1, <3>3 DEF StackPlaces, Exists
    <3>5. m_state[f] \in Ended \cup {"INIT"}
      BY <1>2, <3>4 DEF TypeOK, State, Ended
    <3>. QED BY <3>1, <3>2, <3>3, <3>5
  <2>2. /\ \A o \in Objects : m_state'[o] = IF o = f THEN "NONE" ELSE m_state[o]
        /\ m_state' \in [Objects -> State \cup {"NONE"}]
        /\ latest' = latest \ {f} /\ failed' = failed
    BY <1>1, <1>2, <1>7, <2>1 DEF Release, TypeOK, Check
  <2>3. Counted' /\ s_fiber_count' \in Nat
    <3>1. s_fiber_count' = s_fiber_count - 1
      BY <1>1, <1>7 DEF Release
    <3>2. ~Exists(f)'
      BY <1>2, <2>2 DEF Exists
    <3>. QED BY <3>1, <3>2, <1>2, <1>3, <2>2, OneLess, Parts
  <2>4. TypeOK'
    BY <1>1, <1>2, <1>4, <2>2, <2>3 DEF TypeOK
  <2>5. NothingFails'
    BY <2>2, Parts DEF NothingFails
  <2>6. Kept'
    BY <1>1, <1>2, <1>4, <1>7, <2>1, <2>2, Parts, Kinds DEF Kept, Exists
  <2>7. RootPlaces'
    BY <1>1, <1>4, <2>2, Parts, Kinds DEF RootPlaces
  <2>9. ASSUME NEW u \in Threads PROVE ThreadPlaces(u)'
    <3>1. u \in Objects /\ u # f /\ ThreadPlaces(u) /\ Root \in Objects
          /\ Root \in Stacked
      BY <1>2, Parts, Kinds
    <3>2. u = RootThread /\ running[u] \in Fibers => f # Root
      BY <3>1, <2>1, Kinds DEF ThreadPlaces, Ended
    <3>. QED BY <1>1, <1>4, <2>2, <3>1, <3>2, ThreadKept
  <2>10. ASSUME NEW g \in Stacked PROVE StackPlaces(g)'
    <3>. g \in Objects /\ StackPlaces(g) /\ \A u \in Threads : Entering(u, g)' <=> Entering(u, g)
      BY <1>1, EnteringSame, Parts, Kinds
    <3>1. CASE g = f
      <4>1. /\ m_state'[f] = "NONE" /\ at'[f] # "body" /\ cur'[f] = cur[f]
            /\ \A u \in Threads : ~Executes(u, f)' /\ running'[u] # f
        BY <3>1, <1>1, <1>2, <1>4, <2>1, <2>2 DEF Executes
      <4>. QED BY <3>1, <4>1, <1>1, <1>2 DEF StackPlaces, Ended, Executes
    <3>2. CASE g # f
      BY <3>2, <1>1, <1>4, <2>2, StackKept
    <3>. QED BY <3>1, <3>2
  <2>. QED
    BY <1>6, <2>3, <2>4, <2>5, <2>6, <2>7, <2>9, <2>10 DEF FInv, Places
<1>8. CASE ~(handles[f] \ {t} = {} /\ \A s \in Objects : cur[s] # f)
  <2>1. UNCHANGED <<m_state, s_fiber_count, latest, failed>>
    BY <1>1, <1>8 DEF Release
  <2>2. handles[f] \ {t} # {} \/ at[f] = "body"
    BY <1>2, <1>8 DEF StackPlaces, ThisIsRunning
  <2>3. TypeOK'
    BY <1>1, <1>2, <1>4, <2>1 DEF TypeOK
  <2>4. Counted'
    BY <2>1, AsMany, Parts DEF Exists
  <2>5. NothingFails'
    BY <2>1, Parts DEF NothingFails
  <2>6. Kept'
    BY <1>1, <1>3, <1>4, <2>1, <2>2, Parts DEF Kept, Exists
  <2>7. RootPlaces'
    BY <1>1, <1>4, <2>1, Parts, Kinds DEF RootPlaces
  <2>8. ASSUME NEW u \in Threads PROVE ThreadPlaces(u)'
    <3>1. u = RootThread /\ running[u] \in Fibers => f # Root
      BY <1>1, <1>5, Kinds
    <3>2. Root \in Stacked /\ ThreadPlaces(u)
      BY Parts, Kinds
    <3>. QED BY <1>1, <1>4, <2>1, <3>1, <3>2, ThreadKept
  <2>9. ASSUME NEW g \in Stacked PROVE StackPlaces(g)'
    <3>1. ASSUME NEW u \in Threads, Executes(u, g), u \in handles[g]
          PROVE  u \in handles'[g]
      <4>1. g = f => u # t
        BY <3>1, <1>1 DEF Executes, Entering
      <4>. QED BY <3>1, <4>1, <1>4
    <3>2. \A u \in Threads : Entering(u, g)' <=> Entering(u, g)
      BY <1>1, EnteringSame
    <3>. QED BY <1>1, <1>4, <2>1, <3>1, <3>2, Parts, StackKept
  <2>. QED
    BY <1>6, <2>3, <2>4, <2>5, <2>6, <2>7, <2>8, <2>9 DEF FInv, Places
<1>. QED BY <1>7, <1>8

-----------------------------------------------------------------------------
\* swapIn() and call() as far as swapcontext.
LEMMA SwitchToKeeps ==
  ASSUME FInv, NEW t \in Threads, NEW f \in Stacked, SwitchTo(t, f),
         going[t] = "none", failed' = failed,
         t \in handles[f], m_state[f] \notin Ended,
         \A u \in Threads : ~Executes(u, f), t_threadFiber[t] = t,
         f = Root => t = RootThread /\ running[t] = t,
         f \in Fibers => running[t] = mainFiber[t]
  PROVE  FInv'
<1>1. /\ t_fiber' = [t_fiber EXCEPT ![t] = f]
      /\ m_state' = [m_state EXCEPT ![f] = "EXEC"]
      /\ going' = [going EXCEPT ![t] = "in"]
      /\ UNCHANGED <<m_ctx, latest, at, cur, running, t_threadFiber, mainFiber,
                     m_callback, handles, s_fiber_count>>
  BY DEF SwitchTo, SetThis, contextVars, threadVars, objectVars
<1>2. /\ TypeOK /\ StackPlaces(f) /\ ThreadPlaces(t) /\ ThisIsRunning
      /\ f \in Objects /\ f # Null /\ f \notin Threads
      /\ t \in Objects /\ t # Null /\ t # f /\ t \notin Stacked
      /\ Root \in Objects /\ Root \in Stacked
  BY Parts, Kinds
<1>3. Exists(f) /\ m_state[f] # "NONE"
  BY <1>2, Parts DEF Kept, Exists
<1>4. f \in latest /\ \A u \in Threads : running[u] # f
  BY <1>2, <1>3 DEF StackPlaces, Executes
<1>5. at[f] # "ended"
  <2>1. m_state[f] \in {"INIT", "HOLD", "READY", "EXEC"}
    BY <1>2, <1>3 DEF TypeOK, State, Ended
  <2>. QED BY <2>1, <1>2 DEF StackPlaces, Executes
<1>6. /\ \A o \in Objects : m_state'[o] = IF o = f THEN "EXEC" ELSE m_state[o]
      /\ \A u \in Threads : t_fiber'[u] = IF u = t THEN f ELSE t_fiber[u]
      /\ \A u \in Threads : going'[u] = IF u = t THEN "in" ELSE going[u]
  BY <1>1, <1>2 DEF TypeOK
<1>7. TypeOK'
  <2>1. /\ m_state' \in [Objects -> State \cup {"NONE"}]
        /\ t_fiber' \in [Threads -> Objects \cup {Null}]
        /\ going' \in [Threads -> {"none", "in", "out", "end"}]
    BY <1>1, <1>2 DEF TypeOK, State
  <2>. QED BY <2>1, <1>1, <1>2 DEF TypeOK
<1>8. Counted'
  BY <1>1, <1>3, <1>6, AsMany, Parts DEF Exists
<1>9. NothingFails' /\ \A o \in Objects : m_ctx'[o] = o
  BY <1>1, Parts DEF NothingFails
<1>10. ThisIsRunning'
  BY <1>1, <1>2, <1>6 DEF ThisIsRunning
<1>11. Kept'
  BY <1>1, <1>3, <1>6, Parts, Kinds DEF Kept, Exists
<1>12. RootPlaces'
  BY <1>1, <1>2, <1>6, Parts DEF RootPlaces
<1>13. ASSUME NEW u \in Threads PROVE ThreadPlaces(u)'
  <2>. u \in Objects /\ u # f /\ ThreadPlaces(u)
    BY <1>2, Parts, Kinds
  <2>1. CASE u = t
    <3>1. /\ going'[t] = "in" /\ t_fiber'[t] = f
          /\ UNCHANGED <<m_state[t], m_callback[t], at[t], cur[t], running[t], latest,
                         t_threadFiber[t], mainFiber[t], handles>>
      BY <1>1, <1>2, <1>6
    <3>2. m_state[Root] = "EXEC" => m_state'[Root] = "EXEC"
      BY <1>2, <1>6
    <3>. QED BY <2>1, <1>2, <3>1, <3>2 DEF ThreadPlaces
  <2>2. CASE u # t
    <3>1. u = RootThread => f # Root
      BY <2>2
    <3>2. u = RootThread => m_state'[Root] = m_state[Root]
      BY <3>1, <1>2, <1>6
    <3>. QED BY <2>2, <3>2, <1>1, <1>6, ThreadKept
  <2>. QED BY <2>1, <2>2
<1>14. ASSUME NEW g \in Stacked PROVE StackPlaces(g)'
  <2>. g \in Objects /\ StackPlaces(g)
    BY Parts, Kinds
  <2>1. CASE g = f
    <3>1. Entering(t, f)' /\ Executes(t, f)'
      BY <1>6 DEF Entering, Executes
    <3>2. \A u \in Threads : Executes(u, f)' => u = t
      BY <1>1, <1>6 DEF Entering, Executes
    <3>3. m_state'[f] = "EXEC" /\ at'[f] = at[f] /\ cur'[f] = cur[f] /\ f \in latest'
          /\ \A u \in Threads : running'[u] # f
      BY <1>1, <1>2, <1>4, <1>6
    <3>4. \A u \in Threads : Entering(u, f)' => u \in handles'[f] /\ at'[f] # "ended"
      BY <3>2, <1>1, <1>5 DEF Executes
    <3>. QED BY <2>1, <3>1, <3>2, <3>3, <3>4, <1>2 DEF StackPlaces, Ended
  <2>2. CASE g # f
    <3>1. \A u \in Threads : Entering(u, g)' <=> Entering(u, g)
      BY <2>2, <1>6 DEF Entering
    <3>2. m_state'[g] = m_state[g]
      BY <2>2, <1>6
    <3>. QED BY <3>1, <3>2, <1>1, <1>6, StackKept
  <2>. QED BY <2>1, <2>2
<1>. QED
  BY <1>7, <1>8, <1>9, <1>10, <1>11, <1>12, <1>13, <1>14 DEF FInv, Places

LEMMA SwapInKeeps ==
  ASSUME FInv, NEW t \in Threads, going[t] = "none", NEW f \in Fibers, SwapIn(t, f)
  PROVE  FInv'
<1>1. /\ Exists(mainFiber[t]) /\ running[t] = mainFiber[t] /\ t \in handles[f]
      /\ m_state[f] \notin Ended /\ SwitchTo(t, f)
      /\ \A u \in Threads : ~Executes(u, f)
      /\ failed' = IF m_state[f] # "EXEC" THEN failed ELSE "swapIn"
  BY DEF SwapIn, Executed, Executes, Entering, Check
<1>2. f \in Stacked /\ f # Root /\ StackPlaces(f) /\ ThreadPlaces(t)
  BY Parts, Kinds
<1>3. m_state[f] # "EXEC"
  BY <1>1, <1>2 DEF StackPlaces
<1>4. t_threadFiber[t] = t
  <2>1. CASE running[t] = t
    BY <2>1, <1>1, <1>2 DEF ThreadPlaces, Exists
  <2>2. CASE running[t] # t
    BY <2>2, <1>2 DEF ThreadPlaces
  <2>. QED BY <2>1, <2>2
<1>. QED BY <1>1, <1>2, <1>3, <1>4, SwitchToKeeps

LEMMA CallKeeps ==
  ASSUME FInv, NEW t \in Threads, going[t] = "none", Call(t)
  PROVE  FInv'
<1>1. /\ t = RootThread /\ running[t] = t /\ t \in handles[Root]
      /\ m_state[Root] \notin Ended /\ SwitchTo(t, Root) /\ failed' = failed
  BY DEF Call
<1>2. Root \in Stacked /\ Root \notin Fibers /\ Root \notin Threads /\ t \notin Stacked
  BY Kinds
<1>3. t_threadFiber[t] = t
  BY <1>1, Parts DEF RootPlaces
<1>4. ASSUME NEW u \in Threads, Executes(u, Root) PROVE FALSE
  <2>1. ThreadPlaces(u)
    BY Parts
  <2>2. u = RootThread
    BY <1>4, <2>1 DEF Executes, Entering, ThreadPlaces
  <2>. QED BY <2>2, <1>1, <1>2, <1>4 DEF Executes, Entering
<1>. QED BY <1>1, <1>2, <1>3, <1>4, SwitchToKeeps

-----------------------------------------------------------------------------
\* A switch to a stack that was left and has not ended.
LEMMA Switched ==
  ASSUME FInv, NEW t \in Threads, NEW to \in latest, NEW places, NEW locals,
         places \in [Objects -> {"fresh", "body", "ended"}],
         locals \in [Objects -> Objects \cup {Null}],
         to # running[t], places[to] # "ended", t_fiber'[t] = to,
         Switch(t, running[t], to, places, locals)
  PROVE  /\ m_ctx' \in [Objects -> Objects] /\ \A o \in Objects : m_ctx'[o] = o
         /\ latest' = (latest \ {to}) \cup {running[t]} /\ latest' \subseteq Objects
         /\ running' \in [Threads -> Objects]
         /\ \A u \in Threads : running'[u] = IF u = t THEN to ELSE running[u]
         /\ at' \in [Objects -> {"fresh", "body", "ended"}]
         /\ \A o \in Objects : at'[o] = IF o = to THEN "body" ELSE places[o]
         /\ cur' \in [Objects -> Objects \cup {Null}]
         /\ \A o \in Objects :
              cur'[o] = IF o = to /\ places[o] = "fresh" THEN o ELSE locals[o]
         /\ failed' = failed /\ NothingFails'
<1>1. TypeOK /\ NothingFails /\ \A o \in Objects : m_ctx[o] = o
  BY Parts
<1>2. running[t] \in Objects /\ to \in Objects /\ latest \subseteq Objects
  BY <1>1 DEF TypeOK
<1>3. m_ctx[to] = to
  BY <1>1, <1>2
<1>4. m_ctx' = [m_ctx EXCEPT ![running[t]] = running[t]]
  BY DEF Switch
<1>5. m_ctx' \in [Objects -> Objects] /\ \A o \in Objects : m_ctx'[o] = o
  BY <1>1, <1>2, <1>4 DEF TypeOK
<1>6. latest' = {o \in latest : m_ctx[o] \notin {running[t], to}} \cup {running[t]}
  BY <1>3 DEF Switch
<1>7. latest' = (latest \ {to}) \cup {running[t]} /\ latest' \subseteq Objects
  BY <1>1, <1>2, <1>6
<1>8. running' = [running EXCEPT ![t] = to]
  BY <1>3 DEF Switch
<1>9. /\ running' \in [Threads -> Objects]
      /\ \A u \in Threads : running'[u] = IF u = t THEN to ELSE running[u]
  BY <1>1, <1>2, <1>8 DEF TypeOK
<1>10. /\ at' \in [Objects -> {"fresh", "body", "ended"}]
       /\ \A o \in Objects : at'[o] = IF o = to THEN "body" ELSE places[o]
  BY <1>2, <1>3 DEF Switch
<1>11. /\ cur' \in [Objects -> Objects \cup {Null}]
       /\ \A o \in Objects :
            cur'[o] = IF o = to /\ places[o] = "fresh" THEN o ELSE locals[o]
  BY <1>2, <1>3 DEF Switch
<1>12. failed' = failed
  BY <1>3 DEF Switch, Check
<1>13. NothingFails'
  BY <1>1, <1>12 DEF NothingFails
<1>. QED BY <1>5, <1>7, <1>9, <1>10, <1>11, <1>12, <1>13

LEMMA EnterKeeps == ASSUME FInv, NEW t \in Threads, Enter(t) PROVE FInv'
<1>. DEFINE f == t_fiber[t]
            s == running[t]
<1>1. /\ going[t] = "in" /\ Entering(t, f)
      /\ going' = [going EXCEPT ![t] = "none"]
      /\ Switch(t, IF f = Root THEN t_threadFiber[t] ELSE mainFiber[t], f, at, cur)
      /\ UNCHANGED <<t_fiber, t_threadFiber, mainFiber, m_state, m_callback, handles,
                     s_fiber_count>>
  BY DEF Enter, Entering, threadVars, objectVars
<1>2. /\ TypeOK /\ ThreadPlaces(t) /\ ThisIsRunning
      /\ t \in Objects /\ t # Null /\ t # Root /\ t \notin Fibers /\ t \notin Stacked
      /\ Root \in Objects /\ Root \in Stacked /\ Root \notin Fibers /\ Root \notin Threads
      /\ StackPlaces(Root)
  BY Parts, Kinds
<1>3. /\ f \in Stacked /\ t_threadFiber[t] = t
      /\ f = Root => t = RootThread /\ s = t
      /\ f \in Fibers => s = mainFiber[t]
  BY <1>1, <1>2 DEF ThreadPlaces
<1>4. f \in Objects /\ f # Null /\ f \notin Threads /\ StackPlaces(f) /\ f # t
  BY <1>2, <1>3, Parts, Kinds
<1>5. s = IF f = Root THEN t_threadFiber[t] ELSE mainFiber[t]
  BY <1>3, Kinds
<1>6. /\ t \in handles[f] /\ at[f] # "ended" /\ m_state[f] = "EXEC" /\ s # f
      /\ \A u \in Threads : Executes(u, f) => u = t
  BY <1>1, <1>4 DEF StackPlaces, Executes
<1>7. /\ \A u \in Threads : running[u] # f
      /\ f \in latest /\ (at[f] # "fresh" => cur[f] = f)
  <2>1. \A u \in Threads : running[u] # f
    BY <1>6 DEF Executes
  <2>2. at[f] \in {"fresh", "body", "ended"}
    BY <1>2, <1>4 DEF TypeOK
  <2>. QED BY <2>1, <2>2, <1>4, <1>6 DEF StackPlaces
<1>8. /\ s = t \/ (s = Root /\ t = RootThread)
      /\ s # t => f \in Fibers /\ mainFiber[t] = Root
      /\ t # RootThread => mainFiber[t] = t
  <2>1. f = Root \/ f \in Fibers
    BY <1>3, Kinds
  <2>2. s # Null
    BY <1>2, Kinds DEF TypeOK
  <2>3. t # RootThread => mainFiber[t] \in {Null, t} /\ f # Root
    BY <1>2, <1>3 DEF ThreadPlaces
  <2>4. t = RootThread => mainFiber[t] \in {Null, Root}
    BY <1>2 DEF ThreadPlaces
  <2>5. CASE f = Root
    BY <2>3, <2>5, <1>3
  <2>6. CASE f \in Fibers
    <3>1. s = mainFiber[t] /\ f # Root
      BY <2>6, <1>3, Kinds
    <3>2. CASE t = RootThread
      BY <2>2, <2>4, <2>6, <3>1, <3>2
    <3>3. CASE t # RootThread
      BY <2>2, <2>3, <2>6, <3>1, <3>3
    <3>. QED BY <3>2, <3>3
  <2>. QED BY <2>1, <2>5, <2>6
<1>9. /\ m_ctx' \in [Objects -> Objects] /\ \A o \in Objects : m_ctx'[o] = o
      /\ latest' = (latest \ {f}) \cup {s} /\ latest' \subseteq Objects
      /\ running' \in [Threads -> Objects]
      /\ \A u \in Threads : running'[u] = IF u = t THEN f ELSE running[u]
      /\ at' \in [Objects -> {"fresh", "body", "ended"}]
      /\ \A o \in Objects : at'[o] = IF o = f THEN "body" ELSE at[o]
      /\ cur' \in [Objects -> Objects \cup {Null}]
      /\ \A o \in Objects : cur'[o] = IF o = f /\ at[o] = "fresh" THEN o ELSE cur[o]
      /\ failed' = failed /\ NothingFails'
  <2>1. /\ at \in [Objects -> {"fresh", "body", "ended"}]
        /\ cur \in [Objects -> Objects \cup {Null}]
        /\ t_fiber'[t] = f /\ Switch(t, s, f, at, cur)
    BY <1>1, <1>2, <1>5 DEF TypeOK
  <2>. QED BY <1>6, <1>7, <2>1, Switched
<1>10. /\ going' \in [Threads -> {"none", "in", "out", "end"}]
       /\ \A u \in Threads : going'[u] = IF u = t THEN "none" ELSE going[u]
  BY <1>1, <1>2 DEF TypeOK
<1>11. TypeOK'
  BY <1>1, <1>2, <1>9, <1>10 DEF TypeOK
<1>12. Counted'
  BY <1>1, AsMany, Parts DEF Exists
<1>13. ThisIsRunning'
  BY <1>1, <1>2, <1>9, <1>10 DEF ThisIsRunning
<1>14. Kept'
  BY <1>1, <1>4, <1>6, <1>9, Parts, Kinds DEF Kept, Exists
<1>15. RootPlaces'
  BY <1>1, Parts DEF RootPlaces
<1>16. ASSUME NEW u \in Threads PROVE ThreadPlaces(u)'
  <2>1. CASE u = t
    <3>1. /\ running'[t] = f /\ going'[t] = "none"
          /\ UNCHANGED <<m_state[t], m_callback[t], at[t], cur[t], t_fiber[t],
                         t_threadFiber[t], mainFiber[t], handles, m_state[Root]>>
      BY <1>1, <1>2, <1>4, <1>9, <1>10
    <3>2. t \in latest'
      BY <1>2, <1>4, <1>8, <1>9 DEF ThreadPlaces
    <3>3. t = RootThread /\ f \in Fibers =>
            /\ mainFiber[t] = Root /\ RootThread \in handles[Root]
            /\ m_state[Root] = "EXEC" /\ Root \in latest'
      BY <1>1, <1>2, <1>3, <1>8, <1>9 DEF ThreadPlaces, StackPlaces, Held, TypeOK
    <3>. QED BY <2>1, <1>2, <1>3, <1>4, <1>8, <3>1, <3>2, <3>3 DEF ThreadPlaces
  <2>2. CASE u # t
    <3>1. /\ u \in Objects /\ u # f /\ ThreadPlaces(u) /\ (u \in latest => u \in latest')
      BY <1>4, <1>9, Parts, Kinds
    <3>2. u = RootThread => f # Root
      BY <2>2, <1>3
    <3>3. u = RootThread => (Root \in latest => Root \in latest')
      BY <3>2, <1>2, <1>9
    <3>. QED BY <2>2, <3>1, <3>3, <1>1, <1>4, <1>9, <1>10, ThreadKept
  <2>. QED BY <2>1, <2>2
<1>17. ASSUME NEW g \in Stacked PROVE StackPlaces(g)'
  <2>. g \in Objects /\ StackPlaces(g)
    BY Parts, Kinds
  <2>1. CASE g = f
    <3>1. /\ m_state'[f] = "EXEC" /\ at'[f] = "body" /\ cur'[f] = f
          /\ running'[t] = f /\ going'[t] = "none" /\ t \in handles'[f]
      BY <1>1, <1>4, <1>6, <1>7, <1>9, <1>10
    <3>2. \A u \in Threads : Executes(u, f)' => u = t
      BY <1>1, <1>6, <1>9, <1>10 DEF Executes, Entering
    <3>3. \A u \in Threads : ~Entering(u, f)'
      BY <3>1, <3>2 DEF Executes, Entering
    <3>4. Held(t, f)' /\ Executes(t, f)'
      BY <3>1, <1>1 DEF Held, Executes
    <3>. QED BY <2>1, <3>1, <3>2, <3>3, <3>4 DEF StackPlaces, Ended, Executes
  <2>2. CASE g # f
    <3>1. \A u \in Threads : Entering(u, g)' <=> Entering(u, g)
      BY <2>2, <1>1, <1>10 DEF Entering
    <3>2. m_state'[g] = m_state[g] /\ at'[g] = at[g] /\ cur'[g] = cur[g]
      BY <2>2, <1>1, <1>9
    <3>3. CASE g # s
      <4>1. \A u \in Threads : running'[u] = g <=> running[u] = g
        BY <2>2, <3>3, <1>9
      <4>. QED BY <2>2, <3>1, <3>2, <3>3, <4>1, <1>1, <1>9, <1>10, StackKept
    <3>4. CASE g = s
      <4>1. g = Root /\ g \in latest'
        BY <3>4, <1>2, <1>8, <1>9
      <4>2. m_state[g] = "EXEC" /\ at[g] = "body" /\ Executes(t, g)
        BY <3>4, <1>1 DEF StackPlaces, Held, Executes
      <4>3. \A u \in Threads : ~Entering(u, g)' /\ running'[u] # g
        BY <2>2, <3>1, <3>4, <4>2, <1>9 DEF StackPlaces, Executes
      <4>. QED BY <4>1, <4>2, <4>3, <3>2 DEF StackPlaces, Ended, Executes
    <3>. QED BY <3>3, <3>4
  <2>. QED BY <2>1, <2>2
<1>. QED
  BY <1>9, <1>11, <1>12, <1>13, <1>14, <1>15, <1>16, <1>17 DEF FInv, Places

-----------------------------------------------------------------------------
\* A fiber's state is written before it leaves.
LEMMA WrittenKeeps ==
  ASSUME FInv, NEW t \in Threads, going[t] = "none", NEW s \in Stacked, running[t] = s,
         NEW state \in State, NEW way \in {"out", "end"},
         way = "out" => state \in {"HOLD", "READY"} /\ s \in Fibers,
         way = "end" => state \in Ended,
         m_state' = [m_state EXCEPT ![s] = state],
         going' = [going EXCEPT ![t] = way],
         m_callback' \in [Objects -> BOOLEAN],
         \A o \in Objects \ {s} : m_callback'[o] = m_callback[o],
         UNCHANGED <<contextVars, threadVars, t_fiber, handles, s_fiber_count, failed>>
  PROVE  FInv'
<1>1. UNCHANGED <<m_ctx, latest, at, cur, running, t_threadFiber, mainFiber, t_fiber,
                  handles, s_fiber_count, failed>>
  BY DEF contextVars, threadVars
<1>2. /\ TypeOK /\ StackPlaces(s) /\ ThreadPlaces(t) /\ ThisIsRunning
      /\ s \in Objects /\ s # Null /\ s \notin Threads /\ t \notin Stacked
      /\ Root \in Objects /\ Root \in Stacked /\ Root \notin Fibers
  BY Parts, Kinds
<1>3. /\ \A o \in Objects : m_state'[o] = IF o = s THEN state ELSE m_state[o]
      /\ \A u \in Threads : going'[u] = IF u = t THEN way ELSE going[u]
  BY <1>2 DEF TypeOK
<1>4. /\ t \in handles[s] /\ at[s] = "body" /\ cur[s] = s /\ m_state[s] = "EXEC"
      /\ \A u \in Threads : Executes(u, s) => u = t
      /\ \A u \in Threads : ~Entering(u, s)
  BY <1>2 DEF StackPlaces, Held, Executes
<1>5. TypeOK'
  <2>1. /\ m_state' \in [Objects -> State \cup {"NONE"}]
        /\ going' \in [Threads -> {"none", "in", "out", "end"}]
    BY <1>2 DEF TypeOK
  <2>. QED BY <2>1, <1>1, <1>2 DEF TypeOK
<1>6. state # "NONE" /\ state # "INIT" /\ state # "EXEC"
  BY DEF Ended
<1>7. Counted'
  BY <1>1, <1>3, <1>4, <1>6, AsMany, Parts DEF Exists
<1>8. NothingFails' /\ \A o \in Objects : m_ctx'[o] = o
  BY <1>1, Parts DEF NothingFails
<1>9. ThisIsRunning'
  BY <1>1, <1>2, <1>3 DEF ThisIsRunning
<1>10. Kept'
  BY <1>1, <1>3, <1>4, <1>6, Parts, Kinds DEF Kept, Exists
<1>11. RootPlaces'
  BY <1>1, <1>2, <1>3, Parts DEF RootPlaces, Ended
<1>12. ASSUME NEW u \in Threads PROVE ThreadPlaces(u)'
  <2>. u \in Objects /\ u # s /\ ThreadPlaces(u)
    BY <1>2, Parts, Kinds
  <2>0. m_callback'[u] = m_callback[u] /\ m_state'[u] = m_state[u]
    BY <1>3
  <2>1. u = RootThread /\ running[u] \in Fibers => m_state'[Root] = m_state[Root]
    <3>1. s = Root => t = RootThread
      BY <1>2 DEF ThreadPlaces
    <3>. QED BY <3>1, <1>2, <1>3
  <2>2. CASE u = t
    <3>1. way = "out" => running'[t] \in Fibers
      BY <1>1
    <3>2. running'[t] \in Stacked /\ going'[t] = way
      BY <1>1, <1>3
    <3>. QED BY <2>0, <2>1, <2>2, <3>1, <3>2, <1>1 DEF ThreadPlaces
  <2>3. CASE u # t
    BY <2>0, <2>1, <2>3, <1>1, <1>3, ThreadKept
  <2>. QED BY <2>2, <2>3
<1>13. ASSUME NEW g \in Stacked PROVE StackPlaces(g)'
  <2>. g \in Objects /\ StackPlaces(g)
    BY Parts, Kinds
  <2>1. \A u \in Threads : Entering(u, g)' <=> Entering(u, g)
    BY <1>1, <1>3 DEF Entering
  <2>2. CASE g = s
    <3>1. m_state'[s] = state /\ going'[t] = way
      BY <1>2, <1>3
    <3>2. Held(t, s)'
      BY <3>1, <1>1, <1>4 DEF Held, Ended
    <3>3. \A u \in Threads : Executes(u, s)' => u = t
      BY <2>1, <2>2, <1>1, <1>4 DEF Executes
    <3>4. running'[t] = s /\ at'[s] = "body" /\ cur'[s] = s
          /\ \A u \in Threads : ~Entering(u, s)'
      BY <2>1, <2>2, <1>1, <1>4
    <3>. QED BY <2>2, <3>1, <3>2, <3>3, <3>4, <1>6 DEF StackPlaces, Executes
  <2>3. CASE g # s
    <3>1. m_state'[g] = m_state[g] /\ \A u \in Threads : running[u] = g => u # t
      BY <2>3, <1>3
    <3>. QED BY <2>1, <3>1, <1>1, <1>3, StackKept
  <2>. QED BY <2>2, <2>3
<1>. QED
  BY <1>5, <1>7, <1>8, <1>9, <1>10, <1>11, <1>12, <1>13 DEF FInv, Places

\* The fiber that executes is the one that GetThis() returns, and cur of MainFunc.
LEMMA RunningIsThis ==
  ASSUME FInv, NEW t \in Threads, running[t] \in Stacked, going[t] # "in"
  PROVE  t_fiber[t] = running[t] /\ cur[running[t]] = running[t]
<1>1. /\ ThreadPlaces(t) /\ StackPlaces(running[t]) /\ ThisIsRunning
      /\ t \notin Stacked /\ t # Null
  BY Parts, Kinds
<1>2. t_fiber[t] # Null
  BY <1>1 DEF ThreadPlaces
<1>. QED BY <1>1, <1>2 DEF ThisIsRunning, StackPlaces, Held

LEMMA YieldKeeps ==
  ASSUME FInv, NEW t \in Threads, going[t] = "none", NEW state \in {"READY", "HOLD"},
         Yield(t, state)
  PROVE  FInv'
<1>1. /\ running[t] \in Fibers /\ running[t] \in Stacked /\ state \in State
  BY Kinds DEF Yield, State
<1>2. t_fiber[t] = running[t] /\ m_callback \in [Objects -> BOOLEAN]
  BY <1>1, RunningIsThis, Parts DEF TypeOK
<1>3. /\ m_state' = [m_state EXCEPT ![running[t]] = state]
      /\ going' = [going EXCEPT ![t] = "out"]
      /\ UNCHANGED <<contextVars, threadVars, t_fiber, m_callback, handles,
                     s_fiber_count, failed>>
  BY <1>2 DEF Yield, objectVars
<1>. QED BY <1>1, <1>2, <1>3, WrittenKeeps

LEMMA EndKeeps ==
  ASSUME FInv, NEW t \in Threads, going[t] = "none", End(t)
  PROVE  FInv'
<1>. DEFINE s == running[t]
<1>1. s \in Stacked /\ s \in Objects
  BY Kinds DEF End
<1>2. cur[s] = s /\ m_callback \in [Objects -> BOOLEAN]
  BY <1>1, RunningIsThis, Parts DEF TypeOK
<1>3. PICK state \in Ended :
        /\ m_state' = [m_state EXCEPT ![s] = state]
        /\ \/ m_callback' = [m_callback EXCEPT ![s] = FALSE]
           \/ m_callback' = m_callback
  BY <1>2 DEF End, Ended
<1>4. /\ m_callback' \in [Objects -> BOOLEAN]
      /\ \A o \in Objects \ {s} : m_callback'[o] = m_callback[o]
  BY <1>2, <1>3
<1>5. /\ going' = [going EXCEPT ![t] = "end"]
      /\ UNCHANGED <<contextVars, threadVars, t_fiber, handles, s_fiber_count, failed>>
  BY DEF End
<1>6. state \in State
  BY DEF Ended, State
<1>. QED BY <1>1, <1>3, <1>4, <1>5, <1>6, WrittenKeeps

-----------------------------------------------------------------------------
\* Where a thread goes that leaves the stack of a fiber: to its main fiber, and
\* the owner from other fibers to the root fiber.
Resumer(t) == IF running[t] = Root THEN t ELSE mainFiber[t]

LEMMA ResumerWaits ==
  ASSUME FInv, NEW t \in Threads, running[t] \in Stacked, going[t] # "in"
  PROVE  /\ t_fiber[t] = running[t] /\ t_threadFiber[t] = t
         /\ Held(t, running[t]) /\ cur[running[t]] = running[t]
         /\ Resumer(t) \in latest /\ at[Resumer(t)] = "body"
         /\ Resumer(t) # running[t]
         /\ \A u \in Threads : running[u] # Resumer(t) /\ ~Entering(u, Resumer(t))
         /\ Resumer(t) # t =>
              /\ Resumer(t) = Root /\ t = RootThread /\ m_state[Root] = "EXEC"
              /\ RootThread \in handles[Root] /\ running[t] \in Fibers
<1>1. /\ TypeOK /\ ThreadPlaces(t) /\ StackPlaces(running[t]) /\ StackPlaces(Root)
      /\ t \notin Stacked /\ t # Null /\ t \in Objects /\ Root \in Stacked
      /\ Root \notin Threads
  BY Parts, Kinds
<1>2. \A u \in Threads : /\ running[u] \in Threads => running[u] = u
                         /\ running[u] = Root => u = RootThread
                         /\ ~Entering(u, t)
                         /\ Entering(u, Root) => u = RootThread /\ running[u] = u
  BY <1>1, Parts DEF ThreadPlaces, Entering
<1>3. t_threadFiber[t] = t /\ t_fiber[t] = running[t] /\ t \in latest /\ at[t] = "body"
  BY <1>1, RunningIsThis DEF ThreadPlaces
<1>4. Held(t, running[t]) /\ cur[running[t]] = running[t]
  BY <1>1, RunningIsThis DEF StackPlaces
<1>5. \A u \in Threads : running[u] # t
  BY <1>1, <1>2
<1>6. CASE Resumer(t) = t
  BY <1>1, <1>2, <1>3, <1>4, <1>5, <1>6
<1>7. CASE Resumer(t) # t
  <2>1. running[t] # Root /\ Resumer(t) = mainFiber[t]
    BY <1>7 DEF Resumer
  <2>2. running[t] \in Fibers
    BY <2>1, Kinds
  <2>3. t = RootThread
    BY <1>1, <1>7, <2>1 DEF ThreadPlaces
  <2>4. /\ mainFiber[t] = Root /\ RootThread \in handles[Root]
        /\ m_state[Root] = "EXEC" /\ Root \in latest
    BY <1>1, <2>2, <2>3 DEF ThreadPlaces
  <2>5. \A u \in Threads : running[u] # Root /\ ~Entering(u, Root)
    BY <1>1, <1>2, <2>1, <2>3
  <2>6. at[Root] = "body"
    BY <1>1, <2>4, <2>5 DEF StackPlaces
  <2>. QED BY <1>3, <1>4, <2>1, <2>2, <2>3, <2>4, <2>5, <2>6
<1>. QED BY <1>6, <1>7

\* What the stacks hold when that of s is left for good, or for a while.
PlacesLeft(s, over) == IF over THEN [at EXCEPT ![s] = "ended"] ELSE at
LocalsLeft(s, over) == IF over THEN [cur EXCEPT ![s] = Null] ELSE cur

LEMMA LeaveKeeps ==
  ASSUME FInv, NEW t \in Threads, NEW s \in Stacked, running[t] = s,
         NEW over \in BOOLEAN, over => going[t] = "end",
         ~over => going[t] = "out" \/ (going[t] = "none" /\ s = Root),
         going' = [going EXCEPT ![t] = "none"],
         t_fiber' = [t_fiber EXCEPT ![t] = Resumer(t)],
         Switch(t, s, Resumer(t), PlacesLeft(s, over), LocalsLeft(s, over)),
         UNCHANGED <<threadVars, objectVars, m_state>>
  PROVE  FInv'
<1>. DEFINE to == Resumer(t)
<1>0. UNCHANGED <<t_threadFiber, mainFiber, m_callback, handles, s_fiber_count, m_state>>
  BY DEF threadVars, objectVars
<1>1. /\ TypeOK /\ StackPlaces(s) /\ ThreadPlaces(t) /\ ThisIsRunning
      /\ StackPlaces(Root)
      /\ s \in Objects /\ s # Null /\ s \notin Threads
      /\ t \in Objects /\ t # Null /\ t \notin Stacked /\ t # Root
      /\ Root \in Stacked /\ Root \in Objects /\ Root \notin Fibers
  BY Parts, Kinds
<1>2. /\ t_fiber[t] = s /\ t_threadFiber[t] = t /\ Held(t, s) /\ cur[s] = s
      /\ to \in latest /\ at[to] = "body" /\ to # s
      /\ \A u \in Threads : running[u] # to /\ ~Entering(u, to)
      /\ to # t =>
           /\ to = Root /\ t = RootThread /\ m_state[Root] = "EXEC"
           /\ RootThread \in handles[Root] /\ running[t] \in Fibers
  BY ResumerWaits
<1>3. to \in Objects /\ \A u \in Threads : u # t => to # u
  BY <1>1, <1>2, Kinds
<1>4. /\ PlacesLeft(s, over) \in [Objects -> {"fresh", "body", "ended"}]
      /\ \A o \in Objects : PlacesLeft(s, over)[o] =
                             IF o = s /\ over THEN "ended" ELSE at[o]
  BY <1>1 DEF PlacesLeft, TypeOK
<1>5. /\ LocalsLeft(s, over) \in [Objects -> Objects \cup {Null}]
      /\ \A o \in Objects : LocalsLeft(s, over)[o] =
                             IF o = s /\ over THEN Null ELSE cur[o]
  BY <1>1 DEF LocalsLeft, TypeOK
<1>6. /\ \A u \in Threads : t_fiber'[u] = IF u = t THEN to ELSE t_fiber[u]
      /\ t_fiber' \in [Threads -> Objects \cup {Null}]
      /\ \A u \in Threads : going'[u] = IF u = t THEN "none" ELSE going[u]
      /\ going' \in [Threads -> {"none", "in", "out", "end"}]
  BY <1>1, <1>3 DEF TypeOK
<1>7. /\ m_ctx' \in [Objects -> Objects] /\ \A o \in Objects : m_ctx'[o] = o
      /\ latest' = (latest \ {to}) \cup {s} /\ latest' \subseteq Objects
      /\ running' \in [Threads -> Objects]
      /\ \A u \in Threads : running'[u] = IF u = t THEN to ELSE running[u]
      /\ at' \in [Objects -> {"fresh", "body", "ended"}]
      /\ \A o \in Objects : at'[o] = IF o = s /\ over THEN "ended" ELSE at[o]
      /\ cur' \in [Objects -> Objects \cup {Null}]
      /\ \A o \in Objects : cur'[o] = IF o = s /\ over THEN Null ELSE cur[o]
      /\ failed' = failed /\ NothingFails'
  <2>1. PlacesLeft(s, over)[to] = "body" /\ t_fiber'[t] = to
    BY <1>2, <1>3, <1>4, <1>6
  <2>2. /\ m_ctx' \in [Objects -> Objects] /\ \A o \in Objects : m_ctx'[o] = o
        /\ latest' = (latest \ {to}) \cup {s} /\ latest' \subseteq Objects
        /\ running' \in [Threads -> Objects]
        /\ \A u \in Threads : running'[u] = IF u = t THEN to ELSE running[u]
        /\ at' \in [Objects -> {"fresh", "body", "ended"}]
        /\ \A o \in Objects : at'[o] = IF o = to THEN "body" ELSE PlacesLeft(s, over)[o]
        /\ cur' \in [Objects -> Objects \cup {Null}]
        /\ \A o \in Objects :
             cur'[o] = IF o = to /\ PlacesLeft(s, over)[o] = "fresh"
                       THEN o ELSE LocalsLeft(s, over)[o]
        /\ failed' = failed /\ NothingFails'
    BY <1>2, <1>4, <1>5, <2>1, Switched
  <2>3. \A o \in Objects : at'[o] = IF o = s /\ over THEN "ended" ELSE at[o]
    BY <1>2, <1>4, <2>1, <2>2
  <2>4. \A o \in Objects : cur'[o] = IF o = s /\ over THEN Null ELSE cur[o]
    BY <1>5, <2>1, <2>2
  <2>. QED BY <2>2, <2>3, <2>4
<1>8. TypeOK'
  BY <1>0, <1>1, <1>6, <1>7 DEF TypeOK
<1>9. Counted'
  BY <1>0, AsMany, Parts DEF Exists
<1>10. ThisIsRunning'
  BY <1>1, <1>6, <1>7 DEF ThisIsRunning
<1>11. Kept'
  <2>1. handles'[s] # {}
    BY <1>0, <1>2 DEF Held
  <2>2. Exists(s)
    BY <1>1, <1>2, Parts DEF Kept, Held
  <2>. QED BY <2>1, <2>2, <1>0, <1>7, Parts, Kinds DEF Kept, Exists
<1>12. RootPlaces'
  BY <1>0, Parts DEF RootPlaces
<1>13. ASSUME NEW u \in Threads PROVE ThreadPlaces(u)'
  <2>1. CASE u = t
    <3>1. /\ running'[t] = to /\ t_fiber'[t] = to /\ going'[t] = "none"
          /\ UNCHANGED <<m_state[t], at[t], cur[t], m_callback[t]>>
      BY <1>0, <1>1, <1>6, <1>7
    <3>2. CASE to = t
      <4>1. t \notin Fibers
        BY <1>1, Kinds
      <4>. QED BY <2>1, <3>1, <3>2, <4>1, <1>0, <1>1, <1>2 DEF ThreadPlaces
    <3>3. CASE to # t
      <4>1. /\ t = RootThread /\ running'[t] = Root /\ t_fiber'[t] = Root
            /\ t \in latest' /\ Root \notin Threads /\ Root \notin Fibers /\ Root # Null
        BY <3>1, <3>3, <1>1, <1>2, <1>7, Kinds DEF ThreadPlaces
      <4>2. t_threadFiber'[t] = t /\ mainFiber'[t] \in {Null, Root}
        BY <4>1, <1>0, <1>1, <1>2 DEF ThreadPlaces
      <4>3. /\ m_state'[t] = "EXEC" /\ ~m_callback'[t] /\ at'[t] = "body"
            /\ cur'[t] = Null
        BY <3>1, <1>1, <1>2 DEF ThreadPlaces
      <4>. QED BY <2>1, <3>1, <4>1, <4>2, <4>3, <1>1 DEF ThreadPlaces
    <3>. QED BY <3>2, <3>3
  <2>2. CASE u # t
    <3>1. /\ u \in Objects /\ u # s /\ u # to /\ ThreadPlaces(u)
          /\ u \in latest => u \in latest'
      BY <2>2, <1>1, <1>3, <1>7, Parts, Kinds
    <3>2. u = RootThread => to = t /\ s # Root
      BY <2>2, <1>1, <1>2 DEF ThreadPlaces
    <3>3. u = RootThread => (Root \in latest => Root \in latest')
      BY <3>2, <1>1, <1>7
    <3>. QED BY <2>2, <3>1, <3>3, <1>0, <1>6, <1>7, ThreadKept
  <2>. QED BY <2>1, <2>2
<1>14. ASSUME NEW g \in Stacked PROVE StackPlaces(g)'
  <2>. g \in Objects /\ StackPlaces(g)
    BY Parts, Kinds
  <2>0. \A u \in Threads : Entering(u, g)' <=> Entering(u, g)
    BY <1>6 DEF Entering
  <2>1. CASE g = s
    <3>1. m_state'[s] = m_state[s] /\ s \in latest'
      BY <1>0, <1>7
    <3>2. \A u \in Threads : running'[u] # s /\ ~Entering(u, s)' /\ ~Executes(u, s)'
      <4>1. Executes(t, s) /\ \A u \in Threads : Executes(u, s) => u = t
        BY <1>1 DEF StackPlaces, Executes
      <4>. QED BY <4>1, <2>0, <2>1, <1>1, <1>2, <1>7 DEF StackPlaces, Executes
    <3>3. CASE over
      <4>1. m_state[s] \in Ended
        BY <3>3, <1>2 DEF Held
      <4>. QED BY <2>1, <3>1, <3>2, <3>3, <4>1, <1>1, <1>7 DEF StackPlaces, Ended, Executes
    <3>4. CASE ~over
      <4>1. m_state[s] \in {"HOLD", "READY"} \/ (m_state[s] = "EXEC" /\ s = Root)
        BY <3>4, <1>2 DEF Held
      <4>2. at'[s] = "body" /\ cur'[s] = s
        BY <3>4, <1>1, <1>2, <1>7 DEF Held
      <4>. QED BY <2>1, <3>1, <3>2, <4>1, <4>2 DEF StackPlaces, Ended, Executes
    <3>. QED BY <3>3, <3>4
  <2>2. CASE g # s /\ g # to
    <3>1. \A u \in Threads : running'[u] = g <=> running[u] = g
      BY <2>2, <1>7
    <3>. QED BY <2>0, <2>2, <3>1, <1>0, <1>1, <1>6, <1>7, StackKept
  <2>3. CASE g # s /\ g = to
    <3>1. g = Root /\ t = RootThread /\ m_state[g] = "EXEC" /\ t \in handles[g]
      BY <2>3, <1>1, <1>2
    <3>2. m_state'[g] = "EXEC" /\ at'[g] = "body" /\ cur'[g] = cur[g] /\ t \in handles'[g]
      BY <2>3, <3>1, <1>0, <1>2, <1>7
    <3>3. running'[t] = g /\ going'[t] = "none" /\ \A u \in Threads : running'[u] = g => u = t
      BY <2>3, <1>2, <1>6, <1>7
    <3>4. \A u \in Threads : ~Entering(u, g)'
      BY <2>0, <2>3, <1>2
    <3>5. Held(t, g)' /\ \A u \in Threads : Executes(u, g)' => u = t
      BY <3>2, <3>3, <3>4 DEF Held, Executes
    <3>6. cur[g] = g
      BY <2>3, <1>2 DEF StackPlaces
    <3>. QED BY <3>1, <3>2, <3>3, <3>4, <3>5, <3>6 DEF StackPlaces, Ended, Executes
  <2>. QED BY <2>1, <2>2, <2>3
<1>. QED
  BY <1>7, <1>8, <1>9, <1>10, <1>11, <1>12, <1>13, <1>14 DEF FInv, Places

LEMMA YieldOutKeeps == ASSUME FInv, NEW t \in Threads, YieldOut(t) PROVE FInv'
<1>1. going[t] = "out" /\ going' = [going EXCEPT ![t] = "none"]
  BY DEF YieldOut
<1>2. running[t] \in Fibers /\ running[t] \in Stacked /\ running[t] # Root
  BY <1>1, Parts, Kinds DEF ThreadPlaces
<1>3. t_fiber[t] = running[t]
  BY <1>1, <1>2, ResumerWaits
<1>4. /\ t_fiber' = [t_fiber EXCEPT ![t] = Resumer(t)]
      /\ Switch(t, running[t], Resumer(t), at, cur)
      /\ UNCHANGED <<threadVars, objectVars, m_state>>
  BY <1>2, <1>3 DEF YieldOut, SwapOut, SetThis, Resumer
<1>5. PlacesLeft(running[t], FALSE) = at /\ LocalsLeft(running[t], FALSE) = cur
  BY DEF PlacesLeft, LocalsLeft
<1>. QED BY <1>1, <1>2, <1>4, <1>5, LeaveKeeps

LEMMA BackKeeps ==
  ASSUME FInv, NEW t \in Threads, going[t] = "none", Back(t)
  PROVE  FInv'
<1>1. running[t] = Root /\ Root \in Stacked
  BY Kinds DEF Back
<1>2. t_fiber[t] = Root /\ t_threadFiber[t] = t
  BY <1>1, ResumerWaits
<1>3. /\ t_fiber' = [t_fiber EXCEPT ![t] = Resumer(t)]
      /\ Switch(t, Root, Resumer(t), at, cur)
      /\ UNCHANGED <<threadVars, objectVars, m_state, going>>
  BY <1>1, <1>2 DEF Back, BackOf, SetThis, Resumer
<1>4. going' = [going EXCEPT ![t] = "none"]
  BY <1>3, Parts DEF TypeOK
<1>5. PlacesLeft(Root, FALSE) = at /\ LocalsLeft(Root, FALSE) = cur
  BY DEF PlacesLeft, LocalsLeft
<1>. QED BY <1>1, <1>3, <1>4, <1>5, LeaveKeeps

LEMMA EndOutKeeps == ASSUME FInv, NEW t \in Threads, EndOut(t) PROVE FInv'
<1>. DEFINE s == running[t]
<1>1. going[t] = "end" /\ going' = [going EXCEPT ![t] = "none"]
  BY DEF EndOut
<1>2. s \in Stacked
  BY <1>1, Parts DEF ThreadPlaces
<1>3. cur[s] = s /\ t_threadFiber[t] = t
  BY <1>1, <1>2, ResumerWaits
<1>4. /\ t_fiber' = [t_fiber EXCEPT ![t] = Resumer(t)]
      /\ Switch(t, s, Resumer(t), [at EXCEPT ![s] = "ended"], [cur EXCEPT ![s] = Null])
      /\ UNCHANGED <<threadVars, objectVars, m_state>>
  BY <1>3 DEF EndOut, BackOf, SwapOut, SetThis, ResetCur, Resumer
<1>5. /\ PlacesLeft(s, TRUE) = [at EXCEPT ![s] = "ended"]
      /\ LocalsLeft(s, TRUE) = [cur EXCEPT ![s] = Null]
  BY DEF PlacesLeft, LocalsLeft
<1>. QED BY <1>1, <1>2, <1>4, <1>5, LeaveKeeps

-----------------------------------------------------------------------------
LEMMA OperationKeeps ==
  ASSUME FInv, NEW t \in Threads, going[t] = "none", Operation(t)
  PROVE  FInv'
<1>1. ASSUME UNCHANGED going, GetThis(t) \/ EnterRun(t) \/ ThreadEnd(t) PROVE FInv'
  BY <1>1, GetThisKeeps, EnterRunKeeps, ThreadEndKeeps
<1>2. ASSUME UNCHANGED going, ConstructRoot PROVE FInv'
  BY <1>2, ConstructRootKeeps
<1>3. ASSUME UNCHANGED going, NEW f \in Fibers, Construct(t, f) \/ Reset(t, f)
      PROVE  FInv'
  BY <1>3, ConstructKeeps, ResetKeeps
<1>4. ASSUME UNCHANGED going, NEW f \in Fibers, NEW u \in Threads, Share(t, u, f)
      PROVE  FInv'
  BY <1>4, ShareKeeps
<1>5. ASSUME UNCHANGED going, NEW f \in Stacked, Drop(t, f) PROVE FInv'
  BY <1>5, DropKeeps
<1>6. ASSUME Call(t) \/ Back(t) \/ End(t) PROVE FInv'
  BY <1>6, CallKeeps, BackKeeps, EndKeeps
<1>7. ASSUME NEW f \in Fibers, SwapIn(t, f) PROVE FInv'
  BY <1>7, SwapInKeeps
<1>8. ASSUME NEW state \in {"READY", "HOLD"}, Yield(t, state) PROVE FInv'
  BY <1>8, YieldKeeps
<1>. QED BY <1>1, <1>2, <1>3, <1>4, <1>5, <1>6, <1>7, <1>8 DEF Operation

LEMMA NextFInv == FInv /\ [Next]_vars => FInv'
<1> SUFFICES ASSUME FInv, [Next]_vars PROVE FInv'
  OBVIOUS
<1>1. CASE UNCHANGED vars
  <2>1. UNCHANGED <<m_ctx, latest, at, cur, running, t_threadFiber, mainFiber, t_fiber,
                    going, m_state, m_callback, handles, s_fiber_count, failed>>
    BY <1>1 DEF vars, contextVars, threadVars, objectVars
  <2>2. /\ TypeOK' /\ NothingFails' /\ ThisIsRunning'
        /\ Kept' /\ RootPlaces' /\ \A o \in Objects : m_ctx'[o] = o
    BY <2>1, Parts DEF TypeOK, NothingFails, ThisIsRunning, Kept, RootPlaces, Exists
  <2>3. Counted'
    BY <2>1, Parts DEF Counted, Living, Exists
  <2>4. \A t \in Threads : ThreadPlaces(t)'
    BY <2>1, Parts DEF ThreadPlaces
  <2>5. \A f \in Stacked : StackPlaces(f)'
    BY <2>1, Parts DEF StackPlaces, Held, Executes, Entering
  <2>. QED BY <2>2, <2>3, <2>4, <2>5 DEF FInv, Places
<1>2. ASSUME NEW t \in Threads, going[t] = "none", Operation(t) PROVE FInv'
  BY <1>2, OperationKeeps
<1>3. ASSUME NEW t \in Threads, Enter(t) \/ YieldOut(t) \/ EndOut(t) PROVE FInv'
  BY <1>3, EnterKeeps, YieldOutKeeps, EndOutKeeps
<1>. QED BY <1>1, <1>2, <1>3 DEF Next

LEMMA FInvHolds == Spec => []FInv
BY InitFInv, NextFInv, PTL DEF Spec

\* The variables of fiber.cpp have their types.
THEOREM TypesHold == Spec => []TypeOK
<1>1. FInv => TypeOK
  BY Parts
<1>. QED BY <1>1, FInvHolds, PTL

\* No assertion of fiber.cpp fails, and no context is resumed that its stack has
\* left behind or whose fiber is gone.
THEOREM NothingFailsHolds == Spec => []NothingFails
<1>1. FInv => NothingFails
  BY Parts
<1>. QED BY <1>1, FInvHolds, PTL

\* GetThis() is the fiber that executes, but while a thread enters another, and
\* so is cur in MainFunc.
THEOREM ThisIsRunningHolds == Spec => []ThisIsRunning
<1>1. FInv => ThisIsRunning
  BY Parts
<1>. QED BY <1>1, FInvHolds, PTL

\* A fiber exists exactly as long as it is referred to or has begun and not
\* ended, and TotalFibers() counts them.
THEOREM ReclaimedHolds == Spec => []Reclaimed
<1>1. FInv => Reclaimed
  BY Parts DEF Reclaimed, Kept, Counted, Living
<1>. QED BY <1>1, FInvHolds, PTL

\* Whoever leaves the stack of a fiber returns to the one that entered it.
LEMMA NextReturns ==
  ASSUME FInv, Next, NEW u \in Threads, running'[u] # running[u]
  PROVE  /\ running[u] \in Fibers => running'[u] = mainFiber[u]
         /\ running[u] = Root => running'[u] \in Fibers \cup {u}
<1>1. /\ TypeOK /\ \A o \in Objects : m_ctx[o] = o
      /\ \A t \in Threads : ThreadPlaces(t) /\ t \in Objects
      /\ Root \in Stacked /\ Root \in Objects /\ Root \notin Fibers
      /\ Fibers \subseteq Stacked /\ Fibers \subseteq Objects /\ RootThread \in Threads
  BY Parts, Kinds
<1>2. ASSUME NEW t \in Threads, NEW from, NEW to \in Objects, NEW places, NEW locals,
             Switch(t, from, to, places, locals)
      PROVE  t = u /\ running'[u] = to
  <2>1. running' = [running EXCEPT ![t] = to]
    BY <1>1, <1>2 DEF Switch
  <2>. QED BY <2>1, <1>1, <1>2 DEF TypeOK
<1>3. ASSUME NEW t \in Threads, Enter(t)
      PROVE  /\ running[u] \in Fibers => running'[u] = mainFiber[u]
             /\ running[u] = Root => running'[u] \in Fibers \cup {u}
  <2>1. going[t] = "in" /\ t_fiber[t] \in Stacked
    BY <1>1, <1>3 DEF Enter, ThreadPlaces
  <2>2. t = u /\ running'[u] = t_fiber[t]
    BY <2>1, <1>2, <1>3, Kinds DEF Enter
  <2>3. /\ t_fiber[t] = Root => running[t] = t
        /\ t_fiber[t] \in Fibers => running[t] = mainFiber[t]
    BY <2>1, <1>1 DEF ThreadPlaces
  <2>4. mainFiber[t] \notin Fibers
    BY <1>1, Kinds DEF ThreadPlaces
  <2>. QED BY <2>1, <2>2, <2>3, <2>4, Kinds
<1>4. ASSUME NEW t \in Threads, running[t] \in Stacked, going[t] # "in",
             NEW from, NEW places, NEW locals,
             Switch(t, from, Resumer(t), places, locals)
      PROVE  /\ running[u] \in Fibers => running'[u] = mainFiber[u]
             /\ running[u] = Root => running'[u] \in Fibers \cup {u}
  <2>1. Resumer(t) \in Objects
    BY <1>1, <1>4, ResumerWaits DEF TypeOK
  <2>2. t = u /\ running'[u] = Resumer(t)
    BY <2>1, <1>2, <1>4
  <2>. QED BY <2>2, <1>1 DEF Resumer
<1>5. ASSUME NEW t \in Threads, YieldOut(t)
      PROVE  /\ running[t] \in Stacked /\ going[t] # "in"
             /\ \E from, places, locals : Switch(t, from, Resumer(t), places, locals)
  <2>1. going[t] = "out" /\ running[t] \in Fibers /\ running[t] \in Stacked
    BY <1>1, <1>5 DEF YieldOut, ThreadPlaces
  <2>2. Resumer(t) = mainFiber[t]
    BY <2>1, <1>1 DEF Resumer
  <2>. QED BY <2>1, <2>2, <1>5 DEF YieldOut, SwapOut
<1>6. ASSUME NEW t \in Threads, EndOut(t)
      PROVE  /\ running[t] \in Stacked /\ going[t] # "in"
             /\ \E from, places, locals : Switch(t, from, Resumer(t), places, locals)
  <2>1. going[t] = "end" /\ running[t] \in Stacked
    BY <1>1, <1>6 DEF EndOut, ThreadPlaces
  <2>2. t_threadFiber[t] = t
    BY <2>1, ResumerWaits
  <2>. QED BY <2>1, <2>2, <1>6 DEF EndOut, BackOf, SwapOut, Resumer
<1>7. ASSUME NEW t \in Threads, going[t] = "none", Back(t)
      PROVE  /\ running[t] \in Stacked /\ going[t] # "in"
             /\ \E from, places, locals : Switch(t, from, Resumer(t), places, locals)
  <2>1. running[t] = Root
    BY <1>7 DEF Back
  <2>2. t_threadFiber[t] = t
    BY <2>1, <1>1, <1>7, ResumerWaits
  <2>. QED BY <2>1, <2>2, <1>1, <1>7 DEF Back, BackOf, Resumer
<1>8. ASSUME NEW t \in Threads, Operation(t), ~Back(t) PROVE FALSE
  <2>1. running' = running
    BY <1>8 DEF Operation, ConstructRoot, GetThis, EnterRun, ThreadEnd, Construct, NewFiber,
                Reset, Share, Drop, Call, End, SwapIn, SwitchTo, Yield, contextVars
  <2>. QED BY <2>1
<1>. QED BY <1>3, <1>4, <1>5, <1>6, <1>7, <1>8 DEF Next

THEOREM ReturnsToResumerHolds == Spec => ReturnsToResumer
<1>1. FInv /\ [Next]_vars =>
        [\A t \in Threads :
           running'[t] # running[t] =>
             /\ running[t] \in Fibers => running'[t] = mainFiber[t]
             /\ running[t] = Root => running'[t] \in Fibers \cup {t}]_vars
  BY NextReturns
<1>. QED BY <1>1, FInvHolds, PTL DEF Spec, ReturnsToResumer
=============================================================================
