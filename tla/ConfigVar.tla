------------------------------ MODULE ConfigVar ------------------------------
(***************************************************************************)
(* One configuration variable, ConfigVar<T> of components/config.h, that    *)
(* several threads set and listen to.                                       *)
(*                                                                         *)
(* setValue() calls the listeners under the read lock of m_mutex, gives the *)
(* lock up, and stores the value under the write lock: a step is one        *)
(* listener, or what happens under the write lock.  Several threads may be  *)
(* in the first part at once, and anything may happen between the two.      *)
(*                                                                         *)
(* A listener may throw; it neither sets its own variable nor changes the   *)
(* listeners, which would make its thread wait for itself.  fromString() is *)
(* setValue() of a text that converts, and nothing of one that does not;    *)
(* getValue(), toString() and getListener() change nothing.                 *)
(***************************************************************************)
EXTENDS Integers, FiniteSets

CONSTANTS
  Threads,
  Values,       \* of type T
  Default,      \* default_value
  MaxListeners  \* bound on the calls of addListener

ASSUME ConfigVarAssumption ==
  /\ Default \in Values
  /\ MaxListeners \in Nat

Keys == 1 .. MaxListeners

VARIABLES
  m_val,
  m_callbacks,  \* the keys that listeners are registered under
  s_func_id,    \* the last key given out
  pc,           \* per thread: "idle", or the part of setValue() it is in
  val,          \* per thread: the argument of setValue()
  old,          \* per thread: m_val when it took the read lock
  known,        \* per thread: m_callbacks at that time
  pending,      \* per thread: the listeners that it has still to call
  cleared,      \* per thread: the listeners that clearListener() has removed
                \* while it goes through them
  told,         \* history: the value each listener was last told
  overlapped,   \* history: threads whose setValue() another one overlaps
  missed        \* history: listeners that may not know the value, see Informed

vars == <<m_val, m_callbacks, s_func_id, pc, val, old, known, pending, cleared, told, overlapped, missed>>

Init ==
  /\ m_val = Default
  /\ m_callbacks = {}
  /\ s_func_id = 0
  /\ pc = [t \in Threads |-> "idle"]
  /\ val = [t \in Threads |-> Default]
  /\ old = [t \in Threads |-> Default]
  /\ known = [t \in Threads |-> {}]
  /\ pending = [t \in Threads |-> {}]
  /\ cleared = [t \in Threads |-> {}]
  /\ told = [k \in Keys |-> Default]
  /\ overlapped = {}
  /\ missed = {}

\* The threads that hold the read lock, and those that are inside setValue().
Readers == {t \in Threads : pc[t] = "tell"}
Setting == {t \in Threads : pc[t] # "idle"}

\* The write lock is free, for as long as one step takes.
WriteLock == Readers = {}

-----------------------------------------------------------------------------
\* setValue(), first part: an equal value changes nothing.
SetValue(t, v) ==
  /\ pc[t] = "idle"
  /\ v # m_val
  /\ pc' = [pc EXCEPT ![t] = "tell"]
  /\ val' = [val EXCEPT ![t] = v]
  /\ old' = [old EXCEPT ![t] = m_val]
  /\ known' = [known EXCEPT ![t] = m_callbacks]
  /\ pending' = [pending EXCEPT ![t] = m_callbacks]
  /\ overlapped' = IF Setting = {} THEN overlapped
                                   ELSE overlapped \cup Setting \cup {t}
  /\ UNCHANGED <<m_val, m_callbacks, s_func_id, cleared, told, missed>>

\* The next listener is called, in no particular order.
Tell(t) ==
  /\ pc[t] = "tell"
  /\ \E k \in pending[t] :
       /\ told' = [told EXCEPT ![k] = val[t]]
       /\ pending' = [pending EXCEPT ![t] = @ \ {k}]
  /\ UNCHANGED <<m_val, m_callbacks, s_func_id, pc, val, old, known, cleared, overlapped, missed>>

\* A listener throws: setValue() is left, and the value is not stored.
Throw(t) ==
  /\ pc[t] = "tell"
  /\ pending[t] # {}
  /\ pc' = [pc EXCEPT ![t] = "idle"]
  /\ pending' = [pending EXCEPT ![t] = {}]
  /\ cleared' = [cleared EXCEPT ![t] = {}]
  /\ overlapped' = overlapped \ {t}
  /\ missed' = missed \cup (known[t] \ pending[t])
  /\ UNCHANGED <<m_val, m_callbacks, s_func_id, val, old, known, told>>

\* Mutant of Told: the last listener is left out.
ToldButOne(t) ==
  /\ pc[t] = "tell"
  /\ Cardinality(pending[t]) <= 1
  /\ pending' = [pending EXCEPT ![t] = {}]
  /\ pc' = [pc EXCEPT ![t] = "store"]
  /\ cleared' = [cleared EXCEPT ![t] = {}]
  /\ UNCHANGED <<m_val, m_callbacks, s_func_id, val, old, known, told, overlapped, missed>>

\* All have been called, and the read lock is released.
Told(t) ==
  /\ pc[t] = "tell"
  /\ pending[t] = {}
  /\ pc' = [pc EXCEPT ![t] = "store"]
  /\ cleared' = [cleared EXCEPT ![t] = {}]
  /\ UNCHANGED <<m_val, m_callbacks, s_func_id, val, old, known, pending, told, overlapped, missed>>

\* setValue(), second part: the value is stored under the write lock.
Store(t) ==
  /\ pc[t] = "store"
  /\ WriteLock
  /\ m_val' = val[t]
  /\ pc' = [pc EXCEPT ![t] = "idle"]
  /\ overlapped' = overlapped \ {t}
  /\ missed' = IF t \in overlapped THEN m_callbacks ELSE missed \ known[t]
  /\ UNCHANGED <<m_callbacks, s_func_id, val, old, known, pending, cleared, told>>

AddListener ==
  LET k == s_func_id + 1 IN
  /\ s_func_id < MaxListeners
  /\ WriteLock
  /\ s_func_id' = k
  /\ m_callbacks' = m_callbacks \cup {k}
  /\ told' = [told EXCEPT ![k] = m_val]
  /\ missed' = IF Setting = {} THEN missed ELSE missed \cup {k}
  /\ UNCHANGED <<m_val, pc, val, old, known, pending, cleared, overlapped>>

\* Mutant of DelListener: the write lock is not taken.
DelListenerUnlocked(k) ==
  /\ m_callbacks' = m_callbacks \ {k}
  /\ UNCHANGED <<m_val, s_func_id, pc, val, old, known, pending, cleared, told, overlapped, missed>>

DelListener(k) ==
  /\ WriteLock
  /\ m_callbacks' = m_callbacks \ {k}
  /\ UNCHANGED <<m_val, s_func_id, pc, val, old, known, pending, cleared, told, overlapped, missed>>

\* clearListener() takes no lock.  A thread that goes through the listeners then
\* reads freed memory: it may still call some of them or none, or the program may
\* end there, as it may anywhere.
ClearListener ==
  /\ m_callbacks' = {}
  /\ cleared' = [t \in Threads |-> IF t \in Readers THEN cleared[t] \cup m_callbacks
                                                   ELSE {}]
  /\ \E lost \in [Readers -> SUBSET m_callbacks] :
       pending' = [t \in Threads |-> IF t \in Readers THEN pending[t] \ lost[t] ELSE {}]
  /\ UNCHANGED <<m_val, s_func_id, pc, val, old, known, told, overlapped, missed>>

Next ==
  \/ \E t \in Threads :
       \/ \E v \in Values : SetValue(t, v)
       \/ Tell(t) \/ Throw(t) \/ Told(t) \/ Store(t)
  \/ \E k \in Keys : DelListener(k)
  \/ AddListener \/ ClearListener

Spec == Init /\ [][Next]_vars

-----------------------------------------------------------------------------
(* Properties. *)

\* The variables have their types.
TypeOK ==
  /\ m_val \in Values
  /\ m_callbacks \subseteq 1 .. s_func_id
  /\ s_func_id \in 0 .. MaxListeners
  /\ pc \in [Threads -> {"idle", "tell", "store"}]
  /\ val \in [Threads -> Values]
  /\ old \in [Threads -> Values]
  /\ known \in [Threads -> SUBSET (1 .. s_func_id)]
  /\ pending \in [Threads -> SUBSET Keys]
  /\ cleared \in [Threads -> SUBSET Keys]
  /\ told \in [Keys -> Values]
  /\ overlapped \subseteq Threads
  /\ missed \subseteq Keys

\* A listener is not called after delListener() of its key has returned, and the
\* map does not change under a thread that goes through it, but by clearListener(),
\* which takes no lock: what it removes, a setValue() that has begun may still call,
\* and one that begins later does not.
RemovedNotCalled ==
  \A t \in Threads : pc[t] = "tell" =>
    /\ pending[t] \subseteq m_callbacks \cup cleared[t]
    /\ known[t] = m_callbacks \cup cleared[t]

\* All listeners of one change are told the same old value, the current one.
OldIsCurrent == \A t \in Threads : pc[t] = "tell" => m_val = old[t]

\* When no setValue() is under way a listener knows the value of the variable:
\* it was last told it, or it was registered while the variable had it.  The
\* exceptions, until the next change that nothing disturbs: two changes that
\* overlapped, a listener registered between the two parts of setValue(), and
\* listeners called for a change that a later listener stopped by throwing.
Informed == Setting = {} => \A k \in m_callbacks \ missed : told[k] = m_val
=============================================================================
