--------------------------- MODULE ConfigVarProofs ---------------------------
(***************************************************************************)
(* Proof, for any number of threads, values and listeners, that a listener  *)
(* of ConfigVar knows the value when no setValue() is under way, but for    *)
(* the exceptions that Informed names.                                      *)
(*                                                                         *)
(* Informed speaks of quiet states only.  IInv says in every state why a    *)
(* listener knows or does not: it was told the value that is stored, or a   *)
(* setValue() under way has told it another; and a setValue() that nothing  *)
(* overlaps is alone, and has told all that it has to tell.                 *)
(***************************************************************************)
EXTENDS ConfigVar, TLAPS

\* Under the read lock, the value is the one found at first, and so is the map
\* but for what clearListener() has removed.
Stable ==
  \A t \in Threads :
    /\ pc[t] = "tell" => /\ pending[t] \subseteq known[t]
                         /\ known[t] = m_callbacks \cup cleared[t]
                         /\ old[t] = m_val
    /\ pc[t] # "tell" => cleared[t] = {}

\* A listener knows the value, or a setValue() under way has told it another.
Known ==
  \A k \in m_callbacks \ missed :
    \/ told[k] = m_val
    \/ \E t \in Setting : k \in known[t] \ pending[t]

\* What a setValue() that nothing overlaps has done so far.
Alone ==
  \A t \in Setting \ overlapped :
    /\ Setting = {t}
    /\ \A k \in known[t] \ pending[t] : k \in m_callbacks => told[k] = val[t]
    /\ pc[t] = "store" => pending[t] = {} /\ m_callbacks \ known[t] \subseteq missed

IInv == TypeOK /\ Stable /\ Known /\ Alone

USE DEF Keys, Readers, Setting, WriteLock

\* No key is above the bound.
LEMMA KeysBounded ==
  ASSUME TypeOK
  PROVE  m_callbacks \subseteq Keys /\ \A t \in Threads : known[t] \subseteq Keys
<1>1. 1 .. s_func_id \subseteq Keys
  BY ConfigVarAssumption DEF TypeOK
<1> QED BY <1>1 DEF TypeOK

LEMMA InitIInv == Init => IInv
BY ConfigVarAssumption DEF Init, IInv, TypeOK, Stable, Known, Alone

\* setValue() begins: it has told nobody yet, and whoever is under way is now
\* overlapped.
LEMMA SetValueStep ==
  ASSUME IInv, NEW t \in Threads, NEW v \in Values, SetValue(t, v)
  PROVE  IInv'
<1> USE DEF IInv, SetValue
<1>0. m_callbacks \subseteq Keys
  BY KeysBounded
<1>1. TypeOK'
  BY <1>0 DEF TypeOK
<1>2. Stable'
  BY DEF Stable, TypeOK
<1>3. Setting' = Setting \cup {t} /\ t \notin Setting
  BY DEF TypeOK
<1>4. Known'
  BY <1>3 DEF Known, TypeOK
<1>5. Alone'
  BY <1>3 DEF Alone, TypeOK
<1> QED BY <1>1, <1>2, <1>4, <1>5

\* One listener is told.
LEMMA TellStep ==
  ASSUME IInv, NEW t \in Threads, Tell(t)
  PROVE  IInv'
<1> USE DEF IInv
<1>1. PICK k \in pending[t] : /\ told' = [told EXCEPT ![k] = val[t]]
                              /\ pending' = [pending EXCEPT ![t] = @ \ {k}]
  BY DEF Tell
<1>2. pc[t] = "tell" /\ UNCHANGED <<m_val, m_callbacks, s_func_id, pc, val, old, known, cleared, overlapped, missed>>
  BY DEF Tell
<1>3. k \in Keys /\ k \in known[t] /\ t \in Setting
  BY <1>1, <1>2 DEF TypeOK, Stable
<1>4. TypeOK'
  BY <1>1, <1>2, <1>3 DEF TypeOK
<1>5. Stable'
  BY <1>1, <1>2 DEF Stable, TypeOK
<1>6. Known'
  BY <1>1, <1>2, <1>3 DEF Known, TypeOK
<1>7. Alone'
  BY <1>1, <1>2, <1>3 DEF Alone, TypeOK
<1> QED BY <1>4, <1>5, <1>6, <1>7

\* A listener throws: those told so far are among the exceptions.
LEMMA ThrowStep ==
  ASSUME IInv, NEW t \in Threads, Throw(t)
  PROVE  IInv'
<1> USE DEF IInv, Throw
<1>0. m_callbacks \subseteq Keys /\ known[t] \subseteq Keys
  BY KeysBounded
<1>1. TypeOK'
  BY <1>0 DEF TypeOK
<1>2. Stable'
  BY DEF Stable, TypeOK
<1>3. Setting' = Setting \ {t}
  BY DEF TypeOK
<1>4. Known'
  BY <1>3 DEF Known, TypeOK
<1>5. Alone'
  BY <1>3 DEF Alone, TypeOK
<1> QED BY <1>1, <1>2, <1>4, <1>5

\* The read lock is released.
LEMMA ToldStep ==
  ASSUME IInv, NEW t \in Threads, Told(t)
  PROVE  IInv'
<1> USE DEF IInv, Told
<1>1. TypeOK'
  BY DEF TypeOK
<1>2. Stable'
  BY DEF Stable, TypeOK
<1>3. Setting' = Setting
  BY DEF TypeOK
<1>4. Known'
  BY <1>3 DEF Known, TypeOK
<1>5. Alone'
  BY <1>3 DEF Alone, Stable, TypeOK
<1> QED BY <1>1, <1>2, <1>4, <1>5

\* The value is stored: an overlapped setValue() leaves nobody sure to know, and
\* one that was alone has told all but the exceptions.
LEMMA StoreStep ==
  ASSUME IInv, NEW t \in Threads, Store(t)
  PROVE  IInv'
<1> USE DEF IInv, Store
<1>0. m_callbacks \subseteq Keys /\ known[t] \subseteq Keys
  BY KeysBounded
<1>1. TypeOK'
  BY <1>0 DEF TypeOK
<1>2. Stable'
  BY DEF Stable, TypeOK
<1>3. Setting' = Setting \ {t} /\ t \in Setting
  BY DEF TypeOK
<1>4. Known'
  <2>1. CASE t \in overlapped
    BY <2>1 DEF Known
  <2>2. CASE t \notin overlapped
    <3>1. Setting = {t} /\ pending[t] = {} /\ m_callbacks \ known[t] \subseteq missed
      BY <1>3, <2>2 DEF Alone
    <3>2. \A k \in m_callbacks \ missed' : k \in known[t] \ pending[t]
      BY <2>2, <3>1 DEF TypeOK
    <3> QED BY <1>3, <2>2, <3>2 DEF Alone, Known
  <2> QED BY <2>1, <2>2
<1>5. Alone'
  <2>1. CASE t \in overlapped
    BY <1>3, <2>1 DEF Alone, TypeOK
  <2>2. CASE t \notin overlapped
    BY <1>3, <2>2 DEF Alone
  <2> QED BY <2>1, <2>2
<1> QED BY <1>1, <1>2, <1>4, <1>5

\* A listener is registered: under a new key, which no setValue() has told.
LEMMA AddListenerStep ==
  ASSUME IInv, AddListener
  PROVE  IInv'
<1> USE DEF IInv, AddListener
<1>1. TypeOK'
  BY ConfigVarAssumption DEF TypeOK
<1>2. Stable'
  BY DEF Stable, TypeOK
<1>3. \A t \in Threads : s_func_id + 1 \notin known[t]
  BY ConfigVarAssumption DEF TypeOK
<1>4. Setting' = Setting /\ s_func_id + 1 \in Keys
  BY ConfigVarAssumption DEF TypeOK
<1>5. Known'
  BY <1>4 DEF Known, TypeOK
<1>6. Alone'
  BY <1>3, <1>4 DEF Alone, TypeOK
<1> QED BY <1>1, <1>2, <1>5, <1>6

\* A listener is removed while no thread calls any.
LEMMA DelListenerStep ==
  ASSUME IInv, NEW k \in Keys, DelListener(k)
  PROVE  IInv'
<1>1. /\ m_callbacks' \subseteq m_callbacks
      /\ \A t \in Threads : pc[t] # "tell"
      /\ UNCHANGED <<m_val, s_func_id, pc, val, old, known, pending, cleared, told,
                     overlapped, missed>>
  BY DEF DelListener
<1> QED BY <1>1 DEF IInv, TypeOK, Stable, Known, Alone

\* All listeners are removed, also while threads call them.
LEMMA ClearListenerStep ==
  ASSUME IInv, ClearListener
  PROVE  IInv'
<1> USE DEF IInv
<1>0. m_callbacks \subseteq Keys
  BY KeysBounded
<1>1. /\ m_callbacks' = {}
      /\ \A t \in Threads : cleared'[t] = IF pc[t] = "tell" THEN cleared[t] \cup m_callbacks
                                                            ELSE {}
      /\ cleared' \in [Threads -> SUBSET Keys]
      /\ UNCHANGED <<m_val, s_func_id, pc, val, old, known, told, overlapped, missed>>
  BY <1>0 DEF ClearListener, TypeOK
<1>2. /\ pending' \in [Threads -> SUBSET Keys]
      /\ \A t \in Threads : pc[t] = "tell" => pending'[t] \subseteq pending[t]
      /\ \A t \in Threads : pc[t] # "tell" => pending'[t] = {}
  <2>1. PICK lost \in [Readers -> SUBSET m_callbacks] :
          pending' = [t \in Threads |-> IF t \in Readers THEN pending[t] \ lost[t] ELSE {}]
    BY DEF ClearListener
  <2> QED BY <2>1 DEF TypeOK
<1>3. TypeOK'
  BY <1>1, <1>2 DEF TypeOK
<1>4. Stable'
  BY <1>1, <1>2 DEF Stable, TypeOK
<1>5. Known'
  BY <1>1 DEF Known
<1>6. Alone'
  BY <1>1, <1>2 DEF Alone
<1> QED BY <1>3, <1>4, <1>5, <1>6

LEMMA StutterStep ==
  ASSUME IInv, UNCHANGED vars
  PROVE  IInv'
BY DEF IInv, TypeOK, Stable, Known, Alone, vars

\* The invariant that the theorems below are read from.
THEOREM IInvHolds == Spec => []IInv
<1>1. IInv /\ [Next]_vars => IInv'
  BY SetValueStep, TellStep, ThrowStep, ToldStep, StoreStep, AddListenerStep,
     DelListenerStep, ClearListenerStep, StutterStep DEF Next
<1> QED BY InitIInv, <1>1, PTL DEF Spec

\* A listener knows the value of the variable whenever no setValue() is under
\* way, but for the exceptions.
THEOREM InformedHolds == Spec => []Informed
<1>1. IInv => Informed
  BY DEF IInv, Informed, Known
<1> QED BY <1>1, IInvHolds, PTL

\* No listener is called after it was removed, but by a setValue() that goes
\* through the listeners when clearListener() removes them; and none is told an
\* old value that is not current.
THEOREM CallsHold == Spec => [](RemovedNotCalled /\ OldIsCurrent)
<1>1. IInv => RemovedNotCalled /\ OldIsCurrent
  BY DEF IInv, Stable, RemovedNotCalled, OldIsCurrent
<1> QED BY <1>1, IInvHolds, PTL
=============================================================================
