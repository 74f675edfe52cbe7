--------------------------- MODULE RegistryProofs ---------------------------
(* The registry keeps one variable for each name, a file that is loaded     *)
(* sets those that it names to what it says, and fromString() reads what    *)
(* toString() wrote of exactly the values that are Readable: for any        *)
(* number of threads, names and files.                                      *)
EXTENDS Registry, SequenceTheorems, FiniteSetTheorems, WellFoundedInduction, TLAPS

\* Nobody reads while a thread writes.
LockOK ==
  /\ writer \in Threads \cup {Null}
  /\ readers \subseteq Threads
  /\ writer # Null => readers = {}

\* A thread in Lookup() knows what it looks for, and inserts only a name that
\* is still unknown.
LookupOK ==
  /\ asked \in [Threads -> (Names \X Types) \cup {Null}]
  /\ \A t \in Threads :
       /\ pc[t] \in {"find", "insert"} => asked[t] \in Names \X Types
       /\ pc[t] = "insert" => s_datas[asked[t][1]] = Null

\* The variables that exist are those of the registry, each under its name.
Constructed ==
  /\ \A o \in Objects : m_type[o] # Null <=> s_datas[o[1]] = o
  /\ \A name \in Names : s_datas[name] # Null => s_datas[name][1] = name

ReturnedOK == returned \subseteq Names \X Types \X Objects

RInv == TypeOK /\ LockOK /\ LookupOK /\ Constructed /\ ReturnedOK /\ OneVariable

-----------------------------------------------------------------------------
LEMMA ObjectFields ==
  /\ \A name \in Names, k \in {1, 2} : <<name, k>> \in Objects /\ <<name, k>>[1] = name
  /\ \A o \in Objects : o[1] \in Names /\ o # Null
  /\ \A p \in Names \X Types : p[1] \in Names /\ p[2] \in Types /\ p[2] # Null
BY RegistryAssumption DEF Objects

LEMMA InitRInv == Init => RInv
BY RegistryAssumption, ObjectFields
   DEF Init, RInv, TypeOK, LockOK, LookupOK, Constructed, ReturnedOK, OneVariable

\* A thread that is in neither a lookup nor a visit, before and after, does not
\* touch the lock, and what it does to values is not part of the invariant.
LEMMA Outside ==
  ASSUME RInv, NEW t \in Threads, NEW label \in {"idle", "load"},
         pc[t] \in {"idle", "load"}, pc' = [pc EXCEPT ![t] = label],
         UNCHANGED <<registryVars, lockVars, asked>>,
         toVisit' \in [Threads -> SUBSET Objects],
         DOMAIN m_val' = Objects
  PROVE  RInv'
<1>1. TypeOK'
  BY DEF RInv, TypeOK, registryVars, lockVars
<1>2. LockOK' /\ LookupOK'
  BY DEF RInv, TypeOK, LockOK, LookupOK, registryVars, lockVars
<1>3. Constructed' /\ ReturnedOK' /\ OneVariable'
  BY DEF RInv, Constructed, ReturnedOK, OneVariable, registryVars
<1>. QED BY <1>1, <1>2, <1>3 DEF RInv

\* A thread that leaves its critical section.
LEMMA Leaving ==
  ASSUME RInv, NEW t \in Threads, pc[t] \in {"find", "insert", "visit"}, Unlock(t),
         UNCHANGED <<s_datas, m_type, m_val, toVisit>>,
         ReturnedOK', OneVariable'
  PROVE  RInv'
<1>1. pc' = [pc EXCEPT ![t] = "idle"]
      /\ asked' = [asked EXCEPT ![t] = Null]
      /\ writer' = (IF writer = t THEN Null ELSE writer)
      /\ readers' = readers \ {t}
  BY DEF Unlock, Goto
<1>2. TypeOK'
  BY <1>1, RegistryAssumption DEF RInv, TypeOK
<1>3. LockOK' /\ LookupOK'
  BY <1>1 DEF RInv, TypeOK, LockOK, LookupOK
<1>4. Constructed'
  BY DEF RInv, Constructed
<1>. QED BY <1>2, <1>3, <1>4 DEF RInv

LEMMA InsertRInv ==
  ASSUME RInv, NEW t \in Threads, LookupInsert(t)
  PROVE  RInv' /\ \A u \in Threads : pc[u] # "visit"
<1> DEFINE name == asked[t][1]
           type == asked[t][2]
           o == <<name, 1>>
<1>1. pc[t] = "insert" /\ asked[t] \in Names \X Types /\ s_datas[name] = Null
  BY DEF LookupInsert, RInv, LookupOK
<1>2. name \in Names /\ type \in Types /\ type # Null /\ o \in Objects /\ o[1] = name /\ o # Null
  BY <1>1, ObjectFields
<1>3. m_type[o] = Null
  BY <1>1, <1>2 DEF RInv, Constructed
<1>4. /\ m_type' = [m_type EXCEPT ![o] = type]
      /\ s_datas' = [s_datas EXCEPT ![name] = o]
      /\ returned' = returned \cup {<<name, type, o>>}
      /\ DOMAIN m_val' = DOMAIN m_val
      /\ toVisit' = toVisit
      /\ Unlock(t)
  <2>1. PICK default \in Values[type] : m_val' = [m_val EXCEPT ![o] = default]
    BY <1>3 DEF LookupInsert
  <2>. QED BY <1>1, <1>3, <2>1 DEF LookupInsert
<1>5. pc' = [pc EXCEPT ![t] = "idle"]
      /\ asked' = [asked EXCEPT ![t] = Null]
      /\ writer' = (IF writer = t THEN Null ELSE writer)
      /\ readers' = readers \ {t}
  BY <1>4 DEF Unlock, Goto
<1>6. writer = t /\ readers = {}
  BY <1>1, RegistryAssumption DEF RInv, TypeOK, LockOK
<1>7. TypeOK'
  BY <1>1, <1>2, <1>4, <1>5, RegistryAssumption DEF RInv, TypeOK
<1>8. LockOK'
  BY <1>5 DEF RInv, LockOK
<1>9. LookupOK'
  <2>1. \A u \in Threads : pc'[u] \in {"find", "insert"} => u # t /\ writer = u
    BY <1>5 DEF RInv, TypeOK
  <2>. QED BY <1>5, <1>6, <2>1 DEF RInv, TypeOK, LookupOK
<1>10. Constructed'
  <2>1. \A p \in Objects : m_type'[p] # Null <=> s_datas'[p[1]] = p
    <3>1. TAKE p \in Objects
    <3>2. CASE p = o
      BY <1>2, <1>4, <3>2 DEF RInv, TypeOK
    <3>3. CASE p # o
      <4>1. m_type'[p] = m_type[p]
        BY <1>4, <3>3 DEF RInv, TypeOK
      <4>2. CASE p[1] = name
        <5>1. s_datas'[name] # p /\ s_datas[name] # p
          BY <1>1, <1>2, <1>4, <3>3, ObjectFields DEF RInv, TypeOK
        <5>. QED BY <4>1, <4>2, <5>1 DEF RInv, Constructed
      <4>3. CASE p[1] # name
        BY <1>4, <4>1, <4>3, ObjectFields DEF RInv, TypeOK, Constructed
      <4>. QED BY <4>2, <4>3
    <3>. QED BY <3>2, <3>3
  <2>2. \A n \in Names : s_datas'[n] # Null => s_datas'[n][1] = n
    BY <1>2, <1>4 DEF RInv, TypeOK, Constructed
  <2>. QED BY <2>1, <2>2 DEF Constructed
<1>11. ReturnedOK'
  BY <1>2, <1>4 DEF RInv, ReturnedOK
<1>12. OneVariable'
  <2>1. SUFFICES ASSUME NEW r \in returned'
                 PROVE  s_datas'[r[1]] = r[3] /\ m_type'[r[3]] = r[2]
    BY DEF OneVariable
  <2>2. CASE r = <<name, type, o>>
    BY <1>2, <1>4, <2>2 DEF RInv, TypeOK
  <2>3. CASE r \in returned
    <3>1. /\ r[1] \in Names /\ r[2] \in Types /\ r[3] \in Objects
          /\ s_datas[r[1]] = r[3] /\ m_type[r[3]] = r[2]
      BY <2>3 DEF RInv, ReturnedOK, OneVariable
    <3>2. r[1] # name /\ r[3] # o
      BY <1>1, <1>3, <3>1, ObjectFields, RegistryAssumption
    <3>. QED BY <1>4, <3>1, <3>2 DEF RInv, TypeOK
  <2>. QED BY <1>4, <2>1, <2>2, <2>3
<1>. QED BY <1>6, <1>7, <1>8, <1>9, <1>10, <1>11, <1>12 DEF RInv, TypeOK

LEMMA NextRInv == RInv /\ [Next]_vars => RInv'
<1> SUFFICES ASSUME RInv, [Next]_vars PROVE RInv'
  OBVIOUS
<1>1. ASSUME NEW t \in Threads, NEW name \in Names, NEW type \in TypesOf[name],
             LookupLock(t, name, type)
      PROVE  RInv'
  <2>1. type \in Types
    BY DEF Types
  <2>2. /\ pc[t] = "idle" /\ writer = Null /\ readers = {}
        /\ writer' = t
        /\ asked' = [asked EXCEPT ![t] = <<name, type>>]
        /\ pc' = [pc EXCEPT ![t] = "find"]
        /\ UNCHANGED <<s_datas, m_type, returned, readers, m_val, toVisit>>
    BY <1>1 DEF LookupLock, Goto, registryVars
  <2>3. t # Null
    BY RegistryAssumption
  <2>4. TypeOK'
    BY <2>2, <2>3, RegistryAssumption DEF RInv, TypeOK
  <2>5. LockOK' /\ LookupOK'
    BY <2>1, <2>2, RegistryAssumption DEF RInv, TypeOK, LockOK, LookupOK
  <2>. QED BY <2>2, <2>4, <2>5 DEF RInv, Constructed, ReturnedOK, OneVariable
<1>2. ASSUME NEW t \in Threads, NEW name \in Names, NEW type \in TypesOf[name],
             LookupExisting(t, name, type)
      PROVE  RInv'
  <2>1. type \in Types
    BY DEF Types
  <2>2. /\ s_datas[name] \in Objects /\ m_type[s_datas[name]] = type
        /\ returned' = returned \cup {<<name, type, s_datas[name]>>}
        /\ UNCHANGED <<s_datas, m_type, lockVars, m_val, pc, asked, toVisit>>
    BY <1>2 DEF LookupExisting, RInv, TypeOK
  <2>3. ReturnedOK' /\ OneVariable'
    BY <2>1, <2>2 DEF RInv, ReturnedOK, OneVariable
  <2>. QED BY <2>2, <2>3 DEF RInv, TypeOK, LockOK, LookupOK, Constructed, lockVars
<1>3. ASSUME NEW t \in Threads, LookupFound(t) PROVE RInv'
  <2>1. pc[t] = "find" /\ asked[t] \in Names \X Types
    BY <1>3 DEF LookupFound, RInv, LookupOK
  <2>2. asked[t][1] \in Names /\ asked[t][2] \in Types
    BY <2>1
  <2>3. /\ s_datas[asked[t][1]] \in Objects
        /\ \/ returned' = returned
           \/ /\ m_type[s_datas[asked[t][1]]] = asked[t][2]
              /\ returned' = returned \cup {<<asked[t][1], asked[t][2], s_datas[asked[t][1]]>>}
        /\ Unlock(t)
        /\ UNCHANGED <<s_datas, m_type, m_val, toVisit>>
    BY <1>3, <2>2 DEF LookupFound, RInv, TypeOK
  <2>4. ReturnedOK' /\ OneVariable'
    BY <2>2, <2>3 DEF RInv, ReturnedOK, OneVariable
  <2>. QED BY <2>1, <2>3, <2>4, Leaving
<1>4. ASSUME NEW t \in Threads, LookupThrows(t) PROVE RInv'
  <2>1. /\ pc[t] = "find" /\ Unlock(t)
        /\ UNCHANGED <<s_datas, m_type, returned, m_val, toVisit>>
    BY <1>4 DEF LookupThrows, registryVars
  <2>. QED BY <2>1, Leaving DEF RInv, ReturnedOK, OneVariable
<1>5. ASSUME NEW t \in Threads, LookupNotFound(t) PROVE RInv'
  <2>1. /\ pc[t] = "find" /\ s_datas[asked[t][1]] = Null
        /\ pc' = [pc EXCEPT ![t] = "insert"]
        /\ UNCHANGED <<s_datas, m_type, returned, writer, readers, m_val, asked, toVisit>>
    BY <1>5 DEF LookupNotFound, Goto, registryVars, lockVars
  <2>2. TypeOK' /\ LockOK' /\ LookupOK'
    BY <2>1 DEF RInv, TypeOK, LockOK, LookupOK
  <2>. QED BY <2>1, <2>2 DEF RInv, Constructed, ReturnedOK, OneVariable
<1>6. ASSUME NEW t \in Threads, NEW o \in Registered, NEW value \in Values[m_type[o]],
             SetValue(t, o, value)
      PROVE  RInv'
  BY <1>6, Outside DEF SetValue, Store, RInv, TypeOK
<1>7. ASSUME NEW t \in Threads, NEW root \in Documents, LoadBegin(t, root) PROVE RInv'
  BY <1>7, Outside DEF LoadBegin, Goto, RInv, TypeOK
<1>8. ASSUME NEW t \in Threads, LoadNode(t) PROVE RInv'
  <2>1. /\ pc[t] = "load" /\ pc' = [pc EXCEPT ![t] = "load"]
        /\ UNCHANGED <<registryVars, lockVars, asked, toVisit>>
    BY <1>8 DEF LoadNode, RInv, TypeOK
  <2>2. DOMAIN m_val' = DOMAIN m_val
    BY <1>8 DEF LoadNode, Store
  <2>. QED BY <2>1, <2>2, Outside DEF RInv, TypeOK
<1>9. ASSUME NEW t \in Threads, LoadEnd(t) PROVE RInv'
  BY <1>9, Outside DEF LoadEnd, Goto, RInv, TypeOK
<1>10. ASSUME NEW t \in Threads, VisitBegin(t) PROVE RInv'
  <2>1. /\ pc[t] = "idle" /\ writer = Null
        /\ readers' = readers \cup {t}
        /\ toVisit' = [toVisit EXCEPT ![t] = Registered]
        /\ pc' = [pc EXCEPT ![t] = "visit"]
        /\ UNCHANGED <<s_datas, m_type, returned, writer, m_val, asked>>
    BY <1>10 DEF VisitBegin, Goto, registryVars
  <2>2. Registered \subseteq Objects
    BY DEF Registered, RInv, TypeOK
  <2>3. TypeOK'
    BY <2>1, <2>2, RegistryAssumption DEF RInv, TypeOK
  <2>4. LockOK' /\ LookupOK'
    BY <2>1 DEF RInv, TypeOK, LockOK, LookupOK
  <2>. QED BY <2>1, <2>3, <2>4 DEF RInv, Constructed, ReturnedOK, OneVariable
<1>11. ASSUME NEW t \in Threads, VisitNext(t) PROVE RInv'
  <2>1. /\ toVisit' \in [Threads -> SUBSET Objects]
        /\ UNCHANGED <<registryVars, lockVars, pc, asked>>
    BY <1>11 DEF VisitNext, RInv, TypeOK
  <2>2. DOMAIN m_val' = DOMAIN m_val
    BY <1>11 DEF VisitNext, Store
  <2>. QED BY <2>1, <2>2 DEF RInv, TypeOK, LockOK, LookupOK, Constructed, ReturnedOK,
                             OneVariable, registryVars, lockVars
<1>12. ASSUME NEW t \in Threads, VisitEnd(t) PROVE RInv'
  <2>1. /\ pc[t] = "visit" /\ Unlock(t)
        /\ UNCHANGED <<s_datas, m_type, returned, m_val, toVisit>>
    BY <1>12 DEF VisitEnd, registryVars
  <2>. QED BY <2>1, Leaving DEF RInv, ReturnedOK, OneVariable
<1>13. CASE UNCHANGED vars
  BY <1>13 DEF vars, registryVars, lockVars, loadVars, RInv, TypeOK, LockOK, LookupOK,
               Constructed, ReturnedOK, OneVariable
<1>. QED BY <1>1, <1>2, <1>3, <1>4, <1>5, <1>6, <1>7, <1>8, <1>9, <1>10, <1>11, <1>12, <1>13,
            InsertRInv DEF Next

THEOREM RInvHolds == Spec => []RInv
BY InitRInv, NextRInv, PTL DEF Spec

\* The variables have their types, and whoever is in a critical section of the
\* registry has its lock, and nobody else.
THEOREM TypesHold == Spec => []TypeOK
BY RInvHolds, PTL DEF RInv

\* Two threads that look the same name up for the first time get the same
\* variable, the one that files are loaded into, for any number of threads.
THEOREM OneVariableHolds == Spec => []OneVariable
BY RInvHolds, PTL DEF RInv

\* Visit() goes through a map that nobody inserts into.
THEOREM StableUnderVisitHolds == Spec => StableUnderVisit
<1>1. RInv /\ [Next]_vars => [(\E t \in Threads : pc[t] = "visit") => s_datas' = s_datas]_vars
  <2> SUFFICES ASSUME RInv, Next, NEW u \in Threads, pc[u] = "visit"
               PROVE  s_datas' = s_datas
    BY DEF vars
  <2>1. PICK t \in Threads : s_datas' = s_datas \/ LookupInsert(t)
    BY DEF Next, LookupLock, LookupExisting, LookupFound, LookupThrows, LookupNotFound,
           SetValue, LoadBegin, LoadNode, LoadEnd, VisitBegin, VisitNext, VisitEnd, registryVars
  <2>. QED BY <2>1, InsertRInv
<1>. QED BY <1>1, RInvHolds, PTL DEF Spec, StableUnderVisit

-----------------------------------------------------------------------------
(* Sets and sequences. *)

LEMMA LeastNatural ==
  ASSUME NEW T, T \subseteq Nat, T # {}
  PROVE  \E n \in T : \A m \in T : n <= m
<1> DEFINE R == {p \in Nat \X Nat : p[1] < p[2]}
<1>1. IsWellFoundedOn(R, Nat)
  BY NatLessThanWellFounded DEF OpToRel
<1>2. PICK n \in T : \A m \in T : <<m, n>> \notin R
  <2>. HIDE DEF R
  <2>. QED BY <1>1, WFMin, Zenon
<1>3. ASSUME NEW m \in T PROVE n <= m
  <2>1. m \in Nat /\ n \in Nat /\ ~(m < n)
    BY <1>2
  <2>. QED BY <2>1
<1>. QED BY <1>3

\* SetToSeq() has every element of a finite set.
LEMMA SequenceOfSet ==
  ASSUME NEW S, IsFiniteSet(S)
  PROVE  SetToSeq(S) \in Seq(S) /\ \A x \in S : \E i \in DOMAIN SetToSeq(S) : SetToSeq(S)[i] = x
<1> DEFINE n == Cardinality(S)
           s == SetToSeq(S)
<1>1. n \in Nat /\ ExistsBijection(1 .. n, S)
  BY FS_CardinalityType
<1>2. \E f \in [1 .. n -> S] : IsInjective(f)
  BY <1>1 DEF ExistsBijection, Bijection, Injection
<1>3. s \in [1 .. n -> S] /\ IsInjective(s)
  BY <1>2 DEF SetToSeq
<1>4. s \in Injection(1 .. n, S)
  BY <1>3 DEF Injection
<1>5. IsFiniteSet(1 .. n) /\ Cardinality(1 .. n) = n
  BY <1>1, FS_Interval
<1>6. s \in Surjection(1 .. n, S)
  BY <1>4, <1>5, FS_Injection
<1>7. \A x \in S : \E i \in 1 .. n : s[i] = x
  <2>. HIDE DEF s, n
  <2>. QED BY <1>6 DEF Surjection
<1>8. s \in Seq(S)
  BY <1>1, <1>3
<1>. QED BY <1>3, <1>7, <1>8

\* A sequence that is the other two after one another has what either has.
LEMMA ConcatenationHas ==
  ASSUME NEW S, NEW a \in Seq(S), NEW b \in Seq(S)
  PROVE  a \o b \in Seq(S) /\ Range(a \o b) = Range(a) \cup Range(b)
<1> DEFINE c == a \o b
<1>1. /\ c \in Seq(S) /\ Len(c) = Len(a) + Len(b)
      /\ \A i \in 1 .. Len(c) : c[i] = IF i <= Len(a) THEN a[i] ELSE b[i - Len(a)]
  BY ConcatProperties
<1>2. /\ Len(a) \in Nat /\ Len(b) \in Nat /\ DOMAIN a = 1 .. Len(a) /\ DOMAIN b = 1 .. Len(b)
      /\ DOMAIN c = 1 .. Len(c)
  BY <1>1
<1> HIDE DEF c
<1>3. ASSUME NEW i \in DOMAIN c PROVE c[i] \in Range(a) \cup Range(b)
  <2>1. CASE i <= Len(a)
    <3>1. i \in DOMAIN a /\ c[i] = a[i]
      BY <1>1, <1>2, <1>3, <2>1
    <3>. QED BY <3>1 DEF Range
  <2>2. CASE ~(i <= Len(a))
    <3>1. i - Len(a) \in DOMAIN b /\ c[i] = b[i - Len(a)]
      BY <1>1, <1>2, <1>3, <2>2
    <3>. QED BY <3>1 DEF Range
  <2>. QED BY <2>1, <2>2
<1>4. ASSUME NEW i \in DOMAIN a PROVE a[i] \in Range(c)
  <2>1. i \in DOMAIN c /\ c[i] = a[i]
    BY <1>1, <1>2, <1>4
  <2>. QED BY <2>1 DEF Range
<1>5. ASSUME NEW i \in DOMAIN b PROVE b[i] \in Range(c)
  <2>1. i + Len(a) \in DOMAIN c /\ ~(i + Len(a) <= Len(a)) /\ (i + Len(a)) - Len(a) = i
    BY <1>1, <1>2, <1>5
  <2>2. c[i + Len(a)] = b[i]
    BY <1>1, <1>2, <2>1
  <2>. QED BY <2>1, <2>2 DEF Range
<1>6. Range(c) = Range(a) \cup Range(b)
  BY <1>3, <1>4, <1>5 DEF Range
<1>. QED BY <1>1, <1>6 DEF c

\* f has the first k sequences after one another, for k up to n.
Flattens(f, ss, n) == f = [k \in 1 .. n |-> IF k = 1 THEN ss[k] ELSE f[k - 1] \o ss[k]]

LEMMA FlattenExists ==
  ASSUME NEW ss, NEW n \in Nat
  PROVE  \E f : Flattens(f, ss, n)
<1> DEFINE Without == {k \in Nat : ~\E f : Flattens(f, ss, k)}
<1>1. Without = {}
  <2> SUFFICES ASSUME Without # {} PROVE FALSE
    OBVIOUS
  <2>1. PICK k \in Without : \A m \in Without : k <= m
    <3>1. Without \subseteq Nat
      OBVIOUS
    <3>. HIDE DEF Without
    <3>. QED BY <3>1, LeastNatural
  <2>2. k \in Nat /\ ~\E f : Flattens(f, ss, k)
    BY <2>1
  <2>3. k # 0
    <3>1. PICK f : f = [j \in 1 .. 0 |-> <<>>]
      OBVIOUS
    <3>2. f = [j \in 1 .. 0 |-> IF j = 1 THEN ss[j] ELSE f[j - 1] \o ss[j]]
      BY <3>1
    <3>. QED BY <2>2, <3>2 DEF Flattens
  <2>4. k - 1 \in Nat /\ ~(k <= k - 1)
    BY <2>2, <2>3
  <2>5. PICK g : Flattens(g, ss, k - 1)
    BY <2>1, <2>4
  <2>6. \A j \in 1 .. k - 1 : g[j] = IF j = 1 THEN ss[j] ELSE g[j - 1] \o ss[j]
    BY <2>5 DEF Flattens
  <2>7. PICK last : last = IF k = 1 THEN ss[k] ELSE g[k - 1] \o ss[k]
    OBVIOUS
  <2>8. PICK f : f = [j \in 1 .. k |-> IF j = k THEN last ELSE g[j]]
    OBVIOUS
  <2>9. f[k] = last /\ \A j \in 1 .. k - 1 : f[j] = g[j]
    BY <2>2, <2>3, <2>8
  <2>10. ASSUME NEW j \in 1 .. k
         PROVE  f[j] = IF j = 1 THEN ss[j] ELSE f[j - 1] \o ss[j]
    <3>1. CASE j = 1 /\ j = k
      BY <2>7, <2>9, <3>1
    <3>2. CASE j = 1 /\ j # k
      <4>1. j \in 1 .. k - 1
        BY <2>2, <3>2
      <4>. QED BY <2>6, <2>9, <3>2, <4>1
    <3>3. CASE j # 1
      <4>1. j - 1 \in 1 .. k - 1
        BY <2>2, <3>3
      <4>2. f[j - 1] = g[j - 1]
        BY <2>9, <4>1
      <4>3. CASE j = k
        BY <2>7, <2>9, <3>3, <4>2, <4>3
      <4>4. CASE j # k
        <5>1. j \in 1 .. k - 1
          BY <2>2, <4>4
        <5>. QED BY <2>6, <2>9, <3>3, <4>2, <5>1
      <4>. QED BY <4>3, <4>4
    <3>. QED BY <3>1, <3>2, <3>3
  <2>11. Flattens(f, ss, k)
    BY <2>8, <2>10 DEF Flattens
  <2>. QED BY <2>2, <2>11
<1>. QED BY <1>1

\* FlattenSeq() has what its sequences have.
LEMMA FlattenHas ==
  ASSUME NEW S, NEW ss \in Seq(Seq(S))
  PROVE  /\ FlattenSeq(ss) \in Seq(S)
         /\ \A x : x \in Range(FlattenSeq(ss)) <=> \E k \in DOMAIN ss : x \in Range(ss[k])
<1>1. Len(ss) \in Nat /\ DOMAIN ss = 1 .. Len(ss) /\ \A k \in 1 .. Len(ss) : ss[k] \in Seq(S)
  OBVIOUS
<1>2. CASE Len(ss) = 0
  <2>1. FlattenSeq(ss) = ss /\ ss = <<>>
    BY <1>2 DEF FlattenSeq
  <2>. QED BY <2>1 DEF Range
<1>3. CASE Len(ss) # 0
  <2>1. PICK f : Flattens(f, ss, Len(ss)) /\ FlattenSeq(ss) = f[Len(ss)]
    <3>1. \E f : Flattens(f, ss, Len(ss))
      BY <1>1, FlattenExists
    <3>2. PICK f : f = CHOOSE g : Flattens(g, ss, Len(ss))
      OBVIOUS
    <3>3. FlattenSeq(ss) = f[Len(ss)]
      BY <1>3, <3>2 DEF FlattenSeq, Flattens
    <3>. QED BY <3>1, <3>2, <3>3
  <2>2. \A k \in 1 .. Len(ss) : f[k] = IF k = 1 THEN ss[k] ELSE f[k - 1] \o ss[k]
    BY <2>1 DEF Flattens
  <2> DEFINE Right(k) == /\ f[k] \in Seq(S)
                         /\ \A x : x \in Range(f[k]) <=> \E j \in 1 .. k : x \in Range(ss[j])
             Wrong == {k \in 1 .. Len(ss) : ~Right(k)}
  <2>3. Wrong = {}
    <3> SUFFICES ASSUME Wrong # {} PROVE FALSE
      OBVIOUS
    <3>1. PICK k \in Wrong : \A m \in Wrong : k <= m
      <4>1. Wrong \subseteq Nat
        OBVIOUS
      <4>. HIDE DEF Wrong
      <4>. QED BY <4>1, LeastNatural
    <3>2. k \in 1 .. Len(ss) /\ ~Right(k)
      BY <3>1
    <3>3. k # 1
      <4>1. SUFFICES ASSUME k = 1 PROVE Right(k)
        BY <3>2
      <4>2. f[k] = ss[k] /\ \A j : j \in 1 .. k <=> j = k
        BY <2>2, <3>2, <4>1
      <4>3. f[k] \in Seq(S)
        BY <1>1, <3>2, <4>2
      <4>4. ASSUME NEW x PROVE x \in Range(f[k]) <=> \E j \in 1 .. k : x \in Range(ss[j])
        BY <4>2
      <4>. QED BY <4>3, <4>4
    <3>4. k - 1 \in 1 .. Len(ss) /\ ~(k <= k - 1)
      BY <1>1, <3>2, <3>3
    <3>5. Right(k - 1)
      BY <3>1, <3>4
    <3>6. f[k] = f[k - 1] \o ss[k]
      BY <2>2, <3>2, <3>3
    <3>7. f[k] \in Seq(S) /\ Range(f[k]) = Range(f[k - 1]) \cup Range(ss[k])
      BY <1>1, <3>2, <3>5, <3>6, ConcatenationHas
    <3>8. \A j : j \in 1 .. k <=> j \in 1 .. k - 1 \/ j = k
      BY <1>1, <3>2, <3>3
    <3>9. Right(k)
      <4>1. \A x : x \in Range(f[k - 1]) <=> \E j \in 1 .. k - 1 : x \in Range(ss[j])
        BY <3>5
      <4>. QED BY <3>7, <3>8, <4>1, Zenon
    <3>. QED BY <3>2, <3>9
  <2>4. Len(ss) \in 1 .. Len(ss)
    BY <1>1, <1>3
  <2>5. Right(Len(ss))
    BY <2>3, <2>4
  <2>. QED BY <1>1, <2>1, <2>5
<1>. QED BY <1>2, <1>3

-----------------------------------------------------------------------------
(* Conversions.  A level of containers does with the values of the level below   *)
(* what all levels do, so that each fact is shown for the three types without    *)
(* elements, and then for the containers of any type that has it.                *)

LEMMA TypeForms ==
  /\ Basic \subseteq Simple /\ Simple \subseteq AllTypes
  /\ \A type \in AllTypes \ Basic :
       type = <<type[1], type[2]>> /\ type[1] \in Containers /\ type[2] \in Simple
  /\ \A type \in Simple \ Basic : type[2] \in Basic
BY DEF AllTypes, Simple, Basic, Containers

\* One level more reads, writes and compares the types of the level below alike.
LEMMA LowerLevel ==
  ASSUME NEW type \in Simple
  PROVE  /\ \A text : fromString(type, text) = simpleFromString(type, text)
         /\ \A v : toString(type, v) = simpleToString(type, v)
         /\ \A text, v : Denotes(type, text, v) <=> simpleDenotes(type, text, v)
         /\ \A v : IsValue(type, v) <=> simpleIsValue(type, v)
         /\ \A v : Readable(type, v) <=> simpleReadable(type, v)
<1>1. CASE type \in Basic
  BY <1>1 DEF fromString, simpleFromString, toString, simpleToString, Denotes, simpleDenotes,
              IsValue, simpleIsValue, Readable, simpleReadable
<1>2. CASE type \notin Basic
  <2> DEFINE T == type[2]
  <2>1. T \in Basic
    BY <1>2, TypeForms
  <2>2. /\ \A text : simpleFromString(T, text) = basicFromString(T, text)
        /\ \A v : simpleToString(T, v) = basicToString(T, v)
        /\ \A text, v : simpleDenotes(T, text, v) <=> basicDenotes(T, text, v)
        /\ \A v : simpleIsValue(T, v) <=> basicIsValue(T, v)
        /\ \A v : simpleReadable(T, v) <=> basicReadable(T, v)
    BY <2>1 DEF simpleFromString, simpleToString, simpleDenotes, simpleIsValue, simpleReadable
  <2>3. \A text : fromString(type, text) = simpleFromString(type, text)
    <3> SUFFICES ASSUME NEW text PROVE fromString(type, text) = simpleFromString(type, text)
      OBVIOUS
    <3> DEFINE parts == Parts(type, Load(text))
    <3>1. [i \in DOMAIN parts |-> simpleFromString(T, parts[i])]
          = [i \in DOMAIN parts |-> basicFromString(T, parts[i])]
      BY <2>2
    <3>. QED BY <1>2, <3>1 DEF fromString, simpleFromString
  <2>4. \A v : toString(type, v) = simpleToString(type, v)
    <3> SUFFICES ASSUME NEW v PROVE toString(type, v) = simpleToString(type, v)
      OBVIOUS
    <3> DEFINE order == Ordered(type, v)
    <3>1. [i \in DOMAIN order |-> simpleToString(T, order[i])]
          = [i \in DOMAIN order |-> basicToString(T, order[i])]
      BY <2>2
    <3>. QED BY <1>2, <3>1 DEF toString, simpleToString
  <2>5. \A text, v : Denotes(type, text, v) <=> simpleDenotes(type, text, v)
    <3> SUFFICES ASSUME NEW text, NEW v PROVE Denotes(type, text, v) <=> simpleDenotes(type, text, v)
      OBVIOUS
    <3>1. \A t, x : simpleDenotes(T, t, x) <=> basicDenotes(T, t, x)
      BY <2>2
    <3> DEFINE items == Items(type, Load(text))
    <3>2. CASE type[1] # "set"
      <4>1. Denotes(type, text, v) <=> /\ DOMAIN v = DOMAIN items
                                       /\ \A i \in DOMAIN items : simpleDenotes(T, Emit(items[i]), v[i])
        BY <1>2, <3>2 DEF Denotes, containerDenotes
      <4>2. simpleDenotes(type, text, v) <=> /\ DOMAIN v = DOMAIN items
                                             /\ \A i \in DOMAIN items : basicDenotes(T, Emit(items[i]), v[i])
        BY <1>2, <3>2 DEF simpleDenotes, containerDenotes
      <4>. QED BY <3>1, <4>1, <4>2
    <3>3. CASE type = <<"set", <<"define">>>>
      BY <1>2, <3>1, <3>3 DEF Denotes, simpleDenotes, containerDenotes
    <3>4. CASE type[1] = "set" /\ T # <<"define">>
      <4>1. Denotes(type, text, v) <=>
              /\ \A x \in v : \E i \in DOMAIN items : simpleDenotes(T, Emit(items[i]), x)
              /\ \A i \in DOMAIN items : \E x \in v : simpleDenotes(T, Emit(items[i]), x)
        BY <1>2, <3>4 DEF Denotes, containerDenotes
      <4>2. simpleDenotes(type, text, v) <=>
              /\ \A x \in v : \E i \in DOMAIN items : basicDenotes(T, Emit(items[i]), x)
              /\ \A i \in DOMAIN items : \E x \in v : basicDenotes(T, Emit(items[i]), x)
        BY <1>2, <3>4 DEF simpleDenotes, containerDenotes
      <4>. QED BY <3>1, <4>1, <4>2
    <3>. QED BY <1>2, <3>2, <3>3, <3>4, TypeForms
  <2>6. \A v : IsValue(type, v) <=> simpleIsValue(type, v)
    BY <1>2, <2>2 DEF IsValue, simpleIsValue, containerIsValue
  <2>7. \A v : Readable(type, v) <=> simpleReadable(type, v)
    BY <1>2, <2>2 DEF Readable, simpleReadable, containerReadable
  <2>. QED BY <2>3, <2>4, <2>5, <2>6, <2>7
<1>. QED BY <1>1, <1>2

-----------------------------------------------------------------------------
(* Texts. *)

LEMMA TextForms ==
  ASSUME NEW t, IsText(t)
  PROVE  /\ IsText(Quoted(t)) /\ Quoted(t) # t /\ ~IsPlain(Quoted(t))
         /\ Load(Quoted(t)) = Scalar(t)
         /\ t[1] > 0 => IsText(Inside(t)) /\ Quoted(Inside(t)) = t
         /\ IsPlain(t) => t = Plain(t[3])
BY DEF IsText, Quoted, Inside, IsPlain, Plain, Load, Scalar

\* A node that YAML::Load gives.
IsNode(n) == n \in Nodes \/ (n = Scalar(n[2]) /\ IsText(n[2]))

LEMMA NodeForms ==
  ASSUME NEW n, IsNode(n)
  PROVE  /\ IsText(Emit(n)) /\ IsText(TextOf(n))
         /\ Kind(n) = "seq" => n = Sequence(n[2]) /\ n[2] \in Seq(Nodes)
         /\ Kind(n) = "map" => /\ n = Mapping(n[2]) /\ IsFiniteSet(DOMAIN n[2])
                               /\ \A key \in DOMAIN n[2] : n[2][key] \in Nodes
<1>1. Kind(n) = "scalar" => IsText(n[2])
  BY NodesAssumption DEF IsNode, Kind, Scalar, Sequence, Mapping, NullNode
<1>2. /\ Kind(n) = "seq" => n = Sequence(n[2]) /\ n[2] \in Seq(Nodes)
      /\ Kind(n) = "map" => /\ n = Mapping(n[2]) /\ IsFiniteSet(DOMAIN n[2])
                            /\ \A key \in DOMAIN n[2] : n[2][key] \in Nodes
      /\ Kind(n) # "scalar" => n \in Nodes
  BY NodesAssumption DEF IsNode, Kind, Scalar, Sequence, Mapping, NullNode
<1>3. Kind(n) # "scalar" => IsText(Block(n))
  BY <1>2 DEF IsText, Block
<1>4. IsText(Emit(n)) /\ IsText(TextOf(n))
  BY <1>1, <1>3, TextForms DEF Emit, TextOf
<1>. QED BY <1>2, <1>4

LEMMA LoadForms ==
  ASSUME NEW t, IsText(t)
  PROVE  IsNode(Load(t))
<1>1. CASE IsPlain(t) \/ t[1] > 0
  BY <1>1, TextForms DEF Load, IsNode, Scalar
<1>2. CASE ~IsPlain(t) /\ ~(t[1] > 0)
  BY <1>2 DEF IsText, IsPlain, Load, IsNode
<1>. QED BY <1>1, <1>2

\* Reading what a node is written as.
LEMMA LoadEmit ==
  ASSUME NEW n, Kind(n) # "scalar" \/ (n = Scalar(n[2]) /\ IsText(n[2]))
  PROVE  Load(Emit(n)) = n
<1>1. CASE Kind(n) # "scalar"
  BY <1>1 DEF Load, Emit, Block, IsPlain
<1>2. CASE n = Scalar(n[2]) /\ IsText(n[2])
  <2>1. Kind(n) = "scalar"
    BY <1>2 DEF Kind, Scalar
  <2>. QED BY <1>2, <2>1, TextForms DEF Load, Emit
<1>. QED BY <1>1, <1>2

LEMMA IndexedForms ==
  ASSUME NEW n, IsNode(n)
  PROVE  Indexed(n) \in Seq(Nodes)
<1>1. CASE Kind(n) = "seq"
  BY <1>1, NodeForms DEF Indexed
<1>2. CASE Kind(n) = "map"
  <2>1. PICK size : size = Cardinality(DOMAIN n[2])
    OBVIOUS
  <2>2. size \in Nat /\ \A key \in DOMAIN n[2] : n[2][key] \in Nodes
    BY <1>2, <2>1, NodeForms, FS_CardinalityType
  <2>3. \A key : (IF Has(n, key) THEN n[2][key] ELSE NullNode) \in Nodes
    BY <2>2, NodesAssumption DEF Has
  <2>4. Indexed(n) = [i \in 1 .. size |-> LET key == ToString(i - 1) IN
                                          IF Has(n, key) THEN n[2][key] ELSE NullNode]
    BY <1>2, <2>1 DEF Indexed
  <2>. QED BY <2>2, <2>3, <2>4
<1>3. CASE Kind(n) \notin {"seq", "map"}
  <2>1. Indexed(n) = <<>>
    BY <1>3 DEF Indexed
  <2>. QED BY <2>1
<1>. QED BY <1>1, <1>2, <1>3

\* The texts of the parts of a text.
LEMMA PartsForms ==
  ASSUME NEW type, NEW text, IsText(text)
  PROVE  /\ \A i \in DOMAIN Parts(type, Load(text)) : IsText(Parts(type, Load(text))[i])
         /\ type[1] # "map" => \E n \in Nat : DOMAIN Parts(type, Load(text)) = 1 .. n
<1> DEFINE node == Load(text)
           parts == Parts(type, node)
<1>1. IsNode(node)
  BY LoadForms
<1>. HIDE DEF node
<1>2. ASSUME NEW n \in Nodes PROVE IsText(Emit(n))
  BY NodeForms DEF IsNode
<1>3. CASE type[1] = "map" /\ Kind(node) = "map"
  <2>1. Items(type, node) = node[2]
    BY <1>3 DEF Items
  <2>2. \A i \in DOMAIN node[2] : node[2][i] \in Nodes
    BY <1>1, <1>3, NodeForms
  <2>. QED BY <1>2, <1>3, <2>1, <2>2 DEF Parts, node
<1>4. CASE type[1] # "map"
  <2>1. PICK items : items = Items(type, node)
    OBVIOUS
  <2>2. items \in Seq(Nodes)
    BY <1>1, <1>4, <2>1, IndexedForms DEF Items
  <2>3. Len(items) \in Nat /\ DOMAIN items = 1 .. Len(items) /\ \A i \in DOMAIN items : items[i] \in Nodes
    BY <2>2
  <2>. QED BY <1>2, <1>4, <2>1, <2>3 DEF Parts, node
<1>5. CASE type[1] = "map" /\ Kind(node) # "map"
  <2>1. Items(type, node) = <<>>
    BY <1>5 DEF Items
  <2>. QED BY <2>1 DEF Parts, node
<1>. QED BY <1>3, <1>4, <1>5

-----------------------------------------------------------------------------
(* fromString. *)

\* The result of fromString(): an error, or a value of the type for which the text
\* stands.
Sound(type, text, r) ==
  r = Throw \/ (r = Ok(r[2]) /\ IsValue(type, r[2]) /\ Denotes(type, text, r[2]))

LEMMA FunctionSeq ==
  ASSUME NEW n \in Nat, NEW f, f = [i \in 1 .. n |-> f[i]]
  PROVE  f \in Seq(Range(f)) /\ Len(f) = n
<1>1. \A i \in 1 .. n : f[i] \in Range(f)
  BY DEF Range
<1>. QED BY <1>1

LEMMA DefineReads ==
  ASSUME NEW text, IsText(text)
  PROVE  Sound(<<"define">>, text, DefineFromString(text))
<1> DEFINE node == Load(text)
           elements == Elements(node, "appenders")
           r == DefineFromString(text)
           d == r[2]
<1>1. IsNode(node)
  BY LoadForms
<1>2. Len(elements) \in Nat /\ DOMAIN elements = 1 .. Len(elements)
  <2>. HIDE DEF node
  <2>1. CASE Has(node, "appenders")
    <3>1. IsNode(node[2]["appenders"])
      BY <1>1, <2>1, NodeForms DEF Has, IsNode
    <3>2. elements \in Seq(Nodes)
      BY <2>1, <3>1, IndexedForms DEF Elements
    <3>. QED BY <3>2
  <2>2. CASE ~Has(node, "appenders")
    <3>1. elements = <<>>
      BY <2>2 DEF Elements
    <3>. QED BY <3>1
  <2>. QED BY <2>1, <2>2
<1>3. SUFFICES ASSUME r # Throw PROVE r = Ok(d) /\ IsDefine(d) /\ DenotesDefine(node, d)
  BY DEF Sound, IsValue, Denotes, basicIsValue, basicDenotes, Basic
<1>. HIDE DEF node
<1>4. Kind(node) # "scalar"
  BY <1>3 DEF DefineFromString, Has, node
<1>5. CASE ~Has(node, "name")
  <2>1. r = Ok(ErrorDefine)
    BY <1>4, <1>5 DEF DefineFromString, node
  <2>2. d = ErrorDefine
    BY <2>1 DEF Ok
  <2>3. IsDefine(ErrorDefine)
    BY DEF IsDefine, ErrorDefine
  <2>4. DenotesDefine(node, ErrorDefine)
    BY <1>5 DEF DenotesDefine, DefineName
  <2>. QED BY <2>1, <2>2, <2>3, <2>4
<1>6. CASE Has(node, "name")
  <2> DEFINE appenders == [i \in DOMAIN elements |-> AppenderFrom(elements[i])]
             level == LevelFromString(Field(node, "level"))
             value == [name |-> Field(node, "name"), level |-> level,
                       format |-> Field(node, "format"), appenders |-> appenders]
  <2>1. r = Ok(value)
    BY <1>3, <1>4, <1>6 DEF DefineFromString, node
  <2>2. d = value
    BY <2>1 DEF Ok
  <2>3. \A t : LevelFromString(t) \in LevelNames \cup {"UNKNOWN"}
    BY DEF LevelFromString, LevelNames, LowerCase
  <2>4. \A n : IsAppender(AppenderFrom(n))
    <3>1. TAKE n
    <3>2. PICK l \in LevelNames \cup {"UNKNOWN"} : l = LevelFromString(Field(n, "level"))
      BY <2>3
    <3>. QED BY <3>2 DEF IsAppender, AppenderFrom
  <2>. HIDE DEF elements
  <2>5. appenders \in Seq(Range(appenders)) /\ Len(appenders) = Len(elements)
    BY <1>2, FunctionSeq
  <2>6. \A i \in DOMAIN appenders : IsAppender(appenders[i])
    BY <2>4
  <2>7. level \in LevelNames \cup {"UNKNOWN"}
    BY <2>3
  <2>. HIDE DEF appenders, level
  <2>8. IsDefine(value)
    BY <2>5, <2>6, <2>7 DEF IsDefine
  <2>9. DenotesDefine(node, value)
    BY <1>6, <2>5 DEF DenotesDefine, DefineName, elements
  <2>. QED BY <2>1, <2>2, <2>8, <2>9
<1>. QED BY <1>5, <1>6

LEMMA BasicReads ==
  ASSUME NEW type \in Basic, NEW text, IsText(text)
  PROVE  Sound(type, text, fromString(type, text))
<1>1. CASE type = <<"int">>
  BY <1>1, TextForms DEF Sound, IsValue, Denotes, basicIsValue, basicDenotes, Basic,
                         fromString, basicFromString, Ok, Throw
<1>2. CASE type = <<"string">>
  BY <1>2 DEF Sound, IsValue, Denotes, basicIsValue, basicDenotes, Basic,
              fromString, basicFromString, Ok, Throw
<1>3. CASE type = <<"define">>
  BY <1>3, DefineReads DEF Basic, fromString, basicFromString
<1>. QED BY <1>1, <1>2, <1>3 DEF Basic

\* What the conversions and comparisons of a container do with its elements.
LEMMA ContainerIs ==
  ASSUME NEW type \in AllTypes \ Basic
  PROVE  /\ \A text : fromString(type, text) =
               IF type[1] = "map" /\ Kind(Load(text)) = "seq" /\ Load(text)[2] # <<>> THEN Throw
               ELSE Collected(type, [i \in DOMAIN Parts(type, Load(text)) |->
                                       fromString(type[2], Parts(type, Load(text))[i])])
         /\ \A v : toString(type, v) =
               Emit(Built(type, [i \in DOMAIN Ordered(type, v) |->
                                   toString(type[2], Ordered(type, v)[i])]))
         /\ \A v : IsValue(type, v) <=>
               /\ type[1] = "vector" => v \in Seq(Range(v))
               /\ type[1] = "map" => v = [key \in DOMAIN v |-> v[key]]
               /\ type[1] # "set" => \A i \in DOMAIN v : IsValue(type[2], v[i])
               /\ type[1] = "set" => IsFiniteSet(v) /\ \A x \in v : IsValue(type[2], x)
<1>1. type[2] \in Simple
  BY TypeForms
<1>2. ASSUME NEW text
      PROVE  fromString(type, text) =
               IF type[1] = "map" /\ Kind(Load(text)) = "seq" /\ Load(text)[2] # <<>> THEN Throw
               ELSE Collected(type, [i \in DOMAIN Parts(type, Load(text)) |->
                                       fromString(type[2], Parts(type, Load(text))[i])])
  <2> DEFINE parts == Parts(type, Load(text))
  <2>1. [i \in DOMAIN parts |-> fromString(type[2], parts[i])]
        = [i \in DOMAIN parts |-> simpleFromString(type[2], parts[i])]
    BY <1>1, LowerLevel
  <2>. QED BY <2>1 DEF fromString, containerFromString
<1>3. ASSUME NEW v
      PROVE  toString(type, v) =
               Emit(Built(type, [i \in DOMAIN Ordered(type, v) |->
                                   toString(type[2], Ordered(type, v)[i])]))
  <2> DEFINE order == Ordered(type, v)
  <2>1. [i \in DOMAIN order |-> toString(type[2], order[i])]
        = [i \in DOMAIN order |-> simpleToString(type[2], order[i])]
    BY <1>1, LowerLevel
  <2>. QED BY <2>1 DEF toString
<1>4. \A v : IsValue(type[2], v) <=> simpleIsValue(type[2], v)
  BY <1>1, LowerLevel
<1>5. ASSUME NEW v
      PROVE  IsValue(type, v) <=>
               /\ type[1] = "vector" => v \in Seq(Range(v))
               /\ type[1] = "map" => v = [key \in DOMAIN v |-> v[key]]
               /\ type[1] # "set" => \A i \in DOMAIN v : IsValue(type[2], v[i])
               /\ type[1] = "set" => IsFiniteSet(v) /\ \A x \in v : IsValue(type[2], x)
  <2>1. IsValue(type, v) <=>
               /\ type[1] = "vector" => v \in Seq(Range(v))
               /\ type[1] = "map" => v = [key \in DOMAIN v |-> v[key]]
               /\ type[1] # "set" => \A i \in DOMAIN v : simpleIsValue(type[2], v[i])
               /\ type[1] = "set" => IsFiniteSet(v) /\ \A x \in v : simpleIsValue(type[2], x)
    BY DEF IsValue, containerIsValue
  <2>. QED BY <1>4, <2>1
<1>. QED BY <1>2, <1>3, <1>5

LEMMA DenotesIs ==
  ASSUME NEW type \in AllTypes \ Basic, NEW text, NEW v
  PROVE  LET items == Items(type, Load(text))
             Stands(i, x) == Denotes(type[2], Emit(items[i]), x)
             Name(i) == DefineName(Load(Emit(items[i])))
         IN
         /\ type[1] # "set" =>
              (Denotes(type, text, v) <=> DOMAIN v = DOMAIN items /\ \A i \in DOMAIN items : Stands(i, v[i]))
         /\ type = <<"set", <<"define">>>> =>
              (Denotes(type, text, v) <=>
                 /\ {d.name : d \in v} = {Name(i) : i \in DOMAIN items}
                 /\ \A d \in v : \E i \in DOMAIN items :
                      Stands(i, d) /\ \A j \in 1 .. i - 1 : Name(j) # d.name)
         /\ type[1] = "set" /\ type[2] # <<"define">> =>
              (Denotes(type, text, v) <=>
                 /\ \A x \in v : \E i \in DOMAIN items : Stands(i, x)
                 /\ \A i \in DOMAIN items : \E x \in v : Stands(i, x))
<1> DEFINE items == Items(type, Load(text))
<1>1. \A t, x : Denotes(type[2], t, x) <=> simpleDenotes(type[2], t, x)
  BY TypeForms, LowerLevel
<1>2. CASE type[1] # "set"
  <2>1. Denotes(type, text, v) <=> /\ DOMAIN v = DOMAIN items
                                   /\ \A i \in DOMAIN items : simpleDenotes(type[2], Emit(items[i]), v[i])
    BY <1>2 DEF Denotes, containerDenotes
  <2>. QED BY <1>1, <1>2, <2>1
<1>3. CASE type = <<"set", <<"define">>>>
  <2>1. Denotes(type, text, v) <=>
          /\ {d.name : d \in v} = {DefineName(Load(Emit(items[i]))) : i \in DOMAIN items}
          /\ \A d \in v : \E i \in DOMAIN items :
               /\ simpleDenotes(type[2], Emit(items[i]), d)
               /\ \A j \in 1 .. i - 1 : DefineName(Load(Emit(items[j]))) # d.name
    BY <1>3 DEF Denotes, containerDenotes
  <2>. QED BY <1>1, <1>3, <2>1
<1>4. CASE type[1] = "set" /\ type[2] # <<"define">>
  <2>1. Denotes(type, text, v) <=>
          /\ \A x \in v : \E i \in DOMAIN items : simpleDenotes(type[2], Emit(items[i]), x)
          /\ \A i \in DOMAIN items : \E x \in v : simpleDenotes(type[2], Emit(items[i]), x)
    BY <1>4 DEF Denotes, containerDenotes
  <2>. QED BY <1>1, <1>4, <2>1
<1>. QED BY <1>2, <1>3, <1>4, TypeForms

\* The elements of a sequence make a finite set.
LEMMA FiniteRange ==
  ASSUME NEW n \in Nat, NEW f
  PROVE  IsFiniteSet({f[i] : i \in 1 .. n})
<1> DEFINE S == {f[i] : i \in 1 .. n}
           g == [i \in 1 .. n |-> f[i]]
<1>1. g \in [1 .. n -> S] /\ \A x \in S : \E i \in 1 .. n : g[i] = x
  OBVIOUS
<1>2. IsFiniteSet(1 .. n)
  BY FS_Interval
<1>. HIDE DEF g, S
<1>3. g \in Surjection(1 .. n, S)
  BY <1>1 DEF Surjection
<1>4. IsFiniteSet(S)
  BY <1>2, <1>3, FS_Surjection
<1>. QED BY <1>4 DEF S

\* A set of definitions has one of every name, the first.
LEMMA SetOfDefines ==
  ASSUME NEW n \in Nat, NEW values, DOMAIN values = 1 .. n,
         NEW set, set = SetOf(<<"define">>, values)
  PROVE  /\ \A i \in 1 .. n : \E d \in set : d.name = values[i].name
         /\ \A d \in set : \E i \in 1 .. n :
              d = values[i] /\ \A j \in 1 .. i - 1 : values[j].name # d.name
<1> DEFINE firsts == {i \in 1 .. n : \A j \in 1 .. i - 1 : values[j].name # values[i].name}
<1>1. set = {values[i] : i \in firsts}
  BY DEF SetOf
<1>2. ASSUME NEW i \in 1 .. n PROVE \E d \in set : d.name = values[i].name
  <2> DEFINE same == {j \in 1 .. n : values[j].name = values[i].name}
  <2>1. PICK k \in same : \A j \in same : k <= j
    <3>1. same \subseteq Nat /\ i \in same
      OBVIOUS
    <3>. HIDE DEF same
    <3>. QED BY <3>1, LeastNatural
  <2>2. \A j \in 1 .. k - 1 : j \notin same
    BY <2>1
  <2>3. k \in firsts
    BY <2>1, <2>2
  <2>. QED BY <1>1, <2>1, <2>3
<1>3. \A d \in set : \E i \in 1 .. n : d = values[i] /\ \A j \in 1 .. i - 1 : values[j].name # d.name
  BY <1>1
<1>. QED BY <1>2, <1>3

\* If fromString() is right for the elements, it is for their container.
LEMMA ContainerReads ==
  ASSUME NEW type \in AllTypes \ Basic, NEW text, IsText(text),
         \A t : IsText(t) => Sound(type[2], t, fromString(type[2], t))
  PROVE  Sound(type, text, fromString(type, text))
<1> DEFINE T == type[2]
           node == Load(text)
           items == Items(type, node)
           parts == Parts(type, node)
           casts == [i \in DOMAIN parts |-> fromString(T, parts[i])]
           values == [i \in DOMAIN casts |-> casts[i][2]]
           v == IF type[1] = "set" THEN SetOf(T, values) ELSE values
<1>1. SUFFICES ASSUME fromString(type, text) # Throw
               PROVE  /\ fromString(type, text) = Ok(fromString(type, text)[2])
                      /\ IsValue(type, fromString(type, text)[2])
                      /\ Denotes(type, text, fromString(type, text)[2])
  BY DEF Sound
<1>2. DOMAIN parts = DOMAIN items /\ \A i \in DOMAIN items : parts[i] = Emit(items[i])
  BY DEF Parts
<1>3. /\ \A i \in DOMAIN parts : IsText(parts[i])
      /\ type[1] # "map" => \E n \in Nat : DOMAIN parts = 1 .. n
  BY PartsForms
<1>4. fromString(type, text) = Collected(type, casts)
  BY <1>1, ContainerIs
<1>5. DOMAIN casts = DOMAIN items /\ DOMAIN values = DOMAIN items /\ values = [i \in DOMAIN values |-> values[i]]
  BY <1>2
<1>. HIDE DEF node, items, parts
<1>6. \A i \in DOMAIN items : casts[i] # Throw
  BY <1>1, <1>4, <1>5 DEF Collected
<1>7. fromString(type, text) = Ok(v)
  BY <1>4, <1>5, <1>6 DEF Collected
<1>8. fromString(type, text)[2] = v
  BY <1>7 DEF Ok
<1>9. \A i \in DOMAIN items : IsValue(T, values[i]) /\ Denotes(T, Emit(items[i]), values[i])
  <2>1. TAKE i \in DOMAIN items
  <2>2. casts[i] = fromString(T, parts[i]) /\ values[i] = casts[i][2]
    BY <1>2
  <2>3. Sound(T, parts[i], casts[i])
    BY <1>2, <1>3, <2>2
  <2>. QED BY <1>2, <1>6, <2>2, <2>3 DEF Sound
<1>. HIDE DEF casts, values
<1>10. CASE type[1] # "set"
  <2>1. v = values
    BY <1>10
  <2>2. type[1] = "vector" => values \in Seq(Range(values))
    BY <1>2, <1>3, <1>5, <1>10, FunctionSeq
  <2>3. IsValue(type, values)
    BY <1>5, <1>9, <1>10, <2>2, ContainerIs
  <2>4. Denotes(type, text, values)
    BY <1>5, <1>9, <1>10, DenotesIs DEF items, node
  <2>. QED BY <1>7, <1>8, <2>1, <2>3, <2>4
<1>11. CASE type[1] = "set"
  <2>1. PICK n \in Nat : DOMAIN items = 1 .. n
    BY <1>2, <1>3, <1>11
  <2>2. CASE T = <<"define">>
    <3>1. v = SetOf(<<"define">>, values)
      BY <1>11, <2>2
    <3>. HIDE DEF v
    <3>2. /\ \A i \in 1 .. n : \E d \in v : d.name = values[i].name
          /\ \A d \in v : \E i \in 1 .. n :
               d = values[i] /\ \A j \in 1 .. i - 1 : values[j].name # d.name
      <4>1. DOMAIN values = 1 .. n
        BY <1>5, <2>1
      <4>2. PICK set : set = v
        OBVIOUS
      <4>3. PICK each : each = values
        OBVIOUS
      <4>4. DOMAIN each = 1 .. n /\ set = SetOf(<<"define">>, each)
        BY <3>1, <4>1, <4>2, <4>3
      <4>5. \A i \in 1 .. n : \E d \in set : d.name = each[i].name
        BY ONLY n \in Nat, <4>4, SetOfDefines
      <4>6. \A d \in set : \E i \in 1 .. n :
               d = each[i] /\ \A j \in 1 .. i - 1 : each[j].name # d.name
        BY ONLY n \in Nat, <4>4, SetOfDefines
      <4>. QED BY <4>2, <4>3, <4>5, <4>6
    <3>3. IsValue(type, v)
      <4>1. PICK all : all = {values[i] : i \in 1 .. n}
        OBVIOUS
      <4>2. IsFiniteSet(all)
        BY <4>1, FiniteRange
      <4>3. IsFiniteSet(v)
        <5>1. v \subseteq all
          BY <3>2, <4>1
        <5>. QED BY <4>2, <5>1, FS_Subset
      <4>4. \A d \in v : IsValue(T, d)
        <5>1. TAKE d \in v
        <5>2. PICK i \in 1 .. n : d = values[i]
          BY <3>2
        <5>. QED BY <1>9, <2>1, <5>2
      <4>. QED BY <1>11, <4>3, <4>4, ContainerIs
    <3> DEFINE Name(i) == DefineName(Load(Emit(items[i])))
    <3>4. \A i \in 1 .. n : values[i].name = Name(i)
      BY <1>9, <2>1, <2>2 DEF Denotes, basicDenotes, Basic, DenotesDefine
    <3>5. {d.name : d \in v} = {Name(i) : i \in 1 .. n}
      BY <3>2, <3>4
    <3>6. \A d \in v : \E i \in 1 .. n :
            Denotes(T, Emit(items[i]), d) /\ \A j \in 1 .. i - 1 : Name(j) # d.name
      <4>1. TAKE d \in v
      <4>2. PICK i \in 1 .. n : d = values[i] /\ \A j \in 1 .. i - 1 : values[j].name # d.name
        BY <3>2
      <4>. QED BY <1>9, <2>1, <3>4, <4>2
    <3>7. type = <<"set", <<"define">>>>
      BY <1>11, <2>2, TypeForms
    <3>8. Denotes(type, text, v) <=>
            /\ {d.name : d \in v} = {Name(i) : i \in DOMAIN items}
            /\ \A d \in v : \E i \in DOMAIN items :
                 Denotes(T, Emit(items[i]), d) /\ \A j \in 1 .. i - 1 : Name(j) # d.name
      BY <3>7, DenotesIs DEF items, node
    <3>9. Denotes(type, text, v)
      BY <2>1, <3>5, <3>6, <3>8
    <3>. QED BY <1>7, <1>8, <3>3, <3>9
  <2>3. CASE T # <<"define">>
    <3>1. v = {values[i] : i \in 1 .. n}
      BY <1>5, <1>11, <2>1, <2>3 DEF SetOf
    <3>. HIDE DEF v
    <3>2. IsValue(type, v)
      BY <1>9, <1>11, <2>1, <3>1, FiniteRange, ContainerIs
    <3>3. /\ \A x \in v : \E i \in DOMAIN items : Denotes(T, Emit(items[i]), x)
          /\ \A i \in DOMAIN items : \E x \in v : Denotes(T, Emit(items[i]), x)
      BY <1>9, <2>1, <3>1
    <3>4. Denotes(type, text, v)
      BY <1>11, <2>3, <3>3, DenotesIs DEF items, node
    <3>. QED BY <1>7, <1>8, <3>2, <3>4
  <2>. QED BY <2>2, <2>3
<1>. QED BY <1>10, <1>11

LEMMA Reads ==
  ASSUME NEW type \in AllTypes, NEW text, IsText(text)
  PROVE  Sound(type, text, fromString(type, text))
<1>1. ASSUME NEW T \in Simple, NEW t, IsText(t) PROVE Sound(T, t, fromString(T, t))
  BY <1>1, BasicReads, ContainerReads, TypeForms
<1>. QED BY <1>1, BasicReads, ContainerReads, TypeForms

-----------------------------------------------------------------------------
(* fromString(toString()). *)

LEMMA LevelBack ==
  /\ LevelFromString(NoText) = "UNKNOWN"
  /\ \A level \in LevelNames : LevelFromString(Plain(level)) = level
<1>1. LevelFromString(NoText) = "UNKNOWN"
  BY DEF LevelFromString, NoText, Plain, IsPlain, LevelNames, LowerCase
<1>2. ASSUME NEW level \in LevelNames PROVE LevelFromString(Plain(level)) = level
  <2>1. \A key \in DOMAIN LowerCase : key \notin LevelNames
    BY DEF LowerCase, LevelNames
  <2>. QED BY <2>1 DEF LevelFromString, Plain, IsPlain
<1>. QED BY <1>1, <1>2

LEMMA AppenderBack ==
  ASSUME NEW a, IsAppender(a)
  PROVE  LET node == AppenderNode(a) IN
         /\ AppenderThrows(node) <=> a.type = 1
         /\ a.type = 2 => (AppenderFrom(node) = a <=> a.level = "UNKNOWN" /\ a.format = NoText)
<1> DEFINE node == AppenderNode(a)
<1>1. a.type \in {1, 2} /\ (a.type = 2 => a.file = NoText)
      /\ a = [level |-> a.level, format |-> a.format, type |-> a.type, file |-> a.file]
  BY DEF IsAppender
<1>2. CASE a.type = 1
  <2>1. node = Mapping([type |-> Scalar(Plain("FileLogAppender")), file |-> Scalar(a.file)])
    BY <1>2 DEF AppenderNode
  <2>. HIDE DEF node
  <2>2. AppenderThrows(node)
    BY <2>1 DEF AppenderThrows, IsFile, Field, Has, Kind, Mapping, Scalar
  <2>. QED BY <1>2, <2>2 DEF node
<1>3. CASE a.type = 2
  <2>1. node = Mapping([type |-> Scalar(Plain("StdoutLogAppender"))])
    BY <1>3 DEF AppenderNode
  <2>. HIDE DEF node
  <2>2. /\ Field(node, "type") = Plain("StdoutLogAppender") /\ Has(node, "type")
        /\ Field(node, "level") = NoText /\ Field(node, "format") = NoText
    BY <2>1 DEF Field, Has, Kind, Mapping, Scalar
  <2>3. ~IsFile(node)
    BY <2>2 DEF IsFile, Plain
  <2>4. LevelFromString(NoText) = "UNKNOWN"
    BY LevelBack
  <2>5. AppenderFrom(node) = [level |-> "UNKNOWN", format |-> NoText, type |-> 2, file |-> NoText]
    BY <2>2, <2>3, <2>4 DEF AppenderFrom
  <2>6. ~AppenderThrows(node)
    BY <2>2, <2>3 DEF AppenderThrows
  <2>7. AppenderFrom(node) = a <=> a.level = "UNKNOWN" /\ a.format = NoText
    BY <1>1, <1>3, <2>5
  <2>. QED BY <1>3, <2>6, <2>7 DEF node
<1>. QED BY <1>1, <1>2, <1>3

\* The node that is written for the definition of a logger.
LEMMA DefineWritten ==
  ASSUME NEW d, IsDefine(d)
  PROVE  LET node == Load(DefineToString(d)) IN
         /\ Kind(node) = "map" /\ Has(node, "name") /\ Field(node, "name") = d.name
         /\ Field(node, "format") = d.format
         /\ Elements(node, "appenders") = [i \in DOMAIN d.appenders |-> AppenderNode(d.appenders[i])]
         /\ Field(node, "level") = IF Known(d) # {} THEN Plain(Levels(d)[Max(Known(d))]) ELSE NoText
<1> DEFINE keys == {"name"} \cup (IF Known(d) # {} THEN {"level"} ELSE {})
                       \cup (IF d.format # NoText THEN {"format"} ELSE {})
                       \cup (IF d.appenders # <<>> THEN {"appenders"} ELSE {})
           elements == [i \in DOMAIN d.appenders |-> AppenderNode(d.appenders[i])]
           level == Plain(Levels(d)[Max(Known(d))])
           map == [key \in keys |->
                     CASE key = "name"      -> Scalar(d.name)
                       [] key = "level"     -> Scalar(level)
                       [] key = "format"    -> Scalar(d.format)
                       [] key = "appenders" -> Sequence(elements)]
           node == Mapping(map)
<1>1. DefineToString(d) = Block(node)
  BY DEF DefineToString
<1>. HIDE DEF elements, level
<1>2. DOMAIN map = keys
  OBVIOUS
<1>3. map["name"] = Scalar(d.name)
  OBVIOUS
<1>4. "level" \in keys => map["level"] = Scalar(level)
  OBVIOUS
<1>5. "format" \in keys => map["format"] = Scalar(d.format)
  OBVIOUS
<1>6. "appenders" \in keys => map["appenders"] = Sequence(elements)
  OBVIOUS
<1>7. /\ "name" \in keys
      /\ "level" \in keys <=> Known(d) # {}
      /\ "format" \in keys <=> d.format # NoText
      /\ "appenders" \in keys <=> d.appenders # <<>>
  OBVIOUS
<1>. HIDE DEF map, keys
<1>8. Kind(node) = "map" /\ node[2] = map /\ \A key : Has(node, key) <=> key \in keys
  BY <1>2 DEF Has, Kind, Mapping
<1>9. Load(Block(node)) = node
  BY <1>8 DEF Load, Block, IsPlain
<1>. HIDE DEF node
<1>10. Field(node, "name") = d.name /\ Field(node, "format") = d.format
       /\ Field(node, "level") = IF Known(d) # {} THEN level ELSE NoText
  BY <1>3, <1>4, <1>5, <1>7, <1>8 DEF Field, Scalar
<1>11. Elements(node, "appenders") = elements
  <2>1. CASE d.appenders # <<>>
    BY <1>6, <1>7, <1>8, <2>1 DEF Elements, Indexed, Sequence, Kind
  <2>2. CASE d.appenders = <<>>
    BY <1>7, <1>8, <2>2 DEF Elements, elements
  <2>. QED BY <2>1, <2>2
<1>. QED BY <1>1, <1>7, <1>8, <1>9, <1>10, <1>11 DEF elements, level

LEMMA DefineBack ==
  ASSUME NEW d, IsDefine(d)
  PROVE  DefineFromString(DefineToString(d)) = Ok(d) <=> basicReadable(<<"define">>, d)
<1> DEFINE node == Load(DefineToString(d))
           elements == Elements(node, "appenders")
           appenders == [i \in DOMAIN elements |-> AppenderFrom(elements[i])]
           level == LevelFromString(Field(node, "level"))
           value == [name |-> Field(node, "name"), level |-> level,
                     format |-> Field(node, "format"), appenders |-> appenders]
           r == DefineFromString(DefineToString(d))
<1>1. /\ Kind(node) = "map" /\ Has(node, "name")
      /\ Field(node, "name") = d.name /\ Field(node, "format") = d.format
      /\ elements = [i \in DOMAIN d.appenders |-> AppenderNode(d.appenders[i])]
      /\ Field(node, "level") = IF Known(d) # {} THEN Plain(Levels(d)[Max(Known(d))]) ELSE NoText
  BY DefineWritten
<1>2. /\ r = Throw \/ r = Ok(value)
      /\ r = Throw <=> \E i \in DOMAIN elements : AppenderThrows(elements[i])
  BY <1>1 DEF DefineFromString, Ok, Throw
<1>. HIDE DEF node, elements
<1>3. /\ d = [name |-> d.name, level |-> d.level, format |-> d.format, appenders |-> d.appenders]
      /\ d.level \in LevelNames \cup {"UNKNOWN"}
      /\ d.appenders = [i \in DOMAIN d.appenders |-> d.appenders[i]]
      /\ Len(d.appenders) \in Nat /\ DOMAIN d.appenders = 1 .. Len(d.appenders)
      /\ \A i \in DOMAIN d.appenders : IsAppender(d.appenders[i])
  BY DEF IsDefine
<1>4. DOMAIN elements = DOMAIN d.appenders
      /\ \A i \in DOMAIN d.appenders : elements[i] = AppenderNode(d.appenders[i])
  BY <1>1
<1>5. basicReadable(<<"define">>, d) <=>
        \A i \in DOMAIN d.appenders :
          d.appenders[i].type = 2 /\ d.appenders[i].level = "UNKNOWN" /\ d.appenders[i].format = NoText
  BY DEF basicReadable
<1>6. \A i \in DOMAIN d.appenders :
        /\ d.appenders[i].type \in {1, 2}
        /\ AppenderThrows(elements[i]) <=> d.appenders[i].type = 1
        /\ d.appenders[i].type = 2 =>
             (AppenderFrom(elements[i]) = d.appenders[i] <=>
                d.appenders[i].level = "UNKNOWN" /\ d.appenders[i].format = NoText)
  BY <1>3, <1>4, AppenderBack DEF IsAppender
<1>7. ASSUME basicReadable(<<"define">>, d) PROVE r = Ok(d)
  <2>1. r = Ok(value)
    BY <1>2, <1>4, <1>5, <1>6, <1>7
  <2>2. appenders = d.appenders
    BY <1>3, <1>4, <1>5, <1>6, <1>7
  <2>3. level = d.level
    <3>1. \A i \in 1 .. Len(d.appenders) : Levels(d)[i] = "UNKNOWN"
      BY <1>3, <1>5, <1>7 DEF Levels
    <3>2. Levels(d)[0] = d.level
      BY <1>3 DEF Levels
    <3>3. CASE d.level = "UNKNOWN"
      <4>1. Known(d) = {}
        BY <1>3, <3>1, <3>2, <3>3 DEF Known
      <4>. QED BY <1>1, <3>3, <4>1, LevelBack
    <3>4. CASE d.level # "UNKNOWN"
      <4>1. Known(d) = {0}
        BY <1>3, <3>1, <3>2, <3>4 DEF Known
      <4>2. Max({0}) = 0
        BY DEF Max
      <4>3. Field(node, "level") = Plain(d.level)
        BY <1>1, <3>2, <4>1, <4>2
      <4>. QED BY <1>3, <3>4, <4>3, LevelBack
    <3>. QED BY <3>3, <3>4
  <2>. QED BY <1>1, <1>3, <2>1, <2>2, <2>3
<1>8. ASSUME r = Ok(d) PROVE basicReadable(<<"define">>, d)
  <2>1. r # Throw /\ value = d
    BY <1>2, <1>8 DEF Ok, Throw
  <2>2. appenders = d.appenders
    BY <2>1
  <2>3. \A i \in DOMAIN d.appenders : AppenderFrom(elements[i]) = d.appenders[i] /\ ~AppenderThrows(elements[i])
    BY <1>2, <1>4, <2>1, <2>2
  <2>. QED BY <1>5, <1>6, <2>3
<1>. QED BY <1>7, <1>8 DEF node

\* A conversion gives a value or throws.
LEMMA Results ==
  ASSUME NEW type \in AllTypes, NEW text
  PROVE  LET r == fromString(type, text) IN r = Throw \/ r = Ok(r[2])
<1>1. CASE type = <<"define">>
  <2>1. fromString(type, text) = DefineFromString(text)
    BY <1>1 DEF fromString, basicFromString, Basic
  <2>2. CASE Kind(Load(text)) = "scalar" \/ ~Has(Load(text), "name")
    BY <2>1, <2>2 DEF DefineFromString, Has, Ok, Throw
  <2>3. CASE Kind(Load(text)) # "scalar" /\ Has(Load(text), "name")
    BY <2>1, <2>3 DEF DefineFromString, Ok, Throw
  <2>. QED BY <2>2, <2>3
<1>2. CASE type \in Basic /\ type # <<"define">>
  BY <1>2 DEF fromString, basicFromString, Basic, Ok, Throw
<1>3. CASE type \notin Basic
  <2>1. \A casts : Collected(type, casts) = Throw \/ Collected(type, casts) = Ok(Collected(type, casts)[2])
    BY DEF Collected, Ok, Throw
  <2> DEFINE casts == [i \in DOMAIN Parts(type, Load(text)) |->
                        fromString(type[2], Parts(type, Load(text))[i])]
  <2>2. fromString(type, text) = Throw \/ fromString(type, text) = Collected(type, casts)
    BY <1>3, ContainerIs
  <2>. QED BY <2>1, <2>2
<1>. QED BY <1>1, <1>2, <1>3

\* A node that has been built is read part by part.
LEMMA BuiltParts ==
  ASSUME NEW type, NEW texts, texts = [i \in DOMAIN texts |-> texts[i]],
         type[1] # "map" => \E n \in Nat : DOMAIN texts = 1 .. n
  PROVE  LET node == Load(Emit(Built(type, texts))) IN
         /\ DOMAIN Parts(type, node) = DOMAIN texts
         /\ \A i \in DOMAIN texts :
              Parts(type, node)[i] = IF type[1] = "map" THEN Emit(Load(texts[i])) ELSE Emit(Scalar(texts[i]))
         /\ ~(type[1] = "map" /\ Kind(node) = "seq")
<1> DEFINE node == Built(type, texts)
<1>1. Kind(node) # "scalar"
  BY DEF Built, Kind, NullNode, Mapping, Sequence
<1>2. Load(Emit(node)) = node
  BY <1>1, LoadEmit
<1>3. ~(type[1] = "map" /\ Kind(node) = "seq")
  BY DEF Built, Kind, NullNode, Mapping, Sequence
<1>4. DOMAIN Items(type, node) = DOMAIN texts
  <2>1. CASE DOMAIN texts = {}
    <3>1. Items(type, node) = <<>>
      BY <2>1 DEF Items, Indexed, Built, Kind, NullNode
    <3>. QED BY <2>1, <3>1
  <2>2. CASE DOMAIN texts # {}
    BY <2>2 DEF Items, Indexed, Built, Kind, Mapping, Sequence
  <2>. QED BY <2>1, <2>2
<1>5. ASSUME NEW i \in DOMAIN texts
      PROVE  Items(type, node)[i] = IF type[1] = "map" THEN Load(texts[i]) ELSE Scalar(texts[i])
  BY DEF Items, Indexed, Built, Kind, Mapping, Sequence
<1>. HIDE DEF node
<1>6. /\ DOMAIN Parts(type, node) = DOMAIN texts
      /\ \A i \in DOMAIN texts :
           Parts(type, node)[i] = IF type[1] = "map" THEN Emit(Load(texts[i])) ELSE Emit(Scalar(texts[i]))
  BY <1>4, <1>5 DEF Parts
<1>. QED BY <1>2, <1>3, <1>6 DEF node

\* The text of a value that is no string is read and written as it is, as a node;
\* in quotes it stays a scalar.
LEMMA Texts ==
  ASSUME NEW type \in AllTypes, NEW v
  PROVE  LET text == toString(type, v) IN
         /\ type = <<"string">> => text = v
         /\ type = <<"int">> => text = Plain(v)
         /\ type # <<"string">> => Emit(Load(text)) = text
         /\ type \notin {<<"int">>, <<"string">>} =>
              Load(Emit(Scalar(text))) = Scalar(text) /\ ~IsPlain(Emit(Scalar(text)))
<1> DEFINE text == toString(type, v)
<1>1. CASE type \in {<<"int">>, <<"string">>}
  <2>1. text = IF type = <<"int">> THEN Plain(v) ELSE v
    BY <1>1 DEF toString, basicToString, Basic
  <2>. QED BY <1>1, <2>1 DEF Load, Emit, Scalar, Plain, IsPlain, Kind
<1>2. CASE type \notin {<<"int">>, <<"string">>}
  <2>1. PICK node : text = Block(node) /\ Kind(node) # "scalar"
    <3>1. CASE type = <<"define">>
      <4>1. text = DefineToString(v)
        BY <3>1 DEF toString, basicToString, Basic
      <4>2. PICK map : DefineToString(v) = Block(Mapping(map))
        BY DEF DefineToString
      <4>3. Kind(Mapping(map)) # "scalar"
        BY DEF Kind, Mapping
      <4>. QED BY <4>1, <4>2, <4>3
    <3>2. CASE type \notin Basic
      <4> DEFINE texts == [i \in DOMAIN Ordered(type, v) |-> toString(type[2], Ordered(type, v)[i])]
      <4>1. text = Emit(Built(type, texts))
        BY <3>2, ContainerIs
      <4>2. Kind(Built(type, texts)) # "scalar"
        BY DEF Built, Kind, NullNode, Mapping, Sequence
      <4>. QED BY <4>1, <4>2 DEF Emit
    <3>. QED BY <1>2, <3>1, <3>2 DEF Basic
  <2>. HIDE DEF text
  <2>2. Load(text) = node /\ Emit(node) = text /\ ~IsPlain(text)
    BY <2>1 DEF Load, Emit, Block, IsPlain
  <2>3. Emit(Scalar(text)) = Quoted(text) /\ Load(Quoted(text)) = Scalar(text) /\ ~IsPlain(Quoted(text))
    BY <2>1, <2>2 DEF Emit, Scalar, Kind, Quoted, Load, IsPlain, Inside, Block
  <2>. QED BY <1>2, <2>2, <2>3 DEF text
<1>. QED BY <1>1, <1>2

NoElements(type) == IF type[1] = "set" THEN {} ELSE <<>>

\* What is read of the scalar that holds the text of a value.
LEMMA Wrapped ==
  ASSUME NEW type \in AllTypes, NEW v, IsValue(type, v)
  PROVE  LET r == fromString(type, Emit(Scalar(toString(type, v)))) IN
         /\ type = <<"int">> => r = Ok(v)
         /\ type = <<"string">> => r = Ok(IF IsPlain(v) THEN v ELSE Quoted(v)) /\ IsText(v)
         /\ type = <<"define">> => r = Throw
         /\ type \notin Basic => r = Ok(NoElements(type)) /\ (InSequence(type, v) <=> v = NoElements(type))
         /\ r = Ok(v) <=> InSequence(type, v)
<1> DEFINE text == toString(type, v)
           written == Emit(Scalar(text))
           r == fromString(type, written)
<1>1. CASE type = <<"int">>
  <2>1. text = Plain(v) /\ v \in Integer
    BY <1>1, Texts DEF IsValue, basicIsValue, Basic
  <2>2. written = Plain(v)
    BY <2>1 DEF Emit, Scalar, Kind, IsPlain, Plain
  <2>3. r = Ok(v)
    BY <1>1, <2>1, <2>2 DEF fromString, basicFromString, Basic, IsPlain, Plain
  <2>4. InSequence(type, v)
    BY <1>1 DEF InSequence
  <2>. QED BY <1>1, <2>3, <2>4 DEF Basic
<1>2. CASE type = <<"string">>
  <2>1. text = v /\ IsText(v)
    BY <1>2, Texts DEF IsValue, basicIsValue, Basic
  <2>2. written = IF IsPlain(v) THEN v ELSE Quoted(v)
    BY <2>1 DEF Emit, Scalar, Kind
  <2>3. r = Ok(written)
    BY <1>2 DEF fromString, basicFromString, Basic
  <2>4. InSequence(type, v) <=> IsPlain(v)
    BY <1>2 DEF InSequence
  <2>5. r = Ok(v) <=> written = v
    BY <2>3 DEF Ok
  <2>6. written = v <=> IsPlain(v)
    BY <2>1, <2>2, TextForms
  <2>. QED BY <1>2, <2>1, <2>2, <2>3, <2>4, <2>5, <2>6 DEF Basic
<1>3. CASE type = <<"define">>
  <2>1. Load(written) = Scalar(text)
    BY <1>3, Texts
  <2>2. r = DefineFromString(written)
    BY <1>3 DEF fromString, basicFromString, Basic
  <2>3. Kind(Scalar(text)) = "scalar"
    BY DEF Kind, Scalar
  <2>4. r = Throw
    BY <2>1, <2>2, <2>3 DEF DefineFromString, Has
  <2>5. ~InSequence(type, v)
    BY <1>3 DEF InSequence
  <2>. QED BY <1>3, <2>4, <2>5 DEF Ok, Throw, Basic
<1>4. CASE type \notin Basic
  <2>1. Load(written) = Scalar(text)
    BY <1>4, Texts DEF Basic
  <2>2. Kind(Scalar(text)) = "scalar"
    BY DEF Kind, Scalar
  <2>3. Items(type, Scalar(text)) = <<>>
    BY <2>2 DEF Items, Indexed
  <2>. HIDE DEF written
  <2> DEFINE casts == [i \in DOMAIN Parts(type, Load(written)) |-> fromString(type[2], Parts(type, Load(written))[i])]
  <2>4. r = Collected(type, casts)
    BY <1>4, <2>1, <2>2, ContainerIs
  <2>5. DOMAIN casts = {} /\ casts = <<>>
    BY <2>1, <2>3 DEF Parts
  <2>. HIDE DEF casts
  <2>6. Collected(type, casts) = Ok(NoElements(type))
    BY <2>5 DEF Collected, SetOf, NoElements
  <2>7. InSequence(type, v) <=> v = NoElements(type)
    BY <1>4, TypeForms DEF InSequence, NoElements, Containers, Basic
  <2>8. r = Ok(v) <=> v = NoElements(type)
    BY <2>4, <2>6 DEF Ok
  <2>. QED BY <1>4, <2>4, <2>6, <2>7, <2>8 DEF written, Basic
<1>. QED BY <1>1, <1>2, <1>3, <1>4 DEF Basic

LEMMA ReadableIs ==
  ASSUME NEW type \in AllTypes \ Basic, NEW v
  PROVE  Readable(type, v) <=>
           /\ type[1] = "vector" => \A i \in DOMAIN v : InSequence(type[2], v[i])
           /\ type[1] = "set" => \A x \in v : InSequence(type[2], x)
           /\ type[1] = "map" =>
                \A key \in DOMAIN v :
                  IF type[2] = <<"string">> THEN ~(v[key][1] = 1 /\ v[key][2] = "plain")
                                           ELSE Readable(type[2], v[key])
<1>1. Readable(type, v) <=>
           /\ type[1] = "vector" => \A i \in DOMAIN v : InSequence(type[2], v[i])
           /\ type[1] = "set" => \A x \in v : InSequence(type[2], x)
           /\ type[1] = "map" =>
                \A key \in DOMAIN v :
                  IF type[2] = <<"string">> THEN ~(v[key][1] = 1 /\ v[key][2] = "plain")
                                           ELSE simpleReadable(type[2], v[key])
  BY DEF Readable, containerReadable
<1>2. \A x : Readable(type[2], x) <=> simpleReadable(type[2], x)
  BY TypeForms, LowerLevel
<1>. QED BY <1>1, <1>2

\* A set of texts, each of which is put in quotes unless it is plain, is the same
\* only if all are.
LEMMA QuotedSet ==
  ASSUME NEW S, \A x \in S : IsText(x),
         \A x \in S : \E y \in S : x = IF IsPlain(y) THEN y ELSE Quoted(y)
  PROVE  \A x \in S : IsPlain(x)
<1> DEFINE bad == {x \in S : ~IsPlain(x)}
           depths == {x[1] : x \in bad}
<1>1. SUFFICES ASSUME bad # {} PROVE FALSE
  OBVIOUS
<1>2. depths \subseteq Nat /\ depths # {}
  BY <1>1 DEF IsText
<1>3. PICK n \in depths : \A m \in depths : n <= m
  <2>. HIDE DEF depths
  <2>. QED BY <1>2, LeastNatural
<1>4. PICK x \in bad : x[1] = n
  BY <1>3
<1>5. PICK y \in S : x = IF IsPlain(y) THEN y ELSE Quoted(y)
  BY <1>4
<1>6. y \in bad /\ x[1] = y[1] + 1
  BY <1>4, <1>5 DEF Quoted
<1>7. y[1] \in Nat /\ x[1] <= y[1]
  BY <1>3, <1>4, <1>6 DEF IsText
<1>. QED BY <1>6, <1>7

LEMMA BasicBack ==
  ASSUME NEW type \in Basic, NEW v, IsValue(type, v)
  PROVE  ReadsBack(type, v) <=> Readable(type, v)
<1>1. Readable(type, v) <=> basicReadable(type, v)
  BY DEF Readable
<1>2. CASE type = <<"define">>
  <2>1. toString(type, v) = DefineToString(v) /\ \A t : fromString(type, t) = DefineFromString(t)
    BY <1>2 DEF toString, basicToString, fromString, basicFromString, Basic
  <2>2. IsDefine(v)
    BY <1>2 DEF IsValue, basicIsValue, Basic
  <2>. QED BY <1>1, <1>2, <2>1, <2>2, DefineBack DEF ReadsBack
<1>3. CASE type # <<"define">>
  <2>1. Readable(type, v)
    BY <1>1, <1>3 DEF basicReadable
  <2>2. ReadsBack(type, v)
    BY <1>3 DEF ReadsBack, toString, basicToString, fromString, basicFromString, Basic,
                IsValue, basicIsValue, Plain, IsPlain
  <2>. QED BY <2>1, <2>2
<1>. QED BY <1>2, <1>3

\* Each element is read in the order in which it is written.
LEMMA OrderedForms ==
  ASSUME NEW type \in AllTypes \ Basic, NEW v, IsValue(type, v)
  PROVE  LET order == Ordered(type, v) IN
         /\ order = [i \in DOMAIN order |-> order[i]]
         /\ type[1] # "map" => \E n \in Nat : DOMAIN order = 1 .. n
         /\ type[1] # "set" => order = v
         /\ type[1] = "set" => /\ \A i \in DOMAIN order : order[i] \in v
                               /\ \A x \in v : \E i \in DOMAIN order : order[i] = x
         /\ \A i \in DOMAIN order : IsValue(type[2], order[i])
<1>1. CASE type[1] = "set"
  <2>1. IsFiniteSet(v) /\ \A x \in v : IsValue(type[2], x)
    BY <1>1, ContainerIs
  <2>2. Ordered(type, v) = SetToSeq(v)
    BY <1>1 DEF Ordered
  <2>3. PICK order : order = SetToSeq(v)
    OBVIOUS
  <2>4. order \in Seq(v) /\ \A x \in v : \E i \in DOMAIN order : order[i] = x
    BY <2>1, <2>3, SequenceOfSet
  <2>5. Len(order) \in Nat /\ DOMAIN order = 1 .. Len(order)
        /\ order = [i \in DOMAIN order |-> order[i]] /\ \A i \in DOMAIN order : order[i] \in v
    BY <2>4
  <2>. QED BY <1>1, <2>1, <2>2, <2>3, <2>4, <2>5
<1>2. CASE type[1] = "vector"
  <2>1. v \in Seq(Range(v)) /\ \A i \in DOMAIN v : IsValue(type[2], v[i])
    BY <1>2, ContainerIs
  <2>2. Ordered(type, v) = v
    BY <1>2 DEF Ordered
  <2>3. Len(v) \in Nat /\ DOMAIN v = 1 .. Len(v) /\ v = [i \in DOMAIN v |-> v[i]]
    BY <2>1
  <2>. QED BY <1>2, <2>1, <2>2, <2>3
<1>3. CASE type[1] = "map"
  <2>1. v = [key \in DOMAIN v |-> v[key]] /\ \A i \in DOMAIN v : IsValue(type[2], v[i])
    BY <1>3, ContainerIs
  <2>2. Ordered(type, v) = v
    BY <1>3 DEF Ordered
  <2>. QED BY <1>3, <2>1, <2>2
<1>. QED BY <1>1, <1>2, <1>3, TypeForms DEF Containers

LEMMA ContainerBack ==
  ASSUME NEW type \in AllTypes \ Basic, NEW v, IsValue(type, v),
         \A x : IsValue(type[2], x) => (ReadsBack(type[2], x) <=> Readable(type[2], x))
  PROVE  ReadsBack(type, v) <=> Readable(type, v)
<1> DEFINE T == type[2]
           order == Ordered(type, v)
           texts == [i \in DOMAIN order |-> toString(T, order[i])]
           node == Load(toString(type, v))
           parts == Parts(type, node)
           casts == [i \in DOMAIN parts |-> fromString(T, parts[i])]
           values == [i \in DOMAIN casts |-> casts[i][2]]
<1>1. T \in AllTypes
  BY TypeForms
<1>2. /\ order = [i \in DOMAIN order |-> order[i]]
      /\ type[1] # "map" => \E n \in Nat : DOMAIN order = 1 .. n
      /\ type[1] # "set" => order = v
      /\ type[1] = "set" => /\ \A i \in DOMAIN order : order[i] \in v
                            /\ \A x \in v : \E i \in DOMAIN order : order[i] = x
      /\ \A i \in DOMAIN order : IsValue(T, order[i])
  BY OrderedForms
<1>. HIDE DEF order
<1>3. toString(type, v) = Emit(Built(type, texts))
  BY ContainerIs DEF order
<1>4. texts = [i \in DOMAIN texts |-> texts[i]] /\ DOMAIN texts = DOMAIN order
  OBVIOUS
<1>5. \A i \in DOMAIN order : texts[i] = toString(T, order[i])
  OBVIOUS
<1>. HIDE DEF texts
<1>6. /\ DOMAIN parts = DOMAIN order
      /\ \A i \in DOMAIN order :
           parts[i] = IF type[1] = "map" THEN Emit(Load(texts[i])) ELSE Emit(Scalar(texts[i]))
      /\ ~(type[1] = "map" /\ Kind(node) = "seq")
  BY <1>2, <1>3, <1>4, BuiltParts
<1>7. fromString(type, toString(type, v)) = Collected(type, casts)
  BY <1>6, ContainerIs
<1>. HIDE DEF node, parts
<1>8. DOMAIN casts = DOMAIN order /\ \A i \in DOMAIN order : casts[i] = fromString(T, parts[i])
  BY <1>6
<1>9. DOMAIN values = DOMAIN order /\ values = [i \in DOMAIN order |-> values[i]]
      /\ \A i \in DOMAIN order : values[i] = casts[i][2]
  BY <1>8
<1>. HIDE DEF casts
<1>10. \A i \in DOMAIN order : casts[i] = Throw \/ casts[i] = Ok(values[i])
  BY <1>1, <1>8, <1>9, Results
<1>11. Collected(type, casts) =
         IF \E i \in DOMAIN order : casts[i] = Throw THEN Throw
         ELSE Ok(IF type[1] = "set" THEN SetOf(T, values) ELSE values)
  BY <1>8 DEF Collected
<1>. HIDE DEF values
<1>12. CASE type[1] # "set"
  <2>1. ReadsBack(type, v) <=> \A i \in DOMAIN order : casts[i] = Ok(order[i])
    <3>1. ASSUME ReadsBack(type, v) PROVE \A i \in DOMAIN order : casts[i] = Ok(order[i])
      <4>1. Collected(type, casts) = Ok(v)
        BY <1>7, <3>1 DEF ReadsBack
      <4>2. (\A i \in DOMAIN order : casts[i] # Throw) /\ values = v
        BY <1>11, <1>12, <4>1 DEF Ok, Throw
      <4>. QED BY <1>2, <1>10, <1>12, <4>2
    <3>2. ASSUME \A i \in DOMAIN order : casts[i] = Ok(order[i]) PROVE ReadsBack(type, v)
      <4>1. \A i \in DOMAIN order : casts[i] # Throw /\ values[i] = order[i]
        BY <1>9, <3>2 DEF Ok, Throw
      <4>2. values = order
        BY <1>2, <1>9, <4>1
      <4>3. Collected(type, casts) = Ok(v)
        BY <1>2, <1>11, <1>12, <4>1, <4>2
      <4>. QED BY <1>7, <4>3 DEF ReadsBack
    <3>. QED BY <3>1, <3>2
  <2>2. CASE type[1] = "vector"
    <3>1. \A i \in DOMAIN order : casts[i] = Ok(order[i]) <=> InSequence(T, order[i])
      BY <1>1, <1>2, <1>5, <1>6, <1>8, <2>2, Wrapped
    <3>. QED BY <1>2, <1>12, <2>1, <2>2, <3>1, ReadableIs
  <2>3. CASE type[1] = "map"
    <3>1. ASSUME NEW i \in DOMAIN order
          PROVE  casts[i] = Ok(order[i]) <=>
                   IF T = <<"string">> THEN ~(order[i][1] = 1 /\ order[i][2] = "plain")
                                      ELSE Readable(T, order[i])
      <4>1. casts[i] = fromString(T, Emit(Load(toString(T, order[i]))))
        BY <1>5, <1>6, <1>8, <2>3
      <4>2. CASE T # <<"string">>
        BY <1>1, <1>2, <4>1, <4>2, Texts DEF ReadsBack
      <4>3. CASE T = <<"string">>
        <5>1. toString(T, order[i]) = order[i]
          BY <1>1, <4>3, Texts
        <5>2. casts[i] = Ok(Emit(Load(order[i])))
          BY <4>1, <4>3, <5>1 DEF fromString, basicFromString, Basic
        <5>3. IsText(order[i])
          BY <1>2, <4>3 DEF IsValue, basicIsValue, Basic
        <5>4. Emit(Load(order[i])) = order[i] <=> ~(order[i][1] = 1 /\ order[i][2] = "plain")
          BY <5>3 DEF IsText, Emit, Load, IsPlain, Inside, Quoted, Block, Scalar, Kind
        <5>. QED BY <4>3, <5>2, <5>4 DEF Ok
      <4>. QED BY <4>2, <4>3
    <3>. QED BY <1>2, <1>12, <2>1, <2>3, <3>1, ReadableIs
  <2>. QED BY <1>12, <2>2, <2>3, TypeForms DEF Containers
<1>13. CASE type[1] = "set"
  <2>1. Readable(type, v) <=> \A x \in v : InSequence(T, x)
    BY <1>13, ReadableIs
  <2>2. ASSUME NEW i \in DOMAIN order
        PROVE  /\ T = <<"int">> => casts[i] = Ok(order[i])
               /\ T = <<"string">> => /\ casts[i] = Ok(IF IsPlain(order[i]) THEN order[i] ELSE Quoted(order[i]))
                                      /\ IsText(order[i])
               /\ T = <<"define">> => casts[i] = Throw
               /\ T \notin Basic => casts[i] = Ok(NoElements(T)) /\ (InSequence(T, order[i]) <=> order[i] = NoElements(T))
               /\ casts[i] = Ok(order[i]) <=> InSequence(T, order[i])
    <3>1. casts[i] = fromString(T, Emit(Scalar(toString(T, order[i]))))
      BY <1>5, <1>6, <1>8, <1>13
    <3>. QED BY <1>1, <1>2, <3>1, Wrapped
  <2>3. CASE T = <<"define">>
    <3>1. CASE v = {}
      <4>1. DOMAIN order = {}
        BY <1>2, <1>13, <3>1
      <4>2. SetOf(T, values) = {}
        BY <1>9, <4>1 DEF SetOf
      <4>3. Collected(type, casts) = Ok(v)
        BY <1>11, <1>13, <3>1, <4>1, <4>2
      <4>. QED BY <1>7, <2>1, <3>1, <4>3 DEF ReadsBack
    <3>2. CASE v # {}
      <4>1. PICK x \in v : TRUE
        BY <3>2
      <4>2. PICK i \in DOMAIN order : order[i] = x
        BY <1>2, <1>13
      <4>3. Collected(type, casts) = Throw
        BY <1>11, <2>2, <2>3, <4>2
      <4>4. ~ReadsBack(type, v)
        BY <1>7, <4>3 DEF ReadsBack, Ok, Throw
      <4>5. ~InSequence(T, x)
        BY <2>3 DEF InSequence
      <4>. QED BY <2>1, <4>1, <4>4, <4>5
    <3>. QED BY <3>1, <3>2
  <2>4. CASE T # <<"define">>
    <3>1. \A i \in DOMAIN order : casts[i] # Throw /\ casts[i] = Ok(values[i])
      BY <1>1, <1>10, <2>2, <2>4 DEF Basic, Ok, Throw
    <3>2. SetOf(T, values) = {values[i] : i \in DOMAIN order}
      BY <1>9, <2>4 DEF SetOf
    <3>3. Collected(type, casts) = Ok({values[i] : i \in DOMAIN order})
      BY <1>11, <1>13, <3>1, <3>2
    <3>4. ReadsBack(type, v) <=> {values[i] : i \in DOMAIN order} = v
      BY <1>7, <3>3 DEF ReadsBack, Ok
    <3>5. ASSUME \A x \in v : InSequence(T, x) PROVE {values[i] : i \in DOMAIN order} = v
      <4>1. \A i \in DOMAIN order : values[i] = order[i]
        BY <1>2, <1>13, <2>2, <3>1, <3>5 DEF Ok
      <4>. QED BY <1>2, <1>13, <4>1
    <3>6. ASSUME {values[i] : i \in DOMAIN order} = v PROVE \A x \in v : InSequence(T, x)
      <4>1. /\ \A i \in DOMAIN order : values[i] \in v
            /\ \A x \in v : \E i \in DOMAIN order : x = values[i]
        BY <3>6
      <4>2. CASE T = <<"int">>
        BY <4>2 DEF InSequence
      <4>3. CASE T = <<"string">>
        <5>1. \A i \in DOMAIN order : values[i] = (IF IsPlain(order[i]) THEN order[i] ELSE Quoted(order[i])) /\ IsText(order[i])
          BY <2>2, <3>1, <4>3 DEF Ok
        <5>2. \A x \in v : IsText(x)
          BY <1>2, <1>13, <5>1
        <5>3. \A x \in v : \E y \in v : x = IF IsPlain(y) THEN y ELSE Quoted(y)
          BY <1>2, <1>13, <4>1, <5>1
        <5>4. \A x \in v : IsPlain(x)
          BY <5>2, <5>3, QuotedSet
        <5>. QED BY <4>3, <5>4 DEF InSequence
      <4>4. CASE T \notin Basic
        <5>1. \A i \in DOMAIN order : values[i] = NoElements(T)
          BY <2>2, <3>1, <4>4 DEF Ok
        <5>2. \A x \in v : x = NoElements(T)
          BY <4>1, <5>1
        <5>. QED BY <1>2, <1>13, <2>2, <4>4, <5>2
      <4>. QED BY <2>4, <4>2, <4>3, <4>4 DEF Basic
    <3>. QED BY <2>1, <3>4, <3>5, <3>6
  <2>. QED BY <2>3, <2>4
<1>. QED BY <1>12, <1>13

\* A value is read back exactly when it is Readable.
LEMMA Back ==
  ASSUME NEW type \in AllTypes, NEW v, IsValue(type, v)
  PROVE  ReadsBack(type, v) <=> Readable(type, v)
<1>1. ASSUME NEW T \in Simple, NEW x, IsValue(T, x) PROVE ReadsBack(T, x) <=> Readable(T, x)
  BY <1>1, BasicBack, ContainerBack, TypeForms
<1>. QED BY <1>1, BasicBack, ContainerBack, TypeForms

-----------------------------------------------------------------------------
(* The listing. *)

LEMMA EntryOf ==
  ASSUME NEW entry \in Entries
  PROVE  /\ entry[1] \in Seq(Words) \ {<<>>} /\ entry[2] \in Nodes
         /\ entry = <<entry[1], entry[2]>>
         /\ Depth[entry[2]] \in Nat
<1>1. PICK names : names = Seq(Words) \ {<<>>}
  OBVIOUS
<1>2. entry \in names \X Nodes
  BY <1>1 DEF Entries
<1>3. entry[1] \in names /\ entry[2] \in Nodes /\ entry = <<entry[1], entry[2]>>
  BY <1>2
<1>4. Depth[entry[2]] \in Nat
  BY <1>3, FilesAssumption
<1>. QED BY <1>1, <1>3, <1>4

LEMMA MembersInside ==
  ASSUME NEW map \in Maps, NEW key \in DOMAIN map[2]
  PROVE  key \in Keys /\ map[2][key] \in Nodes
<1>1. map \in Nodes /\ Kind(map) = "map"
  BY DEF Maps
<1>. QED BY <1>1, NodeForms DEF IsNode, Keys

LEMMA EmptyName == Empty \in Seq(Words) \ {<<>>} /\ ~Bad(Empty)
<1>1. PICK name : name = Empty
  OBVIOUS
<1>2. PICK word \in Words : word = ""
  BY DEF Words
<1>3. name = <<word>>
  BY <1>1, <1>2 DEF Empty
<1>4. name \in Seq(Words) /\ name # <<>> /\ DOMAIN name = {1} /\ name[1] = word
  BY <1>3
<1>5. ~Bad(name)
  BY <1>2, <1>4, FilesAssumption DEF Bad
<1>. QED BY <1>1, <1>4, <1>5

\* A name with a key after it has all the words of the name, if that is not empty.
LEMMA Joined ==
  ASSUME NEW name \in Seq(Words) \ {<<>>}, NEW key \in Keys
  PROVE  Join(name, key) \in Seq(Words) \ {<<>>} /\ (Bad(name) => Bad(Join(name, key)))
<1>1. PICK words : words = WordsOf[key]
  OBVIOUS
<1>2. words \in Seq(Range(words)) /\ words # <<>> /\ Range(words) \subseteq Words
  BY <1>1, FilesAssumption DEF Words
<1>3. words \in Seq(Words) /\ Len(words) \in Nat \ {0}
  BY <1>2
<1>4. CASE name = Empty
  BY <1>1, <1>2, <1>3, <1>4, EmptyName DEF Join
<1>5. CASE name # Empty
  <2>1. PICK join : join = name \o words
    OBVIOUS
  <2>2. /\ join \in Seq(Words) /\ Len(join) = Len(name) + Len(words) /\ Len(name) \in Nat
        /\ \A i \in 1 .. Len(name) : join[i] = name[i]
    BY <1>3, <2>1
  <2>3. DOMAIN join = 1 .. Len(join) /\ DOMAIN name = 1 .. Len(name) /\ Len(join) # 0
    BY <1>3, <2>2
  <2>4. Bad(name) => Bad(join)
    BY <1>3, <2>2, <2>3 DEF Bad
  <2>. QED BY <1>1, <1>5, <2>1, <2>2, <2>3, <2>4 DEF Join
<1>. QED BY <1>4, <1>5

\* The members of a map are what is one level below it.  They are less deep, and
\* invalid if it is.
LEMMA MembersAre ==
  ASSUME NEW entry \in Entries
  PROVE  /\ Members(entry) \in Seq(Entries)
         /\ Range(Members(entry)) = Below(entry)
         /\ \A e \in Range(Members(entry)) : /\ Depth[e[2]] < Depth[entry[2]]
                                             /\ Bad(entry[1]) => Bad(e[1])
<1> DEFINE prefix == entry[1]
           node == entry[2]
           Member(key) == <<Join(prefix, key), node[2][key]>>
<1>1. CASE Kind(node) # "map"
  <2>1. Members(entry) = <<>> /\ Below(entry) = {}
    BY <1>1 DEF Members, Below
  <2>. QED BY <1>1, <2>1 DEF Range
<1>2. CASE Kind(node) = "map"
  <2>1. node \in Maps /\ prefix \in Seq(Words) \ {<<>>}
    BY <1>2, EntryOf DEF Maps
  <2>2. IsFiniteSet(DOMAIN node[2])
    BY <1>2, <2>1, NodeForms DEF Maps, IsNode
  <2>3. \A key \in DOMAIN node[2] : /\ key \in Keys /\ node[2][key] \in Nodes
                                    /\ Depth[node[2][key]] < Depth[node]
    BY <2>1, FilesAssumption, MembersInside
  <2>4. PICK keys : keys = SetToSeq(DOMAIN node[2])
    OBVIOUS
  <2>5. keys \in Seq(DOMAIN node[2]) /\ \A key \in DOMAIN node[2] : \E i \in DOMAIN keys : keys[i] = key
    BY <2>2, <2>4, SequenceOfSet
  <2>6. DOMAIN keys = 1 .. Len(keys) /\ Len(keys) \in Nat /\ \A i \in DOMAIN keys : keys[i] \in DOMAIN node[2]
    BY <2>5
  <2>7. Members(entry) = [i \in DOMAIN keys |-> Member(keys[i])]
    BY <1>2, <2>4 DEF Members, MembersOf
  <2>8. \A key \in DOMAIN node[2] :
          /\ Member(key) \in Entries
          /\ Depth[Member(key)[2]] < Depth[node]
          /\ Bad(prefix) => Bad(Member(key)[1])
    <3> TAKE key \in DOMAIN node[2]
    <3>1. PICK join : join = Join(prefix, key)
      OBVIOUS
    <3>2. join \in Seq(Words) \ {<<>>} /\ node[2][key] \in Nodes /\ (Bad(prefix) => Bad(join))
      BY <2>1, <2>3, <3>1, Joined
    <3>. QED BY <2>3, <3>1, <3>2 DEF Entries
  <2>9. Below(entry) = {Member(key) : key \in DOMAIN node[2]}
    BY <1>2 DEF Below
  <2>. HIDE DEF Member
  <2>10. Members(entry) \in Seq(Entries)
    BY <2>6, <2>7, <2>8
  <2>11. Range(Members(entry)) = Below(entry)
    <3>1. \A e : e \in Range(Members(entry)) <=> \E i \in DOMAIN keys : e = Member(keys[i])
      BY <2>7 DEF Range
    <3>. QED BY <2>5, <2>6, <2>9, <3>1
  <2>. QED BY <2>8, <2>9, <2>10, <2>11
<1>. QED BY <1>1, <1>2

\* The entries of maps less than n deep.
Shallow(n) == {entry \in Entries : Depth[entry[2]] < n}

\* What the definition of ListAllMember makes of an entry, when f lists its members.
Lists(f, entry) ==
  IF Bad(entry[1]) THEN <<>>
  ELSE <<entry>> \o FlattenSeq([i \in DOMAIN Members(entry) |-> f[Members(entry)[i]]])

ListsShallow(f, n) == f = [entry \in Shallow(n) |-> Lists(f, entry)]

LEMMA ListsDepend ==
  ASSUME NEW entry \in Entries, NEW f, NEW g,
         \A e \in Range(Members(entry)) : f[e] = g[e]
  PROVE  Lists(f, entry) = Lists(g, entry)
<1>1. \A i \in DOMAIN Members(entry) : f[Members(entry)[i]] = g[Members(entry)[i]]
  BY DEF Range
<1>2. [i \in DOMAIN Members(entry) |-> f[Members(entry)[i]]] = [i \in DOMAIN Members(entry) |-> g[Members(entry)[i]]]
  BY <1>1
<1>. QED BY <1>2 DEF Lists

LEMMA ListsUnique ==
  ASSUME NEW f, NEW g, NEW n \in Nat, NEW m \in Nat, ListsShallow(f, n), ListsShallow(g, m),
         NEW entry \in Shallow(n) \cap Shallow(m)
  PROVE  f[entry] = g[entry]
<1> DEFINE Differ == {d \in Nat : \E e \in Shallow(n) \cap Shallow(m) : Depth[e[2]] = d /\ f[e] # g[e]}
<1>1. Differ = {}
  <2> SUFFICES ASSUME Differ # {} PROVE FALSE
    OBVIOUS
  <2>1. PICK d \in Differ : \A k \in Differ : d <= k
    <3>1. Differ \subseteq Nat
      OBVIOUS
    <3>. HIDE DEF Differ
    <3>. QED BY <3>1, LeastNatural
  <2>2. PICK e \in Shallow(n) \cap Shallow(m) : d \in Nat /\ Depth[e[2]] = d /\ f[e] # g[e]
    BY <2>1
  <2>3. e \in Entries /\ d < n /\ d < m
    BY <2>2 DEF Shallow
  <2>4. ASSUME NEW u \in Range(Members(e)) PROVE f[u] = g[u]
    <3>1. u \in Entries /\ Depth[u[2]] < d
      <4>1. Members(e) \in Seq(Entries)
        BY <2>3, MembersAre
      <4>2. u \in Entries
        BY <4>1 DEF Range
      <4>. QED BY <2>2, <2>3, <4>2, MembersAre
    <3>2. Depth[u[2]] \in Nat
      BY <3>1, EntryOf
    <3>3. u \in Shallow(n) \cap Shallow(m) /\ ~(d <= Depth[u[2]])
      BY <2>2, <2>3, <3>1, <3>2 DEF Shallow
    <3>. QED BY <2>1, <3>2, <3>3
  <2>5. Lists(f, e) = Lists(g, e)
    BY <2>3, <2>4, ListsDepend
  <2>6. f[e] = Lists(f, e) /\ g[e] = Lists(g, e)
    BY <2>2 DEF ListsShallow
  <2>. QED BY <2>2, <2>5, <2>6
<1>2. entry \in Entries /\ Depth[entry[2]] \in Nat
  BY EntryOf DEF Shallow
<1>. QED BY <1>1, <1>2

LEMMA ListsExist ==
  ASSUME NEW n \in Nat
  PROVE  \E f : ListsShallow(f, n)
<1> DEFINE Without == {k \in Nat : ~\E f : ListsShallow(f, k)}
<1>1. Without = {}
  <2> SUFFICES ASSUME Without # {} PROVE FALSE
    OBVIOUS
  <2>1. PICK k \in Without : \A m \in Without : k <= m
    <3>1. Without \subseteq Nat
      OBVIOUS
    <3>. HIDE DEF Without
    <3>. QED BY <3>1, LeastNatural
  <2>2. k \in Nat /\ ~\E f : ListsShallow(f, k)
    BY <2>1
  <2>3. k # 0
    <3>1. Shallow(0) = {}
      BY EntryOf DEF Shallow
    <3>2. PICK f : f = [entry \in Shallow(0) |-> <<>>]
      OBVIOUS
    <3>3. f = [entry \in Shallow(0) |-> Lists(f, entry)]
      BY <3>1, <3>2
    <3>. QED BY <2>2, <3>3 DEF ListsShallow
  <2>4. k - 1 \in Nat /\ ~(k <= k - 1)
    BY <2>2, <2>3
  <2>5. PICK g : ListsShallow(g, k - 1)
    BY <2>1, <2>4
  <2>6. PICK f : f = [entry \in Shallow(k) |-> Lists(g, entry)]
    OBVIOUS
  <2>7. ASSUME NEW entry \in Shallow(k) PROVE Lists(g, entry) = Lists(f, entry)
    <3>1. entry \in Entries /\ Depth[entry[2]] \in Nat /\ Depth[entry[2]] < k
      BY EntryOf DEF Shallow
    <3>2. ASSUME NEW u \in Range(Members(entry)) PROVE g[u] = f[u]
      <4>1. u \in Entries
        BY <3>1, MembersAre DEF Range
      <4>2. Depth[u[2]] \in Nat /\ Depth[u[2]] < Depth[entry[2]]
        BY <3>1, <4>1, MembersAre, EntryOf
      <4>3. u \in Shallow(k - 1) /\ u \in Shallow(k)
        BY <2>2, <3>1, <4>1, <4>2 DEF Shallow
      <4>4. g[u] = Lists(g, u)
        BY <2>5, <4>3 DEF ListsShallow
      <4>. QED BY <2>6, <4>3, <4>4
    <3>. QED BY <3>1, <3>2, ListsDepend
  <2>8. f = [entry \in Shallow(k) |-> Lists(f, entry)]
    BY <2>6, <2>7
  <2>. QED BY <2>2, <2>8 DEF ListsShallow
<1>. QED BY <1>1

\* So the recursive definition of ListAllMember defines it, for files of any depth.
LEMMA ListAllMemberIs ==
  ASSUME NEW entry \in Entries
  PROVE  ListAllMember[entry] = Lists(ListAllMember, entry)
<1> DEFINE Piece(n) == CHOOSE g : ListsShallow(g, n)
<1>1. \A n \in Nat : ListsShallow(Piece(n), n)
  BY ListsExist
<1> HIDE DEF Piece
<1>2. PICK f : f = [e \in Entries |-> Piece(Depth[e[2]] + 1)[e]]
  OBVIOUS
<1>3. ASSUME NEW e \in Entries PROVE f[e] = Lists(f, e)
  <2>1. PICK d : d = Depth[e[2]]
    OBVIOUS
  <2>2. d \in Nat /\ d + 1 \in Nat /\ e \in Shallow(d + 1)
    BY <2>1, EntryOf DEF Shallow
  <2>3. PICK g : g = Piece(d + 1)
    OBVIOUS
  <2>4. ListsShallow(g, d + 1) /\ f[e] = g[e]
    BY <1>1, <1>2, <2>1, <2>2, <2>3
  <2>5. g[e] = Lists(g, e)
    BY <2>2, <2>4 DEF ListsShallow
  <2>6. ASSUME NEW u \in Range(Members(e)) PROVE g[u] = f[u]
    <3>1. u \in Entries
      BY MembersAre DEF Range
    <3>2. PICK c : c = Depth[u[2]]
      OBVIOUS
    <3>3. c \in Nat /\ c + 1 \in Nat /\ c < d /\ u \in Shallow(c + 1) /\ u \in Shallow(d + 1)
      BY <2>1, <2>2, <3>1, <3>2, MembersAre, EntryOf DEF Shallow
    <3>4. PICK h : h = Piece(c + 1)
      OBVIOUS
    <3>5. ListsShallow(h, c + 1) /\ f[u] = h[u]
      BY <1>1, <1>2, <3>1, <3>2, <3>3, <3>4
    <3>. QED BY <2>2, <2>4, <3>3, <3>5, ListsUnique
  <2>7. Lists(g, e) = Lists(f, e)
    BY <2>6, ListsDepend
  <2>. QED BY <2>4, <2>5, <2>7
<1>4. f = [e \in Entries |-> Lists(f, e)]
  BY <1>2, <1>3
<1>5. ListAllMember = CHOOSE g : g = [e \in Entries |-> Lists(g, e)]
  BY DEF ListAllMember, Lists
<1>6. ListAllMember = [e \in Entries |-> Lists(ListAllMember, e)]
  BY <1>4, <1>5
<1>. QED BY <1>6

\* An entry lists itself and what its members list, unless its name is invalid.
LEMMA Listed ==
  ASSUME NEW entry \in Entries
  PROVE  /\ ListAllMember[entry] \in Seq(Entries)
         /\ \A e : e \in Range(ListAllMember[entry]) <=>
              /\ ~Bad(entry[1])
              /\ e = entry \/ \E u \in Range(Members(entry)) : e \in Range(ListAllMember[u])
<1> DEFINE Holds(n) == /\ ListAllMember[n] \in Seq(Entries)
                       /\ \A e : e \in Range(ListAllMember[n]) <=>
                            /\ ~Bad(n[1])
                            /\ e = n \/ \E u \in Range(Members(n)) : e \in Range(ListAllMember[u])
           Fails == {d \in Nat : \E n \in Entries : Depth[n[2]] = d /\ ~Holds(n)}
<1>1. Fails = {}
  <2> SUFFICES ASSUME Fails # {} PROVE FALSE
    OBVIOUS
  <2>1. PICK d \in Fails : \A k \in Fails : d <= k
    <3>1. Fails \subseteq Nat
      OBVIOUS
    <3>. HIDE DEF Fails
    <3>. QED BY <3>1, LeastNatural
  <2>2. PICK n \in Entries : d \in Nat /\ Depth[n[2]] = d /\ ~Holds(n)
    BY <2>1
  <2>3. PICK members : members = Members(n)
    OBVIOUS
  <2>4. PICK ss : ss = [i \in DOMAIN members |-> ListAllMember[members[i]]]
    OBVIOUS
  <2>5. members \in Seq(Entries) /\ DOMAIN members = 1 .. Len(members) /\ Len(members) \in Nat
    BY <2>3, MembersAre
  <2>6. ASSUME NEW i \in DOMAIN members PROVE ListAllMember[members[i]] \in Seq(Entries)
    <3>1. members[i] \in Entries /\ members[i] \in Range(members)
      BY <2>5 DEF Range
    <3>2. Depth[members[i][2]] \in Nat /\ Depth[members[i][2]] < d
      BY <2>2, <2>3, <3>1, MembersAre, EntryOf
    <3>3. ~(d <= Depth[members[i][2]])
      BY <2>2, <3>2
    <3>. QED BY <2>1, <3>1, <3>2, <3>3
  <2>7. ss \in Seq(Seq(Entries)) /\ DOMAIN ss = DOMAIN members
    BY <2>4, <2>5, <2>6
  <2>8. PICK below : below = FlattenSeq(ss)
    OBVIOUS
  <2>9. /\ below \in Seq(Entries)
        /\ \A e : e \in Range(below) <=> \E k \in DOMAIN ss : e \in Range(ss[k])
    BY <2>7, <2>8, FlattenHas
  <2>10. ListAllMember[n] = IF Bad(n[1]) THEN <<>> ELSE <<n>> \o below
    BY <2>3, <2>4, <2>8, ListAllMemberIs DEF Lists
  <2>11. <<n>> \in Seq(Entries) /\ \A e : e \in Range(<<n>>) <=> e = n
    BY DEF Range
  <2>12. <<n>> \o below \in Seq(Entries) /\ Range(<<n>> \o below) = Range(<<n>>) \cup Range(below)
    <3>1. PICK one : one = <<n>>
      OBVIOUS
    <3>2. one \in Seq(Entries)
      BY <2>11, <3>1
    <3>3. one \o below \in Seq(Entries) /\ Range(one \o below) = Range(one) \cup Range(below)
      BY <2>9, <3>2, ConcatenationHas
    <3>. QED BY <3>1, <3>3
  <2>13. \A e : (\E k \in DOMAIN ss : e \in Range(ss[k])) <=>
                \E u \in Range(members) : e \in Range(ListAllMember[u])
    BY <2>4, <2>7 DEF Range
  <2>14. CASE Bad(n[1])
    <3>1. ListAllMember[n] = <<>>
      BY <2>10, <2>14
    <3>. QED BY <2>2, <2>14, <3>1 DEF Range
  <2>15. CASE ~Bad(n[1])
    <3>1. ListAllMember[n] = <<n>> \o below
      BY <2>10, <2>15
    <3>. QED BY <2>2, <2>3, <2>9, <2>11, <2>12, <2>13, <2>15, <3>1
  <2>. QED BY <2>14, <2>15
<1>2. Depth[entry[2]] \in Nat
  BY EntryOf
<1>. QED BY <1>1, <1>2

\* What is listed brings its members with it.
LEMMA ListedMember ==
  ASSUME NEW entry \in Entries, NEW e \in Range(ListAllMember[entry]),
         NEW u \in Range(Members(e)), ~Bad(u[1])
  PROVE  u \in Range(ListAllMember[entry])
<1> DEFINE Fails == {d \in Nat : \E n \in Entries : Depth[n[2]] = d
                                    /\ e \in Range(ListAllMember[n]) /\ u \notin Range(ListAllMember[n])}
<1>1. Fails = {}
  <2> SUFFICES ASSUME Fails # {} PROVE FALSE
    OBVIOUS
  <2>1. PICK d \in Fails : \A k \in Fails : d <= k
    <3>1. Fails \subseteq Nat
      OBVIOUS
    <3>. HIDE DEF Fails
    <3>. QED BY <3>1, LeastNatural
  <2>2. PICK n \in Entries : /\ d \in Nat /\ Depth[n[2]] = d
                             /\ e \in Range(ListAllMember[n]) /\ u \notin Range(ListAllMember[n])
    BY <2>1
  <2>3. ~Bad(n[1]) /\ (e = n \/ \E v \in Range(Members(n)) : e \in Range(ListAllMember[v]))
    BY <2>2, Listed
  <2>4. CASE e = n
    <3>1. u \in Entries
      BY <2>4, MembersAre DEF Range
    <3>2. u \in Range(ListAllMember[u])
      BY <3>1, Listed
    <3>. QED BY <2>2, <2>3, <2>4, <3>2, Listed
  <2>5. CASE \E v \in Range(Members(n)) : e \in Range(ListAllMember[v])
    <3>1. PICK v \in Range(Members(n)) : e \in Range(ListAllMember[v])
      BY <2>5
    <3>2. v \in Entries
      BY MembersAre DEF Range
    <3>3. Depth[v[2]] \in Nat /\ Depth[v[2]] < d
      BY <2>2, <3>2, MembersAre, EntryOf
    <3>4. ~(d <= Depth[v[2]])
      BY <2>2, <3>3
    <3>5. u \in Range(ListAllMember[v])
      BY <2>1, <3>1, <3>2, <3>3, <3>4
    <3>. QED BY <2>2, <2>3, <3>5, Listed
  <2>. QED BY <2>3, <2>4, <2>5
<1>2. Depth[entry[2]] \in Nat
  BY EntryOf
<1>. QED BY <1>1, <1>2

LEMMA RootEntry ==
  ASSUME NEW root \in Documents
  PROVE  /\ <<Empty, root>> \in Entries /\ <<Empty, root>>[1] = Empty /\ <<Empty, root>>[2] = root
         /\ root \in Nodes
<1>1. root \in Nodes
  BY FilesAssumption
<1>2. PICK name : name = Empty
  OBVIOUS
<1>3. <<name, root>> \in Entries /\ <<name, root>>[1] = name /\ <<name, root>>[2] = root
  BY <1>1, <1>2, EmptyName DEF Entries
<1>. QED BY <1>1, <1>2, <1>3

\* What the definition of Level makes of n, when f gives the level above.
Deeper(f, n) ==
  [root \in Documents |->
     IF n = 0 THEN {<<Empty, root>>} ELSE UNION {Below(entry) : entry \in f[n - 1][root]}]

LevelsTo(f, n) == f = [k \in 0 .. n |-> Deeper(f, k)]

LEMMA LevelsAgree ==
  ASSUME NEW n \in Nat, NEW m \in Nat, NEW f, NEW g, LevelsTo(f, n), LevelsTo(g, m),
         NEW k \in Nat, k <= n, k <= m
  PROVE  f[k] = g[k]
<1> DEFINE Differ == {i \in Nat : i <= n /\ i <= m /\ f[i] # g[i]}
<1>1. Differ = {}
  <2> SUFFICES ASSUME Differ # {} PROVE FALSE
    OBVIOUS
  <2>1. PICK i \in Differ : \A j \in Differ : i <= j
    <3>1. Differ \subseteq Nat
      OBVIOUS
    <3>. HIDE DEF Differ
    <3>. QED BY <3>1, LeastNatural
  <2>2. i \in Nat /\ i <= n /\ i <= m /\ f[i] # g[i] /\ i \in 0 .. n /\ i \in 0 .. m
    BY <2>1
  <2>3. f[i] = Deeper(f, i) /\ g[i] = Deeper(g, i)
    BY <2>2 DEF LevelsTo
  <2>4. i # 0 => f[i - 1] = g[i - 1]
    BY <2>1, <2>2
  <2>5. Deeper(f, i) = Deeper(g, i)
    BY <2>4 DEF Deeper
  <2>. QED BY <2>2, <2>3, <2>5
<1>. QED BY <1>1

LEMMA LevelsExist ==
  ASSUME NEW n \in Nat
  PROVE  \E f : LevelsTo(f, n)
<1> DEFINE Without == {k \in Nat : ~\E f : LevelsTo(f, k)}
<1>1. Without = {}
  <2> SUFFICES ASSUME Without # {} PROVE FALSE
    OBVIOUS
  <2>1. PICK k \in Without : \A m \in Without : k <= m
    <3>1. Without \subseteq Nat
      OBVIOUS
    <3>. HIDE DEF Without
    <3>. QED BY <3>1, LeastNatural
  <2>2. k \in Nat /\ ~\E f : LevelsTo(f, k)
    BY <2>1
  <2>3. \E g : k # 0 => LevelsTo(g, k - 1)
    <3>1. CASE k = 0
      BY <3>1
    <3>2. CASE k # 0
      <4>1. k - 1 \in Nat /\ ~(k <= k - 1)
        BY <2>2, <3>2
      <4>. QED BY <2>1, <4>1
    <3>. QED BY <3>1, <3>2
  <2>4. PICK g : k # 0 => LevelsTo(g, k - 1)
    BY <2>3
  <2>5. PICK f : f = [i \in 0 .. k |-> Deeper(g, i)]
    OBVIOUS
  <2>6. ASSUME NEW i \in 0 .. k PROVE Deeper(g, i) = Deeper(f, i)
    <3>1. ASSUME i # 0 PROVE g[i - 1] = f[i - 1]
      <4>1. k # 0 /\ i - 1 \in 0 .. k - 1 /\ i - 1 \in 0 .. k
        BY <2>2, <3>1
      <4>2. g[i - 1] = Deeper(g, i - 1)
        BY <2>4, <4>1 DEF LevelsTo
      <4>. QED BY <2>5, <4>1, <4>2
    <3>. QED BY <3>1 DEF Deeper
  <2>7. LevelsTo(f, k)
    BY <2>5, <2>6 DEF LevelsTo
  <2>. QED BY <2>2, <2>7
<1>. QED BY <1>1

\* So the recursive definition of Level defines it.
LEMMA LevelIs ==
  ASSUME NEW root \in Documents
  PROVE  /\ Level[0][root] = {<<Empty, root>>}
         /\ \A n \in Nat : Level[n + 1][root] = UNION {Below(e) : e \in Level[n][root]}
<1> DEFINE Piece(n) == CHOOSE g : LevelsTo(g, n)
<1>1. \A n \in Nat : LevelsTo(Piece(n), n)
  BY LevelsExist
<1> HIDE DEF Piece
<1>2. PICK f : f = [n \in Nat |-> Piece(n)[n]]
  OBVIOUS
<1>3. ASSUME NEW n \in Nat PROVE f[n] = Deeper(f, n)
  <2>1. PICK g : g = Piece(n)
    OBVIOUS
  <2>2. LevelsTo(g, n) /\ n \in 0 .. n /\ f[n] = g[n]
    BY <1>1, <1>2, <2>1
  <2>3. g[n] = Deeper(g, n)
    BY <2>2 DEF LevelsTo
  <2>4. ASSUME n # 0 PROVE g[n - 1] = f[n - 1]
    <3>1. PICK m : m = n - 1
      OBVIOUS
    <3>2. m \in Nat /\ m <= n /\ m <= m
      BY <2>4, <3>1
    <3>3. PICK h : h = Piece(m)
      OBVIOUS
    <3>4. LevelsTo(h, m) /\ f[m] = h[m]
      BY <1>1, <1>2, <3>2, <3>3
    <3>5. g[m] = h[m]
      BY <2>2, <3>2, <3>4, LevelsAgree
    <3>. QED BY <3>1, <3>4, <3>5
  <2>5. Deeper(g, n) = Deeper(f, n)
    BY <2>4 DEF Deeper
  <2>. QED BY <2>2, <2>3, <2>5
<1>4. f = [n \in Nat |-> Deeper(f, n)]
  BY <1>2, <1>3
<1>5. Level = CHOOSE g : g = [n \in Nat |-> Deeper(g, n)]
  BY DEF Level, Deeper
<1>6. Level = [n \in Nat |-> Deeper(Level, n)]
  BY <1>4, <1>5
<1>7. Level[0][root] = {<<Empty, root>>}
  BY <1>6 DEF Deeper
<1>8. ASSUME NEW n \in Nat PROVE Level[n + 1][root] = UNION {Below(e) : e \in Level[n][root]}
  <2>1. n + 1 \in Nat /\ n + 1 # 0 /\ (n + 1) - 1 = n
    OBVIOUS
  <2>2. Level[n + 1] = Deeper(Level, n + 1)
    BY <1>6, <2>1
  <2>. QED BY <2>1, <2>2 DEF Deeper
<1>. QED BY <1>7, <1>8

\* There is nothing more levels below the root than it is deep.
LEMMA LevelDepth ==
  ASSUME NEW root \in Documents, NEW n \in Nat, NEW e \in Level[n][root]
  PROVE  e \in Entries /\ n + Depth[e[2]] <= Depth[root]
<1> DEFINE Fails == {k \in Nat : \E u \in Level[k][root] : ~(u \in Entries /\ k + Depth[u[2]] <= Depth[root])}
<1>1. Fails = {}
  <2> SUFFICES ASSUME Fails # {} PROVE FALSE
    OBVIOUS
  <2>1. PICK k \in Fails : \A m \in Fails : k <= m
    <3>1. Fails \subseteq Nat
      OBVIOUS
    <3>. HIDE DEF Fails
    <3>. QED BY <3>1, LeastNatural
  <2>2. PICK u \in Level[k][root] : k \in Nat /\ ~(u \in Entries /\ k + Depth[u[2]] <= Depth[root])
    BY <2>1
  <2>3. k # 0
    <3>1. SUFFICES ASSUME k = 0 PROVE FALSE
      OBVIOUS
    <3>2. u = <<Empty, root>>
      BY <2>2, <3>1, LevelIs
    <3>3. u \in Entries /\ u[2] = root /\ Depth[root] \in Nat
      BY <3>2, RootEntry, FilesAssumption
    <3>. QED BY <2>2, <3>1, <3>3
  <2>4. PICK m \in Nat : k = m + 1
    BY <2>2, <2>3
  <2>5. PICK p \in Level[m][root] : u \in Below(p)
    BY <2>2, <2>4, LevelIs
  <2>6. m \notin Fails
    BY <2>1, <2>4
  <2>7. p \in Entries /\ m + Depth[p[2]] <= Depth[root]
    BY <2>5, <2>6
  <2>8. u \in Range(Members(p)) /\ u \in Entries /\ Depth[u[2]] < Depth[p[2]]
    <3>1. u \in Range(Members(p)) /\ Members(p) \in Seq(Entries)
      BY <2>5, <2>7, MembersAre
    <3>2. u \in Entries
      BY <3>1 DEF Range
    <3>. QED BY <2>7, <3>1, <3>2, MembersAre
  <2>9. Depth[u[2]] \in Nat /\ Depth[p[2]] \in Nat /\ Depth[root] \in Nat
    BY <2>7, <2>8, EntryOf, RootEntry, FilesAssumption
  <2>. QED BY <2>2, <2>4, <2>7, <2>8, <2>9
<1>. QED BY <1>1

\* Every entry that is listed has a valid name, and is on some level of the file.
LEMMA ListedLevel ==
  ASSUME NEW root \in Documents, NEW entry \in Entries, NEW n \in Nat, entry \in Level[n][root],
         NEW e \in Range(ListAllMember[entry])
  PROVE  ~Bad(e[1]) /\ \E k \in Nat : e \in Level[k][root]
<1> DEFINE Right == ~Bad(e[1]) /\ \E k \in Nat : e \in Level[k][root]
           Fails == {d \in Nat : \E u \in Entries : Depth[u[2]] = d
                       /\ (\E k \in Nat : u \in Level[k][root])
                       /\ e \in Range(ListAllMember[u]) /\ ~Right}
<1>1. Fails = {}
  <2> SUFFICES ASSUME Fails # {} PROVE FALSE
    OBVIOUS
  <2>1. PICK d \in Fails : \A k \in Fails : d <= k
    <3>1. Fails \subseteq Nat
      OBVIOUS
    <3>. HIDE DEF Fails
    <3>. QED BY <3>1, LeastNatural
  <2>2. PICK u \in Entries : /\ d \in Nat /\ Depth[u[2]] = d
                             /\ \E k \in Nat : u \in Level[k][root]
                             /\ e \in Range(ListAllMember[u]) /\ ~Right
    BY <2>1
  <2>3. ~Bad(u[1]) /\ \E v \in Range(Members(u)) : e \in Range(ListAllMember[v])
    <3>1. ~Bad(u[1]) /\ (e = u \/ \E v \in Range(Members(u)) : e \in Range(ListAllMember[v]))
      BY <2>2, Listed
    <3>2. e # u
      BY <2>2, <3>1
    <3>. QED BY <3>1, <3>2
  <2>4. PICK v \in Range(Members(u)) : e \in Range(ListAllMember[v])
    BY <2>3
  <2>5. v \in Entries /\ v \in Below(u)
    <3>1. Members(u) \in Seq(Entries) /\ Range(Members(u)) = Below(u)
      BY MembersAre
    <3>. QED BY <3>1 DEF Range
  <2>6. Depth[v[2]] \in Nat /\ Depth[v[2]] < d
    BY <2>2, <2>5, MembersAre, EntryOf
  <2>7. ~(d <= Depth[v[2]])
    BY <2>2, <2>6
  <2>8. \E k \in Nat : v \in Level[k][root]
    <3>1. PICK k \in Nat : u \in Level[k][root]
      BY <2>2
    <3>2. v \in Level[k + 1][root] /\ k + 1 \in Nat
      BY <2>5, <3>1, LevelIs
    <3>. QED BY <3>2
  <2>. QED BY <2>1, <2>2, <2>4, <2>5, <2>6, <2>7, <2>8
<1>2. Depth[entry[2]] \in Nat
  BY EntryOf
<1>. QED BY <1>1, <1>2

\* Every entry on a level of the file that has a valid name is listed: the names
\* above it are valid, too.
LEMMA LevelListed ==
  ASSUME NEW root \in Documents, NEW n \in Nat, NEW e \in Level[n][root], ~Bad(e[1])
  PROVE  e \in Range(Listing(root))
<1> DEFINE entry == <<Empty, root>>
           Missing == {k \in Nat : \E u \in Level[k][root] : ~Bad(u[1]) /\ u \notin Range(ListAllMember[entry])}
<1>1. entry \in Entries /\ entry[1] = Empty
  BY RootEntry
<1>2. Missing = {}
  <2> SUFFICES ASSUME Missing # {} PROVE FALSE
    OBVIOUS
  <2>1. PICK k \in Missing : \A m \in Missing : k <= m
    <3>1. Missing \subseteq Nat
      OBVIOUS
    <3>. HIDE DEF Missing
    <3>. QED BY <3>1, LeastNatural
  <2>2. PICK u \in Level[k][root] : k \in Nat /\ ~Bad(u[1]) /\ u \notin Range(ListAllMember[entry])
    BY <2>1
  <2>3. k # 0
    <3>1. SUFFICES ASSUME k = 0 PROVE FALSE
      OBVIOUS
    <3>2. u = entry
      BY <2>2, <3>1, LevelIs
    <3>3. entry \in Range(ListAllMember[entry])
      <4>1. PICK first : first = entry
        OBVIOUS
      <4>2. first \in Entries /\ ~Bad(first[1])
        BY <1>1, <4>1, EmptyName
      <4>3. first \in Range(ListAllMember[first])
        BY <4>2, Listed
      <4>. QED BY <4>1, <4>3
    <3>. QED BY <2>2, <3>2, <3>3
  <2>4. PICK m \in Nat : k = m + 1
    BY <2>2, <2>3
  <2>5. PICK p \in Level[m][root] : u \in Below(p)
    BY <2>2, <2>4, LevelIs
  <2>6. p \in Entries
    BY <2>5, LevelDepth
  <2>7. u \in Range(Members(p)) /\ ~Bad(p[1])
    BY <2>2, <2>5, <2>6, MembersAre
  <2>8. p \in Range(ListAllMember[entry])
    BY <2>1, <2>4, <2>5, <2>7
  <2>9. u \in Range(ListAllMember[entry])
    BY <1>1, <2>2, <2>7, <2>8, ListedMember
  <2>. QED BY <2>2, <2>9
<1>. QED BY <1>2 DEF Listing

\* The listing of a file has a name with exactly the nodes that the file has under
\* it, unless it is the empty name.
LEMMA ListingIs ==
  ASSUME NEW root \in Documents
  PROVE  /\ Listing(root) \in Seq(Entries)
         /\ \A name, node : name # Empty =>
              (<<name, node>> \in Range(Listing(root)) <=> node \in NodesUnder(root, name))
<1> DEFINE entry == <<Empty, root>>
<1>1. entry \in Entries /\ Depth[root] \in Nat /\ entry \in Level[0][root]
  BY RootEntry, LevelIs, FilesAssumption
<1>2. Listing(root) \in Seq(Entries)
  BY <1>1, Listed DEF Listing
<1>3. ASSUME NEW e PROVE e \in Range(Listing(root)) <=> ~Bad(e[1]) /\ \E n \in 0 .. Depth[root] : e \in Level[n][root]
  <2>1. ASSUME e \in Range(Listing(root)) PROVE ~Bad(e[1]) /\ \E n \in 0 .. Depth[root] : e \in Level[n][root]
    <3>1. PICK first : first = entry
      OBVIOUS
    <3>2. first \in Entries /\ first \in Level[0][root] /\ e \in Range(ListAllMember[first])
      BY <1>1, <2>1, <3>1 DEF Listing
    <3>3. ~Bad(e[1]) /\ \E n \in Nat : e \in Level[n][root]
      BY <3>2, ListedLevel
    <3>4. PICK n \in Nat : e \in Level[n][root]
      BY <3>3
    <3>5. e \in Entries /\ n + Depth[e[2]] <= Depth[root]
      BY <3>4, LevelDepth
    <3>6. Depth[e[2]] \in Nat
      BY <3>5, EntryOf
    <3>7. n \in 0 .. Depth[root]
      BY <1>1, <3>5, <3>6
    <3>. QED BY <3>3, <3>4, <3>7
  <2>2. ASSUME ~Bad(e[1]), NEW n \in 0 .. Depth[root], e \in Level[n][root] PROVE e \in Range(Listing(root))
    BY <2>2, LevelListed
  <2>. QED BY <2>1, <2>2
<1>4. ASSUME NEW name, NEW node, name # Empty
      PROVE  <<name, node>> \in Range(Listing(root)) <=> node \in NodesUnder(root, name)
  <2>1. PICK e : e = <<name, node>>
    OBVIOUS
  <2>2. e[1] = name /\ e[2] = node
    BY <2>1
  <2>3. ASSUME NEW n \in 0 .. Depth[root], NEW u \in Level[n][root], u[1] = name, u[2] = node PROVE u = e
    <3>1. u \in Entries
      BY LevelDepth
    <3>2. u = <<u[1], u[2]>>
      BY <3>1, EntryOf
    <3>. QED BY <2>1, <2>3, <3>2
  <2>4. node \in NodesUnder(root, name) <=>
          ~Bad(name) /\ \E n \in 0 .. Depth[root] : \E u \in Level[n][root] : u[1] = name /\ u[2] = node
    BY <1>4 DEF NodesUnder
  <2>5. node \in NodesUnder(root, name) <=> ~Bad(name) /\ \E n \in 0 .. Depth[root] : e \in Level[n][root]
    BY <2>2, <2>3, <2>4
  <2>. QED BY <1>3, <2>1, <2>2, <2>5
<1>. QED BY <1>2, <1>4

-----------------------------------------------------------------------------
(* Loading a file.  The entries of its listing are looked up one after another; *)
(* those that name the variable and convert to its type set it.                 *)

\* How many entries a thread has gone through.
Position(t) == Len(Listing(document[t])) - Len(nodes[t])

Gives(t, j, o) ==
  /\ Listing(document[t])[j][1] = o[1] /\ o[1] # Empty
  /\ ~Throws(m_type[o], Listing(document[t])[j][2])

Given(t, o) == {j \in 1 .. Position(t) : Gives(t, j, o)}

\* Every variable that was there when the loading began, and that no other thread
\* has set since, has what the last of these entries gives, or else its old value:
\* an entry that does not convert, has no variable or an invalid name stops nothing.
AppliedBy(t) ==
  \A o \in DOMAIN before[t] \ disturbed[t] :
    IF Given(t, o) = {}
    THEN m_val[o] = before[t][o]
    ELSE \E j \in Given(t, o) :
           /\ \A k \in Given(t, o) : k <= j
           /\ m_val[o] = Converted(m_type[o], Listing(document[t])[j][2])

Applied == \A t \in Threads : pc[t] = "load" => AppliedBy(t)

\* What is left of the listing is its end, and the variables of the beginning are
\* still there.
LoadOK(t) ==
  /\ document[t] \in Documents
  /\ Position(t) \in 0 .. Len(Listing(document[t]))
  /\ nodes[t] = SubSeq(Listing(document[t]), Position(t) + 1, Len(Listing(document[t])))
  /\ DOMAIN before[t] \subseteq Registered
  /\ AppliedBy(t)

LoadTypes ==
  /\ document = [t \in Threads |-> document[t]]
  /\ nodes = [t \in Threads |-> nodes[t]]
  /\ before = [t \in Threads |-> before[t]]
  /\ disturbed = [t \in Threads |-> disturbed[t]]
  /\ m_val = [o \in Objects |-> m_val[o]]

LInv == LoadTypes /\ \A t \in Threads : pc[t] = "load" => LoadOK(t)

LEMMA ListingSeq ==
  ASSUME NEW root \in Documents
  PROVE  Len(Listing(root)) \in Nat /\ Listing(root) \in Seq(Entries)
BY ListingIs

LEMMA EndOfSeq ==
  ASSUME NEW S, NEW s \in Seq(S), NEW k \in 0 .. Len(s),
         NEW r, r = SubSeq(s, k + 1, Len(s)), r # <<>>
  PROVE  /\ k + 1 \in 1 .. Len(s) /\ r[1] = s[k + 1]
         /\ Tail(r) = SubSeq(s, (k + 1) + 1, Len(s))
         /\ Len(Tail(r)) = Len(s) - (k + 1)
<1>1. k # Len(s)
  <2> SUFFICES ASSUME k = Len(s) PROVE FALSE
    OBVIOUS
  <2>. QED BY SubSeqEmpty
<1>2. k + 1 \in 1 .. Len(s) /\ Len(s) \in k + 1 .. Len(s)
  BY <1>1
<1>3. r \in Seq(S) /\ Len(r) = Len(s) - k /\ r[1] = s[k + 1]
  BY <1>2, SubSeqProperties
<1>. QED BY <1>2, <1>3, HeadTailOfSubSeq, HeadTailProperties

LEMMA InitLInv == Init => LInv
BY DEF Init, LInv, LoadTypes

LEMMA RegisteredObjects ==
  ASSUME RInv
  PROVE  /\ Registered \subseteq Objects
         /\ \A o \in Registered : o[1] \in Names /\ s_datas[o[1]] = o /\ m_type[o] \in Types
<1>1. ASSUME NEW o \in Registered
      PROVE  o \in Objects /\ o[1] \in Names /\ s_datas[o[1]] = o /\ m_type[o] \in Types
  <2>1. PICK name \in Names : s_datas[name] = o /\ o # Null
    BY DEF Registered
  <2>. QED BY <2>1, ObjectFields DEF RInv, TypeOK, Constructed
<1>. QED BY <1>1

\* A step that is not one of the loading thread, and gives new values only to
\* variables that it disturbs.
LEMMA Elsewhere ==
  ASSUME LInv, NEW u \in Threads, pc[u] = "load",
         document'[u] = document[u], nodes'[u] = nodes[u], before'[u] = before[u],
         disturbed[u] \subseteq disturbed'[u],
         Registered \subseteq Registered',
         \A o \in Registered : m_type'[o] = m_type[o],
         \A o \in Registered \ disturbed'[u] : m_val'[o] = m_val[o]
  PROVE  LoadOK(u)'
<1>1. LoadOK(u)
  BY DEF LInv
<1>2. Position(u)' = Position(u)
  BY DEF Position
<1>3. \A o \in DOMAIN before[u] : Given(u, o)' = Given(u, o)
  BY <1>1, <1>2 DEF LoadOK, Given, Gives
<1>4. AppliedBy(u)'
  <2> SUFFICES ASSUME NEW o \in DOMAIN before[u], o \notin disturbed'[u]
               PROVE  IF Given(u, o)' = {}
                      THEN m_val'[o] = before'[u][o]
                      ELSE \E j \in Given(u, o)' :
                             /\ \A k \in Given(u, o)' : k <= j
                             /\ m_val'[o] = Converted(m_type'[o], Listing(document'[u])[j][2])
    BY DEF AppliedBy
  <2>1. o \in Registered /\ o \notin disturbed[u]
    BY <1>1 DEF LoadOK
  <2>2. m_val'[o] = m_val[o] /\ m_type'[o] = m_type[o] /\ Given(u, o)' = Given(u, o)
    BY <1>3, <2>1
  <2>. QED BY <1>1, <2>1, <2>2 DEF LoadOK, AppliedBy
<1>. QED BY <1>1, <1>2, <1>4 DEF LoadOK

\* Steps that neither load nor give a variable a new value.
LEMMA NotLoading ==
  ASSUME RInv, LInv, NEW t \in Threads, NEW label \in {"idle", "find", "insert", "visit"},
         pc' = [pc EXCEPT ![t] = label],
         UNCHANGED <<loadVars, nodes, disturbed, s_datas, m_type, m_val>>
  PROVE  LInv'
<1>1. LoadTypes'
  BY DEF LInv, LoadTypes, loadVars
<1>2. ASSUME NEW u \in Threads, pc'[u] = "load" PROVE LoadOK(u)'
  <2>1. pc[u] = "load"
    BY <1>2 DEF RInv, TypeOK
  <2>2. Registered' = Registered
    BY DEF Registered
  <2>. QED BY <2>1, <2>2, Elsewhere DEF loadVars
<1>. QED BY <1>1, <1>2 DEF LInv

\* Giving a variable a value disturbs whoever else loads.
LEMMA StoreElsewhere ==
  ASSUME RInv, LInv, NEW t \in Threads, NEW o \in Objects, NEW value, Store(t, o, value),
         NEW u \in Threads \ {t}, pc[u] = "load",
         document'[u] = document[u], nodes'[u] = nodes[u], before'[u] = before[u],
         UNCHANGED <<s_datas, m_type>>
  PROVE  LoadOK(u)'
<1>1. /\ disturbed'[u] = disturbed[u] \cup {o}
      /\ \A p \in Objects \ {o} : m_val'[p] = m_val[p]
  BY DEF Store, LInv, LoadTypes
<1>2. Registered' = Registered /\ Registered \subseteq Objects
  BY RegisteredObjects DEF Registered
<1>. QED BY <1>1, <1>2, Elsewhere

LEMMA StoreTypes ==
  ASSUME LoadTypes, NEW t \in Threads, NEW o \in Objects, NEW value, Store(t, o, value)
  PROVE  /\ disturbed' = [u \in Threads |-> disturbed'[u]]
         /\ m_val' = [p \in Objects |-> m_val'[p]]
         /\ disturbed'[t] = disturbed[t]
         /\ m_val'[o] = value
         /\ \A p \in Objects \ {o} : m_val'[p] = m_val[p]
BY DEF LoadTypes, Store

LEMMA LoadBeginLInv ==
  ASSUME RInv, LInv, NEW t \in Threads, NEW root \in Documents, LoadBegin(t, root)
  PROVE  LInv'
<1>1. /\ pc' = [pc EXCEPT ![t] = "load"]
      /\ nodes' = [nodes EXCEPT ![t] = Listing(root)]
      /\ document' = [document EXCEPT ![t] = root]
      /\ before' = [before EXCEPT ![t] = [o \in Registered |-> m_val[o]]]
      /\ disturbed' = [disturbed EXCEPT ![t] = {}]
      /\ UNCHANGED <<s_datas, m_type, m_val>>
  BY DEF LoadBegin, Goto, registryVars
<1>2. Registered' = Registered
  BY <1>1 DEF Registered
<1>3. LoadTypes'
  BY <1>1 DEF LInv, LoadTypes
<1>4. /\ nodes'[t] = Listing(root) /\ document'[t] = root /\ disturbed'[t] = {}
      /\ before'[t] = [o \in Registered |-> m_val[o]]
  BY <1>1 DEF LInv, LoadTypes
<1>5. LoadOK(t)'
  <2>1. Position(t)' = 0
    BY <1>4, ListingSeq DEF Position
  <2>2. \A o : Given(t, o)' = {}
    BY <2>1 DEF Given
  <2>3. AppliedBy(t)'
    BY <1>1, <1>4, <2>2 DEF AppliedBy
  <2>4. Listing(root) = SubSeq(Listing(root), 0 + 1, Len(Listing(root)))
    BY ListingSeq, SubSeqFull
  <2>. QED BY <1>2, <1>4, <2>1, <2>3, <2>4, ListingSeq DEF LoadOK
<1>6. ASSUME NEW u \in Threads \ {t}, pc'[u] = "load" PROVE LoadOK(u)'
  <2>1. /\ pc[u] = "load" /\ nodes'[u] = nodes[u] /\ document'[u] = document[u]
        /\ before'[u] = before[u] /\ disturbed'[u] = disturbed[u]
    BY <1>1, <1>6 DEF RInv, TypeOK, LInv, LoadTypes
  <2>. QED BY <1>1, <1>2, <2>1, Elsewhere
<1>. QED BY <1>3, <1>5, <1>6 DEF LInv

LEMMA LoadNodeLInv ==
  ASSUME RInv, LInv, NEW t \in Threads, LoadNode(t)
  PROVE  LInv'
<1> DEFINE root == document[t]
           listing == Listing(root)
           k == Position(t)
           name == nodes[t][1][1]
           node == nodes[t][1][2]
           o == IF name \in Names \ {Empty} THEN s_datas[name] ELSE Null
           sets == o # Null /\ ~Throws(m_type[o], node)
<1>1. pc[t] = "load" /\ LoadOK(t) /\ nodes[t] # <<>> /\ root \in Documents
  BY DEF LoadNode, LInv, LoadOK
<1>2. /\ nodes' = [nodes EXCEPT ![t] = Tail(nodes[t])]
      /\ UNCHANGED <<document, before, pc, s_datas, m_type>>
  BY DEF LoadNode, loadVars, registryVars
<1>3. \/ sets /\ Store(t, o, Converted(m_type[o], node))
      \/ /\ ~sets \/ Converted(m_type[o], node) = m_val[o]
         /\ UNCHANGED <<m_val, disturbed>>
  BY DEF LoadNode
<1>4. Len(listing) \in Nat /\ k \in 0 .. Len(listing) /\ nodes[t] = SubSeq(listing, k + 1, Len(listing))
  BY <1>1, ListingSeq DEF LoadOK
<1>5. /\ k + 1 \in 1 .. Len(listing) /\ nodes[t][1] = listing[k + 1]
      /\ Tail(nodes[t]) = SubSeq(listing, (k + 1) + 1, Len(listing))
      /\ Len(Tail(nodes[t])) = Len(listing) - (k + 1)
  BY <1>1, <1>4, ListingSeq, EndOfSeq
<1>6. nodes'[t] = Tail(nodes[t])
  BY <1>2 DEF LInv, LoadTypes
<1>7. Position(t)' = k + 1
  <2>1. Position(t)' = Len(listing) - Len(nodes'[t])
    BY <1>2 DEF Position
  <2>. QED BY <1>4, <1>5, <1>6, <2>1
<1>8. Registered' = Registered /\ Registered \subseteq Objects
  BY <1>2, RegisteredObjects DEF Registered
<1>9. o # Null => o \in Objects /\ o \in Registered /\ o[1] = name /\ name # Empty
  BY RegisteredObjects DEF RInv, TypeOK, Constructed, Registered
<1>10. /\ LoadTypes'
       /\ disturbed'[t] = disturbed[t]
       /\ sets => m_val'[o] = Converted(m_type[o], node)
       /\ \A p \in Registered : ~sets \/ p # o => m_val'[p] = m_val[p]
  <2>1. nodes' = [u \in Threads |-> nodes'[u]]
    BY <1>2 DEF LInv, LoadTypes
  <2>2. CASE sets /\ Store(t, o, Converted(m_type[o], node))
    <3>1. o \in Objects
      BY <1>9, <2>2
    <3>. HIDE DEF o, node
    <3>. QED BY <1>2, <1>8, <2>1, <2>2, <3>1, StoreTypes DEF LInv, LoadTypes
  <2>3. CASE (~sets \/ Converted(m_type[o], node) = m_val[o]) /\ UNCHANGED <<m_val, disturbed>>
    <3>. HIDE DEF o, node
    <3>. QED BY <1>2, <2>1, <2>3 DEF LInv, LoadTypes
  <2>. QED BY <1>3, <2>2, <2>3
<1>11. AppliedBy(t)'
  <2> SUFFICES ASSUME NEW p \in DOMAIN before[t], p \notin disturbed[t]
               PROVE  IF Given(t, p)' = {}
                      THEN m_val'[p] = before[t][p]
                      ELSE \E j \in Given(t, p)' :
                             /\ \A i \in Given(t, p)' : i <= j
                             /\ m_val'[p] = Converted(m_type[p], listing[j][2])
    BY <1>2, <1>10 DEF AppliedBy
  <2>1. /\ p \in Registered /\ p[1] \in Names /\ s_datas[p[1]] = p
    BY <1>1, RegisteredObjects DEF LoadOK
  <2>2. p = o \/ p[1] # name \/ p[1] = Empty
    BY <2>1
  <2>3. Gives(t, k + 1, p) <=> sets /\ p = o
    BY <1>5, <1>9, <2>1, <2>2, ObjectFields, <1>8 DEF Gives
  <2>4. Given(t, p)' = {j \in 1 .. k + 1 : Gives(t, j, p)}
    BY <1>2, <1>7 DEF Given, Gives
  <2>5. CASE sets /\ p = o
    <3>1. k + 1 \in 1 .. k + 1 /\ \A i \in 1 .. k + 1 : i <= k + 1
      BY <1>4
    <3>2. k + 1 \in Given(t, p)' /\ \A i \in Given(t, p)' : i <= k + 1
      BY <2>3, <2>4, <2>5, <3>1, Zenon
    <3>. QED BY <1>5, <1>10, <2>5, <3>2
  <2>6. CASE ~(sets /\ p = o)
    <3>1. Given(t, p)' = Given(t, p)
      <4>1. \A j : j \in 1 .. k + 1 <=> j \in 1 .. k \/ j = k + 1
        BY <1>4
      <4>2. ~Gives(t, k + 1, p)
        BY <2>3, <2>6
      <4>3. Given(t, p) = {j \in 1 .. k : Gives(t, j, p)}
        BY DEF Given
      <4>. QED BY <2>4, <4>1, <4>2, <4>3, Zenon
    <3>2. m_val'[p] = m_val[p]
      BY <1>10, <2>1, <2>6
    <3>. QED BY <1>1, <3>1, <3>2 DEF LoadOK, AppliedBy
  <2>. QED BY <2>5, <2>6
<1>12. LoadOK(t)'
  <2>1. document'[t] = root /\ before'[t] = before[t]
    BY <1>2
  <2>2. k + 1 \in 0 .. Len(listing) /\ nodes'[t] = SubSeq(listing, (k + 1) + 1, Len(listing))
    <3>1. k + 1 \in 0 .. Len(listing)
      BY <1>4, <1>5
    <3>. QED BY <1>5, <1>6, <3>1
  <2>3. DOMAIN before[t] \subseteq Registered'
    BY <1>1, <1>8 DEF LoadOK
  <2>. QED BY <1>1, <1>7, <1>11, <2>1, <2>2, <2>3 DEF LoadOK
<1>13. ASSUME NEW u \in Threads \ {t}, pc'[u] = "load" PROVE LoadOK(u)'
  <2>1. /\ pc[u] = "load" /\ nodes'[u] = nodes[u] /\ document'[u] = document[u]
        /\ before'[u] = before[u]
    BY <1>2, <1>13 DEF RInv, TypeOK, LInv, LoadTypes
  <2>. QED BY <1>2, <1>3, <1>8, <1>9, <2>1, Elsewhere, StoreElsewhere
<1>. QED BY <1>10, <1>12, <1>13 DEF LInv

LEMMA LoadEndLInv ==
  ASSUME RInv, LInv, NEW t \in Threads, LoadEnd(t)
  PROVE  LInv'
<1>1. /\ pc' = [pc EXCEPT ![t] = "idle"]
      /\ document' = [document EXCEPT ![t] = Null]
      /\ before' = [before EXCEPT ![t] = Null]
      /\ disturbed' = [disturbed EXCEPT ![t] = {}]
      /\ UNCHANGED <<s_datas, m_type, m_val, nodes>>
  BY DEF LoadEnd, Goto, registryVars
<1>2. Registered' = Registered
  BY <1>1 DEF Registered
<1>3. LoadTypes'
  BY <1>1 DEF LInv, LoadTypes
<1>4. ASSUME NEW u \in Threads, pc'[u] = "load" PROVE LoadOK(u)'
  <2>1. /\ pc[u] = "load" /\ nodes'[u] = nodes[u] /\ document'[u] = document[u]
        /\ before'[u] = before[u] /\ disturbed'[u] = disturbed[u]
    BY <1>1, <1>4 DEF RInv, TypeOK, LInv, LoadTypes
  <2>. QED BY <1>1, <1>2, <2>1, Elsewhere
<1>. QED BY <1>3, <1>4 DEF LInv

\* The variable that is inserted was not there when any loading began.
LEMMA InsertLInv ==
  ASSUME RInv, LInv, NEW t \in Threads, LookupInsert(t)
  PROVE  LInv'
<1> DEFINE name == asked[t][1]
           o == <<name, 1>>
<1>1. pc[t] = "insert" /\ s_datas[name] = Null /\ name \in Names
  BY ObjectFields DEF LookupInsert, RInv, LookupOK
<1>2. o \in Objects /\ m_type[o] = Null /\ o \notin Registered
  BY <1>1, ObjectFields, RegisteredObjects, RegistryAssumption DEF RInv, Constructed
<1>3. PICK default : m_val' = [m_val EXCEPT ![o] = default]
  BY <1>2 DEF LookupInsert
<1>4. /\ m_type' = [m_type EXCEPT ![o] = asked[t][2]]
      /\ s_datas' = [s_datas EXCEPT ![name] = o]
      /\ pc' = [pc EXCEPT ![t] = "idle"]
      /\ UNCHANGED <<document, before, nodes, disturbed>>
  BY <1>1, <1>2 DEF LookupInsert, Unlock, Goto, loadVars
<1>5. \A p \in Registered : m_type'[p] = m_type[p] /\ m_val'[p] = m_val[p]
  BY <1>2, <1>3, <1>4, RegisteredObjects DEF RInv, TypeOK
<1>6. Registered \subseteq Registered'
  <2> SUFFICES ASSUME NEW p \in Registered PROVE p \in Registered'
    OBVIOUS
  <2>1. PICK n \in Names : s_datas[n] = p /\ p # Null
    BY DEF Registered
  <2>2. s_datas'[n] = p
    BY <1>1, <1>4, <2>1 DEF RInv, TypeOK
  <2>. QED BY <2>1, <2>2 DEF Registered
<1>7. LoadTypes'
  BY <1>3, <1>4 DEF LInv, LoadTypes
<1>8. ASSUME NEW u \in Threads, pc'[u] = "load" PROVE LoadOK(u)'
  <2>1. pc[u] = "load"
    BY <1>4, <1>8 DEF RInv, TypeOK
  <2>. QED BY <1>4, <1>5, <1>6, <2>1, Elsewhere
<1>. QED BY <1>7, <1>8 DEF LInv

LEMMA NextLInv == RInv /\ LInv /\ [Next]_vars => LInv'
<1> SUFFICES ASSUME RInv, LInv, [Next]_vars PROVE LInv'
  OBVIOUS
<1>1. ASSUME NEW t \in Threads, NEW name \in Names, NEW type \in TypesOf[name],
             LookupLock(t, name, type) \/ LookupExisting(t, name, type)
      PROVE  LInv'
  BY <1>1, NotLoading DEF LookupLock, LookupExisting, Goto, registryVars, RInv, TypeOK
<1>2. ASSUME NEW t \in Threads,
             LookupFound(t) \/ LookupThrows(t) \/ LookupNotFound(t) \/ VisitEnd(t)
      PROVE  LInv'
  BY <1>2, NotLoading
     DEF LookupFound, LookupThrows, LookupNotFound, VisitEnd, Unlock, Goto, registryVars
<1>3. ASSUME NEW t \in Threads, VisitBegin(t) PROVE LInv'
  BY <1>3, NotLoading DEF VisitBegin, Goto, registryVars
<1>4. ASSUME NEW t \in Threads, NEW o \in Objects, NEW value, pc[t] # "load",
             Store(t, o, value), UNCHANGED <<registryVars, loadVars, nodes, pc>>
      PROVE  LInv'
  <2>1. UNCHANGED <<s_datas, m_type, document, before, nodes, pc>>
    BY <1>4 DEF registryVars, loadVars
  <2>2. LoadTypes'
    BY <1>4, <2>1, StoreTypes DEF LInv, LoadTypes
  <2>3. ASSUME NEW u \in Threads, pc'[u] = "load" PROVE LoadOK(u)'
    <3>1. u \in Threads \ {t} /\ pc[u] = "load"
      BY <1>4, <2>1, <2>3
    <3>. QED BY <1>4, <2>1, <3>1, StoreElsewhere
  <2>. QED BY <2>2, <2>3 DEF LInv
<1>5. ASSUME NEW t \in Threads, NEW o \in Registered, NEW value \in Values[m_type[o]],
             SetValue(t, o, value)
      PROVE  LInv'
  BY <1>4, <1>5, RegisteredObjects DEF SetValue
<1>6. ASSUME NEW t \in Threads, VisitNext(t) PROVE LInv'
  <2>1. PICK o \in toVisit[t] : \/ UNCHANGED <<m_val, disturbed>>
                                \/ \E value \in Values[m_type[o]] : Store(t, o, value)
    BY <1>6 DEF VisitNext
  <2>2. pc[t] = "visit" /\ o \in Objects /\ UNCHANGED <<registryVars, loadVars, nodes, pc>>
    BY <1>6 DEF VisitNext, RInv, TypeOK
  <2>3. CASE UNCHANGED <<m_val, disturbed>>
    <3>1. pc' = [pc EXCEPT ![t] = "visit"]
      BY <2>2 DEF RInv, TypeOK
    <3>. QED BY <2>2, <2>3, <3>1, NotLoading DEF registryVars
  <2>. QED BY <1>4, <2>1, <2>2, <2>3
<1>7. CASE UNCHANGED vars
  <2>1. UNCHANGED <<s_datas, m_type, m_val, document, before, nodes, disturbed, pc>>
    BY <1>7 DEF vars, registryVars, loadVars
  <2>2. Registered' = Registered
    BY <2>1 DEF Registered
  <2>3. LoadTypes'
    BY <2>1 DEF LInv, LoadTypes
  <2>. QED BY <2>1, <2>2, <2>3, Elsewhere DEF LInv
<1>. QED BY <1>1, <1>2, <1>3, <1>5, <1>6, <1>7, LoadBeginLInv, LoadNodeLInv, LoadEndLInv,
            InsertLInv DEF Next

\* Loading a file applies every entry that converts and no other, in the order of
\* the file, however the thread is interleaved with those that look up, insert,
\* set, visit and load.
THEOREM AppliedHolds == Spec => []Applied
<1>1. RInv /\ LInv => Applied
  BY DEF LInv, LoadOK, Applied
<1>. QED BY <1>1, InitRInv, NextRInv, InitLInv, NextLInv, PTL DEF Spec

\* A thread looks a name up with a type that belongs to the name, and the variable
\* gets this type.
TypesFit ==
  /\ \A t \in Threads : pc[t] \in {"find", "insert"} => asked[t][2] \in TypesOf[asked[t][1]]
  /\ \A o \in Objects : m_type[o] # Null => m_type[o] \in TypesOf[o[1]]

LEMMA InitTypesFit == Init => TypesFit
BY DEF Init, TypesFit

LEMMA NextTypesFit == RInv /\ TypesFit /\ [Next]_vars => TypesFit'
<1> SUFFICES ASSUME RInv, TypesFit, [Next]_vars PROVE TypesFit'
  OBVIOUS
<1>1. ASSUME NEW t \in Threads, NEW name \in Names, NEW type \in TypesOf[name],
             LookupLock(t, name, type)
      PROVE  TypesFit'
  <2>1. /\ asked' = [asked EXCEPT ![t] = <<name, type>>]
        /\ pc' = [pc EXCEPT ![t] = "find"]
        /\ m_type' = m_type
    BY <1>1 DEF LookupLock, Goto, registryVars
  <2>. QED BY <2>1 DEF RInv, TypeOK, LookupOK, TypesFit
<1>2. ASSUME NEW t \in Threads, LookupInsert(t) PROVE TypesFit'
  <2> DEFINE name == asked[t][1]
             o == <<name, 1>>
  <2>1. pc[t] = "insert" /\ s_datas[name] = Null /\ name \in Names
    BY <1>2, ObjectFields DEF LookupInsert, RInv, LookupOK
  <2>2. o \in Objects /\ m_type[o] = Null /\ o[1] = name
    BY <2>1, ObjectFields DEF RInv, Constructed
  <2>3. /\ m_type' = [m_type EXCEPT ![o] = asked[t][2]]
        /\ pc' = [pc EXCEPT ![t] = "idle"]
        /\ asked' = [asked EXCEPT ![t] = Null]
    BY <1>2, <2>2 DEF LookupInsert, Unlock, Goto
  <2>4. asked[t][2] \in TypesOf[name]
    BY <2>1 DEF TypesFit
  <2>. QED BY <2>2, <2>3, <2>4 DEF RInv, TypeOK, LookupOK, TypesFit
<1>3. ASSUME NEW t \in Threads,
             LookupFound(t) \/ LookupThrows(t) \/ VisitEnd(t)
      PROVE  TypesFit'
  <2>1. m_type' = m_type /\ pc' = [pc EXCEPT ![t] = "idle"] /\ asked' = [asked EXCEPT ![t] = Null]
    BY <1>3 DEF LookupFound, LookupThrows, VisitEnd, Unlock, Goto, registryVars
  <2>. QED BY <2>1 DEF RInv, TypeOK, LookupOK, TypesFit
<1>4. ASSUME NEW t \in Threads, LookupNotFound(t) PROVE TypesFit'
  <2>1. m_type' = m_type /\ asked' = asked /\ pc[t] = "find" /\ pc' = [pc EXCEPT ![t] = "insert"]
    BY <1>4 DEF LookupNotFound, Goto, registryVars
  <2>. QED BY <2>1 DEF RInv, TypeOK, TypesFit
<1>5. ASSUME NEW t \in Threads, NEW label \in {"idle", "load", "visit"},
             pc' = [pc EXCEPT ![t] = label] \/ pc' = pc, UNCHANGED <<m_type, asked>>
      PROVE  TypesFit'
  BY <1>5 DEF RInv, TypeOK, TypesFit
<1>6. ASSUME NEW t \in Threads, NEW name \in Names, NEW type \in TypesOf[name],
             LookupExisting(t, name, type)
      PROVE  TypesFit'
  BY <1>5, <1>6 DEF LookupExisting
<1>7. ASSUME NEW t \in Threads, NEW o \in Registered, NEW value \in Values[m_type[o]],
             SetValue(t, o, value)
      PROVE  TypesFit'
  BY <1>5, <1>7 DEF SetValue, registryVars
<1>8. ASSUME NEW t \in Threads, NEW root \in Documents, LoadBegin(t, root) PROVE TypesFit'
  BY <1>5, <1>8 DEF LoadBegin, Goto, registryVars
<1>9. ASSUME NEW t \in Threads, LoadNode(t) PROVE TypesFit'
  <2>1. UNCHANGED <<pc, m_type, asked>>
    BY <1>9 DEF LoadNode, registryVars
  <2>. QED BY <1>5, <2>1
<1>10. ASSUME NEW t \in Threads, LoadEnd(t) PROVE TypesFit'
  BY <1>5, <1>10 DEF LoadEnd, Goto, registryVars
<1>11. ASSUME NEW t \in Threads, VisitBegin(t) PROVE TypesFit'
  BY <1>5, <1>11 DEF VisitBegin, Goto, registryVars
<1>12. ASSUME NEW t \in Threads, VisitNext(t) PROVE TypesFit'
  BY <1>5, <1>12 DEF VisitNext, registryVars
<1>13. CASE UNCHANGED vars
  BY <1>13 DEF vars, registryVars, TypesFit
<1>. QED BY <1>1, <1>2, <1>3, <1>4, <1>6, <1>7, <1>8, <1>9, <1>10, <1>11, <1>12, <1>13 DEF Next

LEMMA NodeReads ==
  ASSUME NEW type \in AllTypes, NEW node \in Nodes, ~Throws(type, node)
  PROVE  IsValue(type, Converted(type, node)) /\ Denotes(type, TextOf(node), Converted(type, node))
<1>1. IsText(TextOf(node))
  BY NodeForms DEF IsNode
<1>. QED BY <1>1, Reads DEF Sound, Throws, Converted

LEMMA LoadedFollows ==
  ASSUME RInv, LInv, TypesFit
  PROVE  Loaded
<1> SUFFICES ASSUME NEW t \in Threads, NEW name \in Names, pc[t] = "load", nodes[t] = <<>>,
                    s_datas[name] \in DOMAIN before[t] \ disturbed[t]
             PROVE  LET o    == s_datas[name]
                        read == {node \in NodesUnder(document[t], name) : ~Throws(m_type[o], node)}
                    IN  /\ read # {} => \E node \in read : Denotes(m_type[o], TextOf(node), m_val[o])
                        /\ read = {} => m_val[o] = before[t][o]
  BY DEF Loaded
<1> DEFINE o == s_datas[name]
           root == document[t]
           listing == Listing(root)
           read == {node \in NodesUnder(root, name) : ~Throws(m_type[o], node)}
<1>1. LoadOK(t) /\ root \in Documents /\ name \in Seq(Range(name))
  BY RegistryAssumption DEF LInv, LoadOK
<1>2. o \in Registered
  BY <1>1 DEF LoadOK
<1>3. o # Null
  BY <1>2 DEF Registered
<1>4. o \in Objects /\ o[1] = name /\ m_type[o] \in TypesOf[name]
  BY <1>2, <1>3, RegisteredObjects, RegistryAssumption DEF RInv, Constructed, TypesFit, Types
<1>5. listing \in Seq(Entries) /\ Position(t) = Len(listing) /\ Len(listing) \in Nat
      /\ DOMAIN listing = 1 .. Len(listing)
  BY <1>1, ListingSeq DEF Position
<1>6. \A j \in 1 .. Len(listing) : listing[j] = <<listing[j][1], listing[j][2]>>
  BY <1>5, EntryOf
<1>7. \A node : node \in read <=> \E j \in Given(t, o) : listing[j][2] = node
  <2>1. ASSUME NEW node \in read PROVE \E j \in Given(t, o) : listing[j][2] = node
    <3>1. name # Empty /\ <<name, node>> \in Range(listing)
      BY <1>1, ListingIs DEF NodesUnder
    <3>2. PICK j \in 1 .. Len(listing) : listing[j] = <<name, node>>
      BY <1>5, <3>1 DEF Range
    <3>. QED BY <1>4, <1>5, <3>1, <3>2 DEF Given, Gives
  <2>2. ASSUME NEW j \in Given(t, o) PROVE listing[j][2] \in read
    <3>1. j \in 1 .. Len(listing) /\ listing[j][1] = name /\ name # Empty /\ ~Throws(m_type[o], listing[j][2])
      BY <1>4, <1>5 DEF Given, Gives
    <3>2. listing[j] = <<name, listing[j][2]>> /\ listing[j] \in Range(listing)
      BY <1>5, <1>6, <3>1 DEF Range
    <3>3. listing[j][2] \in NodesUnder(root, name)
      <4>1. PICK node : node = listing[j][2]
        OBVIOUS
      <4>2. <<name, node>> \in Range(Listing(root)) /\ name # Empty
        BY <3>1, <3>2, <4>1
      <4>3. node \in NodesUnder(root, name)
        BY <1>1, <4>2, ListingIs
      <4>. QED BY <4>1, <4>3
    <3>. QED BY <3>1, <3>3
  <2>. QED BY <2>1, <2>2
<1>8. ASSUME read # {} PROVE \E node \in read : Denotes(m_type[o], TextOf(node), m_val[o])
  <2>1. PICK j \in Given(t, o) : m_val[o] = Converted(m_type[o], listing[j][2])
    BY <1>1, <1>7, <1>8 DEF LoadOK, AppliedBy
  <2>2. PICK node \in read : node = listing[j][2]
    BY <1>7
  <2>3. m_type[o] \in AllTypes
    BY <1>2, RegisteredObjects, RegistryAssumption
  <2>4. listing[j] \in Entries
    BY <1>5 DEF Given
  <2>5. node \in Nodes /\ ~Throws(m_type[o], node)
    BY <2>2, <2>4, EntryOf
  <2>6. Denotes(m_type[o], TextOf(node), m_val[o])
    BY <2>1, <2>2, <2>3, <2>5, NodeReads
  <2>. QED BY <2>6
<1>9. ASSUME read = {} PROVE m_val[o] = before[t][o]
  <2>1. Given(t, o) = {}
    BY <1>7, <1>9
  <2>. QED BY <1>1, <2>1 DEF LoadOK, AppliedBy
<1>. QED BY <1>8, <1>9

\* Whatever the files look like, how deep they are nested and who else uses the
\* registry meanwhile: a file that is loaded gives each variable the value for
\* which the node under its name stands, and leaves it alone if there is none.
THEOREM LoadedHolds == Spec => []Loaded
BY LoadedFollows, InitRInv, NextRInv, InitLInv, NextLInv, InitTypesFit, NextTypesFit, PTL DEF Spec

\* Every variable has a value of its type.
ValuesFit == \A o \in Objects : m_type[o] # Null => IsValue(m_type[o], m_val[o])

LEMMA InitValuesFit == Init => ValuesFit
BY DEF Init, ValuesFit

LEMMA StoreValuesFit ==
  ASSUME LoadTypes, ValuesFit, NEW t \in Threads, NEW o \in Objects, NEW value, Store(t, o, value),
         UNCHANGED m_type, m_type[o] # Null => IsValue(m_type[o], value)
  PROVE  ValuesFit'
BY StoreTypes DEF ValuesFit

LEMMA NextValuesFit == RInv /\ LInv /\ ValuesFit /\ [Next]_vars => ValuesFit'
<1> SUFFICES ASSUME RInv, LInv, ValuesFit, [Next]_vars PROVE ValuesFit'
  OBVIOUS
<1>1. \A o \in Objects : m_type[o] # Null => m_type[o] \in Types
  BY DEF RInv, TypeOK
<1>2. ASSUME NEW t \in Threads, LookupInsert(t) PROVE ValuesFit'
  <2> DEFINE name == asked[t][1]
             type == asked[t][2]
             o == <<name, 1>>
  <2>1. asked[t] \in Names \X Types /\ s_datas[name] = Null
    BY <1>2 DEF LookupInsert, RInv, LookupOK
  <2>2. o \in Objects /\ m_type[o] = Null /\ type \in Types
    BY <2>1, ObjectFields DEF RInv, Constructed
  <2>3. PICK default \in Values[type] : m_val' = [m_val EXCEPT ![o] = default]
    BY <1>2, <2>2 DEF LookupInsert
  <2>4. m_type' = [m_type EXCEPT ![o] = type]
    BY <1>2, <2>2 DEF LookupInsert
  <2>. HIDE DEF o, type
  <2>5. m_val'[o] = default /\ m_type'[o] = type
        /\ \A p \in Objects \ {o} : m_val'[p] = m_val[p] /\ m_type'[p] = m_type[p]
    BY <2>2, <2>3, <2>4 DEF LInv, LoadTypes, RInv, TypeOK
  <2>6. IsValue(type, default)
    BY <2>2, RegistryAssumption
  <2>. QED BY <2>5, <2>6 DEF ValuesFit
<1>3. ASSUME NEW t \in Threads, NEW o \in Registered, NEW value \in Values[m_type[o]],
             SetValue(t, o, value)
      PROVE  ValuesFit'
  <2>1. Store(t, o, value) /\ UNCHANGED m_type
    BY <1>3 DEF SetValue, registryVars
  <2>2. o \in Objects /\ m_type[o] \in Types
    BY RegisteredObjects
  <2>3. IsValue(m_type[o], value)
    BY <2>2, RegistryAssumption
  <2>. QED BY <2>1, <2>2, <2>3, StoreValuesFit DEF LInv
<1>4. ASSUME NEW t \in Threads, LoadNode(t) PROVE ValuesFit'
  <2> DEFINE name == nodes[t][1][1]
             node == nodes[t][1][2]
             o == IF name \in Names \ {Empty} THEN s_datas[name] ELSE Null
  <2>1. UNCHANGED m_type
        /\ \/ /\ o # Null /\ ~Throws(m_type[o], node)
              /\ Store(t, o, Converted(m_type[o], node))
           \/ UNCHANGED m_val
    BY <1>4 DEF LoadNode, registryVars
  <2>2. CASE UNCHANGED m_val
    BY <2>1, <2>2 DEF ValuesFit
  <2>3. CASE o # Null /\ ~Throws(m_type[o], node) /\ Store(t, o, Converted(m_type[o], node))
    <3>1. LoadOK(t) /\ nodes[t] # <<>>
      BY <1>4 DEF LoadNode, LInv
    <3>2. PICK k \in 1 .. Len(Listing(document[t])) : nodes[t][1] = Listing(document[t])[k]
      BY <3>1, ListingSeq, EndOfSeq DEF LoadOK
    <3>3. node \in Nodes
      BY <3>1, <3>2, ListingSeq, EntryOf DEF LoadOK
    <3>4. o \in Objects
      BY <2>3 DEF RInv, TypeOK
    <3>. HIDE DEF o, node
    <3>5. m_type[o] # Null => IsValue(m_type[o], Converted(m_type[o], node))
      BY <1>1, <2>3, <3>3, <3>4, NodeReads, RegistryAssumption
    <3>. QED BY <2>1, <2>3, <3>4, <3>5, StoreValuesFit DEF LInv
  <2>. QED BY <2>1, <2>2, <2>3
<1>5. ASSUME NEW t \in Threads, VisitNext(t) PROVE ValuesFit'
  <2>1. UNCHANGED m_type
    BY <1>5 DEF VisitNext, registryVars
  <2>2. CASE UNCHANGED m_val
    BY <2>1, <2>2 DEF ValuesFit
  <2>3. ASSUME NEW o \in toVisit[t], NEW value \in Values[m_type[o]], Store(t, o, value) PROVE ValuesFit'
    <3>1. o \in Objects
      BY DEF RInv, TypeOK
    <3>2. m_type[o] # Null => IsValue(m_type[o], value)
      BY <1>1, <3>1, RegistryAssumption
    <3>. QED BY <2>1, <2>3, <3>1, <3>2, StoreValuesFit DEF LInv
  <2>. QED BY <1>5, <2>2, <2>3 DEF VisitNext
<1>6. CASE UNCHANGED <<m_type, m_val>>
  BY <1>6 DEF ValuesFit
<1>. QED BY <1>2, <1>3, <1>4, <1>5, <1>6
         DEF Next, vars, registryVars, LookupLock, LookupExisting, LookupFound, LookupThrows,
             LookupNotFound, LoadBegin, LoadEnd, VisitBegin, VisitEnd

\* The variables of the registry never hold a value that is not of their type,
\* whatever the files say.
THEOREM ValuesFitHolds == Spec => []ValuesFit
BY InitRInv, NextRInv, InitLInv, NextLInv, InitValuesFit, NextValuesFit, PTL DEF Spec

\* toString() and fromString() of every variable are inverse exactly on the values
\* that are Readable, for every type of up to two containers, any files and threads.
THEOREM ReadBackHolds == Spec => []ReadBack
<1>1. RInv /\ ValuesFit => ReadBack
  <2> SUFFICES ASSUME RInv, ValuesFit, NEW o \in Objects, m_type[o] # Null
               PROVE  /\ ReadsBack(m_type[o], m_val[o]) <=> Readable(m_type[o], m_val[o])
                      /\ m_type[o] = <<"set", <<"define">>>> =>
                           \A d \in m_val[o] : ReadsBack(<<"define">>, d) <=> Readable(<<"define">>, d)
    BY DEF ReadBack
  <2>1. m_type[o] \in AllTypes /\ IsValue(m_type[o], m_val[o])
    BY RegistryAssumption DEF RInv, TypeOK, ValuesFit
  <2>2. ASSUME m_type[o] = <<"set", <<"define">>>>, NEW d \in m_val[o]
        PROVE  ReadsBack(<<"define">>, d) <=> Readable(<<"define">>, d)
    <3>1. m_type[o] \notin Basic
      BY <2>2 DEF Basic
    <3>2. IsValue(<<"define">>, d)
      BY <2>1, <2>2, <3>1, ContainerIs
    <3>. QED BY <3>2, Back, TypeForms DEF Basic
  <2>. QED BY <2>1, <2>2, Back
<1>. QED BY <1>1, RInvHolds, ValuesFitHolds, PTL
=============================================================================
