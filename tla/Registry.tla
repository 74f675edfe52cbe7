------------------------------ MODULE Registry ------------------------------
(***************************************************************************)
(* The registry of configuration variables, components/config.{h,cpp}:     *)
(* threads look variables up and make them, load configuration files, and  *)
(* visit all variables, under one reader-writer lock.                      *)
(*                                                                         *)
(* What setValue() does inside is the subject of module ConfigVar; here it *)
(* is one step.  What a file has to say, and what fromString() makes of    *)
(* it, are the subjects of Files and of Conversions.                       *)
(***************************************************************************)
EXTENDS Files, Conversions

CONSTANTS
  Threads,
  Names,          \* the names that are looked up
  TypesOf,        \* per name: the types it is looked up with
  Values,         \* per type: the values that programs use
  Null

Types == UNION {TypesOf[name] : name \in Names}
Objects == Names \X {1, 2}   \* a variable knows its name; there should be one for each

ASSUME RegistryAssumption ==
  /\ Types \subseteq AllTypes
  /\ \A type \in Types :
       /\ Values[type] # {}
       /\ \A value \in Values[type] : IsValue(type, value)
  /\ Null \notin Threads \cup Objects
  /\ Null \notin Types
  /\ \A name \in Names : name \in Seq(Range(name))

VARIABLES
  s_datas,    \* per name: the variable registered under it, or Null
  m_type,     \* per variable that has been constructed: its template argument
  m_val,      \* per variable: the texts and values of module Conversions
  writer,     \* the thread that holds s_mutex for writing, or Null
  readers,    \* the threads that hold it for reading
  pc,
  asked,      \* per thread: name and type of its Lookup()
  nodes,      \* per thread: what LoadFromYaml() has still to go through
  toVisit,    \* per thread: what Visit() has still to call back for
  returned,   \* history: name, type and variable of every Lookup() that found one
  document,   \* history, per thread: the file being loaded
  before,     \* history, per thread: the variables and values when it began
  disturbed   \* history, per thread: the variables that others have set since

registryVars == <<s_datas, m_type, returned>>
lockVars     == <<writer, readers>>
loadVars     == <<document, before>>
vars == <<registryVars, lockVars, loadVars, m_val, pc, asked, nodes, toVisit, disturbed>>

Init ==
  /\ s_datas = [name \in Names |-> Null]
  /\ m_type = [o \in Objects |-> Null]
  /\ m_val = [o \in Objects |-> Null]
  /\ writer = Null
  /\ readers = {}
  /\ pc = [t \in Threads |-> "idle"]
  /\ asked = [t \in Threads |-> Null]
  /\ nodes = [t \in Threads |-> <<>>]
  /\ toVisit = [t \in Threads |-> {}]
  /\ returned = {}
  /\ document = [t \in Threads |-> Null]
  /\ before = [t \in Threads |-> Null]
  /\ disturbed = [t \in Threads |-> {}]

Registered == {s_datas[name] : name \in Names} \ {Null}
Goto(t, label) == pc' = [pc EXCEPT ![t] = label]

\* A variable is given a value, which other threads that load a file overwrite
\* or see overwritten.
Store(t, o, value) ==
  /\ m_val' = [m_val EXCEPT ![o] = value]
  /\ disturbed' = [u \in Threads |->
                     IF u # t /\ pc[u] = "load" THEN disturbed[u] \cup {o} ELSE disturbed[u]]

-----------------------------------------------------------------------------
(* Lookup(name, default). *)

\* Mutant of LookupLock: the read lock is taken.
LookupLockShared(t, name, type) ==
  /\ pc[t] = "idle"
  /\ writer = Null
  /\ readers' = readers \cup {t}
  /\ asked' = [asked EXCEPT ![t] = <<name, type>>]
  /\ Goto(t, "find")
  /\ UNCHANGED <<registryVars, writer, loadVars, m_val, nodes, toVisit, disturbed>>

LookupLock(t, name, type) ==
  /\ pc[t] = "idle"
  /\ writer = Null
  /\ readers = {}
  /\ writer' = t
  /\ asked' = [asked EXCEPT ![t] = <<name, type>>]
  /\ Goto(t, "find")
  /\ UNCHANGED <<registryVars, readers, loadVars, m_val, nodes, toVisit, disturbed>>

Unlock(t) ==
  /\ writer' = IF writer = t THEN Null ELSE writer
  /\ readers' = readers \ {t}
  /\ asked' = [asked EXCEPT ![t] = Null]
  /\ Goto(t, "idle")

\* The name is registered: the variable is returned if it has the type.
LookupFound(t) ==
  LET name == asked[t][1]
      o    == s_datas[name]
  IN
  /\ pc[t] = "find"
  /\ o # Null
  /\ returned' = IF m_type[o] = asked[t][2]
                 THEN returned \cup {<<name, m_type[o], o>>}
                 ELSE returned
  /\ Unlock(t)
  /\ UNCHANGED <<s_datas, m_type, loadVars, m_val, nodes, toVisit, disturbed>>

\* Mutant of LookupThrows: the lock is left behind.
LookupThrowsLocked(t) ==
  /\ pc[t] = "find"
  /\ s_datas[asked[t][1]] = Null
  /\ Bad(asked[t][1])
  /\ Goto(t, "idle")
  /\ UNCHANGED <<registryVars, lockVars, loadVars, m_val, asked, nodes, toVisit, disturbed>>

\* The name is not registered, and not a valid one.
LookupThrows(t) ==
  /\ pc[t] = "find"
  /\ s_datas[asked[t][1]] = Null
  /\ Bad(asked[t][1])
  /\ Unlock(t)
  /\ UNCHANGED <<registryVars, loadVars, m_val, nodes, toVisit, disturbed>>

LookupNotFound(t) ==
  /\ pc[t] = "find"
  /\ s_datas[asked[t][1]] = Null
  /\ ~Bad(asked[t][1])
  /\ Goto(t, "insert")
  /\ UNCHANGED <<registryVars, lockVars, loadVars, m_val, asked, nodes, toVisit, disturbed>>

\* A variable is made and inserted; insert() leaves one that is there.
LookupInsert(t) ==
  LET name == asked[t][1]
      type == asked[t][2]
      o    == <<name, IF m_type[<<name, 1>>] = Null THEN 1 ELSE 2>>
  IN
  /\ pc[t] = "insert"
  /\ m_type' = [m_type EXCEPT ![o] = type]
  /\ \E default \in Values[type] : m_val' = [m_val EXCEPT ![o] = default]
  /\ s_datas' = [s_datas EXCEPT ![name] = IF @ = Null THEN o ELSE @]
  /\ returned' = returned \cup {<<name, type, o>>}
  /\ Unlock(t)
  /\ UNCHANGED <<loadVars, nodes, toVisit, disturbed>>

\* Lookup(name): nothing is made.
LookupExisting(t, name, type) ==
  LET o == s_datas[name] IN
  /\ pc[t] = "idle"
  /\ writer = Null
  /\ o # Null
  /\ m_type[o] = type
  /\ returned' = returned \cup {<<name, type, o>>}
  /\ UNCHANGED <<s_datas, m_type, lockVars, loadVars, m_val, pc, asked, nodes,
                 toVisit, disturbed>>

\* setValue(), through a pointer that some Lookup() has returned.
SetValue(t, o, value) ==
  /\ pc[t] = "idle"
  /\ \E name \in Names : <<name, m_type[o], o>> \in returned
  /\ m_val[o] # value
  /\ Store(t, o, value)
  /\ UNCHANGED <<registryVars, lockVars, loadVars, pc, asked, nodes, toVisit>>

-----------------------------------------------------------------------------
(* LoadFromYaml. *)

\* The file is listed before its first node is looked up.
LoadBegin(t, root) ==
  /\ pc[t] = "idle"
  /\ Goto(t, "load")
  /\ nodes' = [nodes EXCEPT ![t] = Listing(root)]
  /\ document' = [document EXCEPT ![t] = root]
  /\ before' = [before EXCEPT ![t] = [o \in Registered |-> m_val[o]]]
  /\ disturbed' = [disturbed EXCEPT ![t] = {}]
  /\ UNCHANGED <<registryVars, lockVars, m_val, asked, toVisit>>

\* LookupBase() and fromString() for the next node, unless its name is empty.  A
\* conversion that throws leaves the value.
LoadNode(t) ==
  LET name == nodes[t][1][1]
      node == nodes[t][1][2]
      o    == IF name \in Names \ {Empty} THEN s_datas[name] ELSE Null
  IN
  /\ pc[t] = "load"
  /\ nodes[t] # <<>>
  /\ writer = Null
  /\ nodes' = [nodes EXCEPT ![t] = Tail(@)]
  /\ IF o # Null /\ ~Throws(m_type[o], node) /\ Converted(m_type[o], node) # m_val[o]
     THEN Store(t, o, Converted(m_type[o], node))
     ELSE UNCHANGED <<m_val, disturbed>>
  /\ UNCHANGED <<registryVars, lockVars, loadVars, pc, asked, toVisit>>

LoadEnd(t) ==
  /\ pc[t] = "load"
  /\ nodes[t] = <<>>
  /\ Goto(t, "idle")
  /\ document' = [document EXCEPT ![t] = Null]
  /\ before' = [before EXCEPT ![t] = Null]
  /\ disturbed' = [disturbed EXCEPT ![t] = {}]
  /\ UNCHANGED <<registryVars, lockVars, m_val, asked, nodes, toVisit>>

-----------------------------------------------------------------------------
(* Visit.  The callbacks may use the variable, and may not look up with a       *)
(* default: their thread would wait for itself.                                 *)

\* Mutant of VisitBegin: no lock is taken.
VisitBeginUnlocked(t) ==
  /\ pc[t] = "idle"
  /\ writer = Null
  /\ toVisit' = [toVisit EXCEPT ![t] = Registered]
  /\ Goto(t, "visit")
  /\ UNCHANGED <<registryVars, lockVars, loadVars, m_val, asked, nodes, disturbed>>

VisitBegin(t) ==
  /\ pc[t] = "idle"
  /\ writer = Null
  /\ readers' = readers \cup {t}
  /\ toVisit' = [toVisit EXCEPT ![t] = Registered]
  /\ Goto(t, "visit")
  /\ UNCHANGED <<registryVars, writer, loadVars, m_val, asked, nodes, disturbed>>

\* The callback, which may set the value.
VisitNext(t) ==
  /\ pc[t] = "visit"
  /\ \E o \in toVisit[t] :
       /\ toVisit' = [toVisit EXCEPT ![t] = @ \ {o}]
       /\ \/ UNCHANGED <<m_val, disturbed>>
          \/ \E value \in Values[m_type[o]] : Store(t, o, value)
  /\ UNCHANGED <<registryVars, lockVars, loadVars, pc, asked, nodes>>

VisitEnd(t) ==
  /\ pc[t] = "visit"
  /\ toVisit[t] = {}
  /\ Unlock(t)
  /\ UNCHANGED <<registryVars, loadVars, m_val, nodes, toVisit, disturbed>>

-----------------------------------------------------------------------------
Next ==
  \E t \in Threads :
    \/ \E name \in Names : \E type \in TypesOf[name] :
         LookupLock(t, name, type) \/ LookupExisting(t, name, type)
    \/ LookupFound(t) \/ LookupThrows(t) \/ LookupNotFound(t) \/ LookupInsert(t)
    \/ \E o \in Registered : \E value \in Values[m_type[o]] : SetValue(t, o, value)
    \/ \E root \in Documents : LoadBegin(t, root)
    \/ LoadNode(t) \/ LoadEnd(t)
    \/ VisitBegin(t) \/ VisitNext(t) \/ VisitEnd(t)

Spec == Init /\ [][Next]_vars

-----------------------------------------------------------------------------
(* Properties. *)

\* The variables have their types, and the lock is held by the threads in its
\* critical sections.
TypeOK ==
  /\ s_datas \in [Names -> Objects \cup {Null}]
  /\ m_type \in [Objects -> Types \cup {Null}]
  /\ DOMAIN m_val = Objects
  /\ pc \in [Threads -> {"idle", "find", "insert", "load", "visit"}]
  /\ toVisit \in [Threads -> SUBSET Objects]
  /\ \A t \in Threads :
       /\ writer = t <=> pc[t] \in {"find", "insert"}
       /\ t \in readers <=> pc[t] = "visit"

\* Whoever looks a name up gets the one variable that LoadFromYaml() and
\* Visit() know under it, with the type that was asked for, and for ever: a
\* pointer that is kept in a static variable is never one that no file changes.
OneVariable ==
  \A r \in returned : s_datas[r[1]] = r[3] /\ m_type[r[3]] = r[2]

\* When a file has been loaded, every variable that was registered when that
\* began, and that no other thread has set since, has a value that the file gives
\* under its name, or its old one if the file has none or only ones of another
\* type; whatever the other parts of the file are.  Keys with dots may give one
\* name to several nodes.
Loaded ==
  \A t \in Threads, name \in Names :
    LET o    == s_datas[name]
        read == {node \in NodesUnder(document[t], name) : ~Throws(m_type[o], node)}
    IN
    (pc[t] = "load" /\ nodes[t] = <<>> /\ o \in DOMAIN before[t] \ disturbed[t]) =>
      /\ read # {} => \E node \in read : Denotes(m_type[o], TextOf(node), m_val[o])
      /\ read = {} => m_val[o] = before[t][o]

\* fromString(toString()) gives the value of a variable back exactly when it is
\* Readable, and so for each definition of a logger: config.h writes every value,
\* but not in the form in which it reads all of them.
ReadBack ==
  \A o \in {object \in Objects : m_type[object] # Null} :
    /\ ReadsBack(m_type[o], m_val[o]) <=> Readable(m_type[o], m_val[o])
    /\ m_type[o] = <<"set", <<"define">>>> =>
         \A d \in m_val[o] : ReadsBack(<<"define">>, d) <=> Readable(<<"define">>, d)

\* No variable is inserted into the map that Visit() goes through.
StableUnderVisit == [][(\E t \in Threads : pc[t] = "visit") => s_datas' = s_datas]_vars
=============================================================================
