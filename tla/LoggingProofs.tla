---------------------------- MODULE LoggingProofs ----------------------------
(***************************************************************************)
(* Proof, for any loggers, threads and configurations, that                 *)
(*                                                                         *)
(*   - the spinlocks of Logging are held by those who are inside log(), so  *)
(*     that no list of appenders changes under a thread that writes by it;  *)
(*   - the variables have their types, and the listener's next call is one  *)
(*     of those for a definition, or for a name that is gone;               *)
(*   - every appender has a format, its own or that of its logger;          *)
(*   - a null pointer is followed by log() of a root logger that has been   *)
(*     defined, and in a reload that repeats a definition, and never else;  *)
(*   - a configuration that has been set is the one that the loggers have.  *)
(***************************************************************************)
EXTENDS Logging, SequenceTheorems, TLAPS

-----------------------------------------------------------------------------
(* Locks. *)

\* The types that this argument needs: the listener's calls need none.
CallTypes ==
  /\ DOMAIN m_appenders = Loggers
  /\ m_mutex \in [Loggers -> Threads \cup {Null}]
  /\ pc \in [Threads -> {"idle", "check", "lock", "write", "unlock"}]
  /\ message \in [Threads -> [logger : Loggers, level : Level]]
  /\ current \in [Threads -> Loggers]

\* A message is with its own logger or with the root logger.
Nesting == \A t \in Threads : current[t] \in {message[t].logger, Root}

IInv == CallTypes /\ Nesting /\ LocksExact

\* Whatever changes a list of appenders finds its lock free.
FreeOnChange ==
  \A l \in Loggers : m_appenders'[l] # m_appenders[l] => m_mutex[l] = Null

LEMMA InitIInv == Init => IInv
BY LoggingAssumption DEF Init, IInv, CallTypes, Nesting, LocksExact, Inside,
   NoMessage, Threads, Loggers, Level

\* A message begins on a thread that was idle, and holds nothing.
LEMMA LogMacroStep ==
  ASSUME IInv, failed = "none", NEW t \in Threads, NEW l \in Loggers,
         NEW level \in Level, LogMacro(t, l, level),
         UNCHANGED <<loggerVars, failed>>
  PROVE  IInv'
<1> USE DEF IInv, LogMacro, Goto, loggerVars
<1>1. CallTypes'
  BY DEF CallTypes
<1>2. Nesting'
  BY DEF Nesting, CallTypes
<1>3. LocksExact'
  BY DEF LocksExact, Inside, CallTypes
<1> QED BY <1>1, <1>2, <1>3

LEMMA LevelCheckStep ==
  ASSUME IInv, failed = "none", NEW t \in Threads, LevelCheck(t)
  PROVE  IInv'
<1> USE DEF IInv, LevelCheck, Return, Leave, NoMessage, Goto, loggerVars
<1>1. CallTypes'
  BY DEF CallTypes, Loggers, Level
<1>2. Nesting'
  BY DEF Nesting, CallTypes
<1>3. LocksExact'
  BY DEF LocksExact, Inside, CallTypes, Nesting
<1> QED BY <1>1, <1>2, <1>3

LEMMA LockLoggerStep ==
  ASSUME IInv, failed = "none", NEW t \in Threads, LockLogger(t)
  PROVE  IInv'
<1> USE DEF IInv
<1> DEFINE l == current[t]
<1>1. l \in Loggers /\ pc[t] = "lock" /\ m_mutex[l] = Null
  BY DEF LockLogger, CallTypes
<1>2. m_mutex' = [m_mutex EXCEPT ![l] = t] /\ UNCHANGED <<m_appenders, message>>
  BY DEF LockLogger
<1>3. CASE /\ pc' = [pc EXCEPT ![t] = "write"]
           /\ UNCHANGED <<current, failed>>
  <2>1. CallTypes'
    BY <1>1, <1>2, <1>3 DEF CallTypes
  <2>2. Nesting'
    BY <1>2, <1>3 DEF Nesting
  <2>3. LocksExact'
    BY <1>1, <1>2, <1>3, LoggingAssumption DEF LocksExact, Inside, CallTypes
  <2> QED BY <2>1, <2>2, <2>3
<1>4. CASE /\ l # Root
           /\ current' = [current EXCEPT ![t] = Root]
           /\ pc' = [pc EXCEPT ![t] = "check"]
           /\ UNCHANGED failed
  <2>1. CallTypes'
    BY <1>1, <1>2, <1>4 DEF CallTypes, Loggers
  <2>2. Nesting'
    BY <1>2, <1>4 DEF Nesting, CallTypes
  <2>3. message[t].logger = l
    BY <1>4 DEF Nesting
  <2>4. LocksExact'
    BY <1>1, <1>2, <1>4, <2>3, LoggingAssumption DEF LocksExact, Inside, CallTypes
  <2> QED BY <2>1, <2>2, <2>4
<1>5. CASE failed' = "m_root" /\ UNCHANGED <<pc, current>>
  BY <1>1, <1>2, <1>5 DEF CallTypes, Nesting, LocksExact
<1> QED BY <1>3, <1>4, <1>5 DEF LockLogger, Goto, Fail, m_root

LEMMA WriteStep ==
  ASSUME IInv, failed = "none", NEW t \in Threads, Write(t)
  PROVE  IInv'
<1> USE DEF IInv
<1>1. /\ pc[t] = "write"
      /\ UNCHANGED <<loggerVars, message, current>>
      /\ UNCHANGED failed \/ failed' = "m_formatter"
      /\ UNCHANGED pc \/ pc' = [pc EXCEPT ![t] = "unlock"]
  BY DEF Write, Goto, Fail
<1> USE DEF loggerVars
<1>2. CallTypes'
  BY <1>1 DEF CallTypes
<1>3. Nesting'
  BY <1>1 DEF Nesting
<1>4. LocksExact'
  BY <1>1 DEF LocksExact, Inside, CallTypes
<1> QED BY <1>2, <1>3, <1>4

LEMMA UnlockStep ==
  ASSUME IInv, failed = "none", NEW t \in Threads, Unlock(t)
  PROVE  IInv'
<1> USE DEF IInv, Unlock, Return, Leave, NoMessage, Goto
<1>1. CallTypes'
  BY DEF CallTypes, Loggers, Level
<1>2. Nesting'
  BY DEF Nesting, CallTypes
<1>3. LocksExact'
  BY LoggingAssumption DEF LocksExact, Inside, CallTypes, Nesting, Threads
<1> QED BY <1>1, <1>2, <1>3

\* Who changes a logger holds no lock afterwards, and needs it free to change
\* the appenders.
LEMMA ChangeKeeps ==
  ASSUME IInv, UNCHANGED <<m_mutex, pc, message, current>>,
         DOMAIN m_appenders' = Loggers, failed = "none"
  PROVE  IInv'
BY DEF IInv, CallTypes, Nesting, LocksExact, Inside

LEMMA SetFormatterStep ==
  ASSUME CallTypes, NEW l, NEW f, SetFormatter(l, f)
  PROVE  UNCHANGED m_mutex /\ DOMAIN m_appenders' = Loggers /\ FreeOnChange
BY DEF CallTypes, SetFormatter, FreeOnChange, Locked, loggerVars

LEMMA ListenerCallStep ==
  ASSUME IInv, failed = "none", NEW r \in Reloaders, ListenerCall(r)
  PROVE  IInv' /\ FreeOnChange
<1> DEFINE c == Calls(r)[todo[r].step]
<1>1. UNCHANGED <<pc, message, current>>
  BY DEF ListenerCall, callVars
<1>2. UNCHANGED m_mutex /\ DOMAIN m_appenders' = Loggers /\ FreeOnChange
  <2> USE DEF IInv
  <2>1. CASE UNCHANGED loggerVars
    BY <2>1 DEF loggerVars, CallTypes, FreeOnChange
  <2>2. CASE SetLevel(c.logger, c.level)
    BY <2>2 DEF SetLevel, CallTypes, FreeOnChange
  <2>3. CASE SetFormatter(c.logger, c.format)
    BY <2>3, SetFormatterStep
  <2>4. CASE ClearAppender(c.logger)
    BY <2>4 DEF ClearAppender, Locked, CallTypes, FreeOnChange
  <2>5. CASE AddAppender(c.logger, c.appender)
    BY <2>5 DEF AddAppender, Locked, CallTypes, FreeOnChange
  <2> QED BY <2>1, <2>2, <2>3, <2>4, <2>5 DEF ListenerCall
<1> QED BY <1>1, <1>2, ChangeKeeps

\* Every step keeps the invariant, and changes a list only if its lock is free.
LEMMA NextStep ==
  ASSUME IInv, [Next]_vars
  PROVE  IInv' /\ FreeOnChange
<1>1. CASE UNCHANGED vars
  BY <1>1 DEF vars, loggerVars, callVars, IInv, CallTypes, Nesting, LocksExact,
     Inside, FreeOnChange
<1>2. ASSUME failed = "none", NEW t \in Writers, NEW l \in Loggers, NEW v \in Levels,
             LogCall(t, l, v)
      PROVE  IInv' /\ FreeOnChange
  <2>1. t \in Threads /\ v \in Level
    BY LoggingAssumption DEF Threads
  <2> QED BY <1>2, <2>1, LogMacroStep DEF LogCall, FreeOnChange, loggerVars
<1>3. ASSUME failed = "none", NEW t \in Writers, NEW l \in Loggers, NEW f,
             FormatCall(t, l, f)
      PROVE  IInv' /\ FreeOnChange
  BY <1>3, SetFormatterStep, ChangeKeeps DEF FormatCall, callVars, IInv
<1>4. ASSUME failed = "none", NEW t \in Threads, LogStep(t)
      PROVE  IInv' /\ FreeOnChange
  <2>1. IInv'
    BY <1>4, LevelCheckStep, LockLoggerStep, WriteStep, UnlockStep DEF LogStep
  <2>2. UNCHANGED m_appenders
    BY <1>4 DEF LogStep, LevelCheck, LockLogger, Write, Unlock, loggerVars
  <2> QED BY <2>1, <2>2 DEF FreeOnChange
<1>5. ASSUME failed = "none", NEW r \in Reloaders, ListenerLog(r)
      PROVE  IInv' /\ FreeOnChange
  <2>1. UNCHANGED <<loggerVars, failed>>
    BY <1>5 DEF ListenerLog
  <2>2. CASE LogMacro(r, Root, INFO)
    <3>1. r \in Threads /\ Root \in Loggers /\ INFO \in Level
      BY DEF Threads, Loggers, INFO, Level
    <3> QED BY <1>5, <2>1, <2>2, <3>1, LogMacroStep DEF FreeOnChange, loggerVars
  <2>3. CASE UNCHANGED callVars
    BY <1>5, <2>1, <2>3, ChangeKeeps DEF callVars, loggerVars, IInv, CallTypes, FreeOnChange
  <2> QED BY <1>5, <2>2, <2>3 DEF ListenerLog
<1>6. ASSUME failed = "none", NEW r \in Reloaders,
             Commit(r) \/ \E new \in Configs : Reload(r, new)
      PROVE  IInv' /\ FreeOnChange
  BY <1>6, ChangeKeeps DEF Commit, Reload, loggerVars, callVars, IInv, CallTypes, FreeOnChange
<1> QED BY <1>1, <1>2, <1>3, <1>4, <1>5, <1>6, ListenerCallStep DEF Next, Step, Crashed

THEOREM IInvHolds == Spec => []IInv
<1>1. IInv /\ [Next]_vars => IInv'
  BY NextStep
<1> QED BY InitIInv, <1>1, PTL DEF Spec

\* The spinlock of a logger is held by the thread inside its log(), and by none
\* else.
THEOREM LocksExactHolds == Spec => []LocksExact
<1>1. IInv => LocksExact
  BY DEF IInv
<1> QED BY <1>1, IInvHolds, PTL

\* The appenders of a logger do not change under a thread that writes by them.
THEOREM ListStableHolds == Spec => ListStable
<1>1. ASSUME IInv, [Next]_vars
      PROVE  [\A t \in Threads :
                pc[t] = "write" => m_appenders'[current[t]] = m_appenders[current[t]]]_vars
  <2>1. CASE UNCHANGED vars
    BY <2>1
  <2>2. CASE failed = "none" /\ Step
    <3>1. failed = "none"
      BY <2>2
    <3>2. ASSUME NEW t \in Threads, pc[t] = "write"
          PROVE  m_appenders'[current[t]] = m_appenders[current[t]]
      <4>1. current[t] \in Loggers
        BY <1>1 DEF IInv, CallTypes
      <4>2. m_mutex[current[t]] = t
        BY <1>1, <3>1, <3>2, <4>1 DEF IInv, LocksExact, Inside
      <4>3. t # Null
        BY LoggingAssumption
      <4> QED BY <1>1, <4>1, <4>2, <4>3, NextStep DEF FreeOnChange
    <3> QED BY <3>2
  <2> QED BY <1>1, <2>1, <2>2 DEF Next, Crashed
<1> QED BY <1>1, IInvHolds, PTL DEF Spec, ListStable

-----------------------------------------------------------------------------
(* The calls of the listener. *)

\* The number of calls before the appenders of a definition are added, and of all.
Base(d) == IF d.format = NoFormat THEN 2 ELSE 3
Total(w) == IF w.defines = {} THEN 2
            ELSE Base(Item(w.defines)) + Len(Item(w.defines).appenders)

\* What is left of a change is part of it, and the next call is one there is.
WorkOK(r) ==
  LET w == todo[r] IN
  /\ loading[r] = Null => w = NoWork
  /\ loading[r] # Null =>
       /\ w.defines \subseteq loading[r]
       /\ w.removed \subseteq NamesOf(m_val) \ NamesOf(loading[r])
  /\ w.step <= Total(w)
  /\ w.log \/ (w.defines = {} /\ w.removed = {}) => w.step = 1

LInv == TypeOK /\ \A r \in Reloaders : WorkOK(r)

\* What the sequence of calls for a definition consists of.
Four(a, m, b, s) == <<a>> \o m \o <<b>> \o s

LEMMA ConcatOfFour ==
  ASSUME NEW S, NEW a \in S, NEW b \in S, NEW m \in Seq(S), NEW s \in Seq(S)
  PROVE  LET all == Four(a, m, b, s) IN
         /\ Len(all) = Len(m) + 2 + Len(s)
         /\ all[1] = a
         /\ \A i \in 1 .. Len(m) : all[i + 1] = m[i]
         /\ all[Len(m) + 2] = b
         /\ \A i \in 1 .. Len(s) : all[Len(m) + 2 + i] = s[i]
<1> DEFINE u == <<a>> \o m
           v == u \o <<b>>
           all == v \o s
<1>1. /\ <<a>> \in Seq(S) /\ Len(<<a>>) = 1 /\ <<a>>[1] = a
      /\ <<b>> \in Seq(S) /\ Len(<<b>>) = 1 /\ <<b>>[1] = b
      /\ Len(m) \in Nat /\ Len(s) \in Nat
  BY LenProperties
<1>2. /\ u \in Seq(S)
      /\ Len(u) = Len(m) + 1
      /\ \A i \in 1 .. Len(m) + 1 : u[i] = IF i <= 1 THEN a ELSE m[i - 1]
  <2> HIDE DEF u
  <2>1. /\ u \in Seq(S)
        /\ Len(u) = Len(<<a>>) + Len(m)
        /\ \A i \in 1 .. Len(<<a>>) + Len(m) : u[i] =
             IF i <= Len(<<a>>) THEN <<a>>[i] ELSE m[i - Len(<<a>>)]
    BY <1>1, ConcatProperties DEF u
  <2> QED BY <1>1, <2>1
<1>3. /\ v \in Seq(S)
      /\ Len(v) = Len(m) + 2
      /\ \A i \in 1 .. Len(m) + 2 : v[i] = IF i <= Len(m) + 1 THEN u[i] ELSE b
  <2> HIDE DEF u, v
  <2>1. /\ v \in Seq(S)
        /\ Len(v) = Len(u) + Len(<<b>>)
        /\ \A i \in 1 .. Len(u) + Len(<<b>>) : v[i] =
             IF i <= Len(u) THEN u[i] ELSE <<b>>[i - Len(u)]
    BY <1>1, <1>2, ConcatProperties DEF v
  <2> QED BY <1>1, <1>2, <2>1
<1>4. /\ Len(all) = Len(m) + 2 + Len(s)
      /\ \A i \in 1 .. Len(m) + 2 + Len(s) : all[i] =
           IF i <= Len(m) + 2 THEN v[i] ELSE s[i - (Len(m) + 2)]
  <2> HIDE DEF v, all
  <2>1. /\ Len(all) = Len(v) + Len(s)
        /\ \A i \in 1 .. Len(v) + Len(s) : all[i] =
             IF i <= Len(v) THEN v[i] ELSE s[i - Len(v)]
    BY <1>1, <1>3, ConcatProperties DEF all
  <2> QED BY <1>3, <2>1
<1> HIDE DEF u, v, all, Four
<1>5. \A i \in 1 .. Len(m) + 2 : all[i] = v[i]
  BY <1>1, <1>4
<1>6. \A i \in 1 .. Len(m) + 1 : all[i] = u[i]
  BY <1>1, <1>3, <1>5
<1>7. all[1] = a
  BY <1>1, <1>2, <1>6
<1>8. \A i \in 1 .. Len(m) : all[i + 1] = m[i]
  <2> TAKE i \in 1 .. Len(m)
  <2>1. i + 1 \in 1 .. Len(m) + 1 /\ ~(i + 1 <= 1) /\ i + 1 - 1 = i
    BY <1>1
  <2> QED BY <1>2, <1>6, <2>1
<1>9. all[Len(m) + 2] = b
  BY <1>1, <1>3, <1>5
<1>10. \A i \in 1 .. Len(s) : all[Len(m) + 2 + i] = s[i]
  <2> TAKE i \in 1 .. Len(s)
  <2> DEFINE n == Len(m) + 2
  <2>1. n + i \in 1 .. n + Len(s) /\ ~(n + i <= n) /\ n + i - n = i
    BY <1>1
  <2> QED BY <1>4, <2>1
<1>11. Len(all) = Len(m) + 2 + Len(s)
  BY <1>4
<1> QED BY <1>7, <1>8, <1>9, <1>10, <1>11 DEF u, v, all, Four

\* The logger that the calls for d are made on.
Target(old, d) == IF d \in old THEN Null ELSE d.name

LEMMA DefineCalls ==
  ASSUME NEW old, NEW d \in LogDefine
  PROVE  LET calls == ForDefine(old, d)
             l == Target(old, d)
         IN
         /\ Len(calls) = Base(d) + Len(d.appenders)
         /\ calls[1] = SetLevelOp(l, d.level)
         /\ d.format # NoFormat => calls[2] = SetFormatOp(l, d.format)
         /\ calls[Base(d)] = ClearOp(l)
         /\ \A i \in 1 .. Len(d.appenders) : calls[Base(d) + i] = AddOp(l, d.appenders[i])
<1> DEFINE l == Target(old, d)
           a == SetLevelOp(l, d.level)
           b == ClearOp(l)
           f == SetFormatOp(l, d.format)
           m == IF d.format # NoFormat THEN <<f>> ELSE <<>>
           s == [i \in DOMAIN d.appenders |-> AddOp(l, d.appenders[i])]
           S == {a, b, f} \cup {AddOp(l, e) : e \in AppenderDefine}
<1>1. d.appenders \in Seq(AppenderDefine)
  BY DEF LogDefine
<1>2. /\ s \in Seq(S)
      /\ Len(s) = Len(d.appenders)
      /\ \A i \in 1 .. Len(d.appenders) : s[i] = AddOp(l, d.appenders[i])
  <2>1. /\ DOMAIN d.appenders = 1 .. Len(d.appenders)
        /\ Len(d.appenders) \in Nat
        /\ \A i \in 1 .. Len(d.appenders) : d.appenders[i] \in AppenderDefine
    BY <1>1, LenProperties, ElementOfSeq
  <2>2. \A i \in 1 .. Len(d.appenders) : AddOp(l, d.appenders[i]) \in S
    BY <2>1
  <2>3. s = [i \in 1 .. Len(d.appenders) |-> AddOp(l, d.appenders[i])]
    BY <2>1
  <2> HIDE DEF S, l
  <2> QED BY <2>1, <2>2, <2>3
<1>3. a \in S /\ b \in S /\ f \in S
  OBVIOUS
<1>4. ForDefine(old, d) = Four(a, m, b, s)
  BY DEF ForDefine, Target, Four
<1> HIDE DEF a, b, f, s, S
<1>5. m \in Seq(S) /\ Len(m) + 2 = Base(d) /\ (d.format # NoFormat => m[1] = f /\ Len(m) = 1)
  BY <1>3 DEF Base
<1> HIDE DEF m
<1>6. Len(m) \in Nat
  BY <1>5, LenProperties
<1>7. /\ Len(ForDefine(old, d)) = Len(m) + 2 + Len(s)
      /\ ForDefine(old, d)[1] = a
      /\ \A i \in 1 .. Len(m) : ForDefine(old, d)[i + 1] = m[i]
      /\ ForDefine(old, d)[Len(m) + 2] = b
      /\ \A i \in 1 .. Len(s) : ForDefine(old, d)[Len(m) + 2 + i] = s[i]
  <2> DEFINE all == Four(a, m, b, s)
  <2>1. s \in Seq(S)
    BY <1>2
  <2>2. m \in Seq(S)
    BY <1>5
  <2>3. Len(all) = Len(m) + 2 + Len(s)
    BY <2>1, <2>2, <1>3, ConcatOfFour
  <2>4. all[1] = a
    BY <2>1, <2>2, <1>3, ConcatOfFour
  <2>5. \A i \in 1 .. Len(m) : all[i + 1] = m[i]
    BY <2>1, <2>2, <1>3, ConcatOfFour
  <2>6. all[Len(m) + 2] = b
    BY <2>1, <2>2, <1>3, ConcatOfFour
  <2>7. \A i \in 1 .. Len(s) : all[Len(m) + 2 + i] = s[i]
    BY <2>1, <2>2, <1>3, ConcatOfFour
  <2> QED BY <1>4, <2>3, <2>4, <2>5, <2>6, <2>7
<1>8. Len(ForDefine(old, d)) = Base(d) + Len(d.appenders)
  BY <1>2, <1>5, <1>7
<1>9. ASSUME d.format # NoFormat
      PROVE  ForDefine(old, d)[2] = f
  <2>1. m[1] = f /\ Len(m) = 1
    BY <1>5, <1>9
  <2>2. 1 \in 1 .. Len(m) /\ 1 + 1 = 2
    BY <2>1
  <2> QED BY <1>7, <2>1, <2>2
<1>10. \A i \in 1 .. Len(d.appenders) :
         ForDefine(old, d)[Base(d) + i] = AddOp(l, d.appenders[i])
  BY <1>2, <1>5, <1>7
<1>11. ForDefine(old, d)[1] = a /\ ForDefine(old, d)[Base(d)] = b
  BY <1>5, <1>7
<1> QED BY <1>8, <1>9, <1>10, <1>11 DEF a, b, f

\* The next call for the definition d, when it is the n-th.
DefineStep(d, n) ==
  \/ n = 1 /\ SetLevel(d.name, d.level)
  \/ n = 2 /\ d.format # NoFormat /\ SetFormatter(d.name, d.format)
  \/ n = Base(d) /\ ClearAppender(d.name)
  \/ \E i \in 1 .. Len(d.appenders) : n = Base(d) + i /\ AddAppender(d.name, d.appenders[i])

\* The call that thread r makes is for the definition d.
DefineCall(r, d) ==
  LET w == todo[r] IN
  /\ d \in w.defines /\ d = Item(w.defines)
  /\ todo' = [todo EXCEPT ![r] =
       IF w.step < Base(d) + Len(d.appenders) THEN [w EXCEPT !.step = @ + 1]
       ELSE [w EXCEPT !.defines = @ \ {d}, !.step = 1]]
  /\ \/ d \in m_val /\ failed' = "new_logger" /\ UNCHANGED loggerVars
     \/ d \notin m_val /\ UNCHANGED failed /\ DefineStep(d, w.step)

\* It is for the name l.
RemovedCall(r, l) ==
  LET w == todo[r] IN
  /\ w.defines = {} /\ l \in w.removed /\ l = Item(w.removed)
  /\ UNCHANGED failed
  /\ \/ /\ w.step = 1
        /\ SetLevel(l, SILENT)
        /\ todo' = [todo EXCEPT ![r].step = 2]
     \/ /\ w.step = 2
        /\ ClearAppender(l)
        /\ todo' = [todo EXCEPT ![r] = [w EXCEPT !.removed = @ \ {l}, !.step = 1]]

LEMMA ItemIsOne ==
  ASSUME NEW S, S # {}
  PROVE  Item(S) \in S
BY DEF Item

LEMMA RecordOps ==
  ASSUME NEW l, NEW l2, NEW x, NEW y
  PROVE  /\ SetLevelOp(l, x).op = "setLevel" /\ SetLevelOp(l, x).logger = l
         /\ SetLevelOp(l, x).level = x
         /\ SetFormatOp(l, x).op = "setFormatter" /\ SetFormatOp(l, x).logger = l
         /\ SetFormatOp(l, x).format = x
         /\ ClearOp(l).op = "clearAppender" /\ ClearOp(l).logger = l
         /\ AddOp(l, x).op = "addAppender" /\ AddOp(l, x).logger = l
         /\ AddOp(l, x).appender = x
BY DEF SetLevelOp, SetFormatOp, ClearOp, AddOp

LEMMA CallForDefine ==
  ASSUME LInv, NEW r \in Reloaders, ListenerCall(r), todo[r].defines # {}
  PROVE  \E d \in Defines : DefineCall(r, d)
<1> DEFINE w == todo[r]
           d == Item(w.defines)
           c == Calls(r)[w.step]
           n == w.step
<1>1. /\ w.defines \subseteq Defines
      /\ n \in Nat \ {0}
      /\ n <= Total(w)
  BY DEF LInv, TypeOK, WorkOK
<1>2. d \in w.defines /\ d \in Defines /\ d \in LogDefine
  BY <1>1, ItemIsOne, LoggingAssumption
<1>3. /\ d.name \in Loggers /\ d.name # Null
      /\ d.appenders \in Seq(AppenderDefine)
      /\ Len(d.appenders) \in Nat
  <2>1. d.name \in Loggers /\ d.appenders \in Seq(AppenderDefine)
    BY <1>2 DEF LogDefine
  <2> QED BY <2>1, LenProperties, LoggingAssumption
<1>4. Calls(r) = ForDefine(m_val, d) /\ n <= Base(d) + Len(d.appenders)
  BY <1>1 DEF Calls, Total
<1> DEFINE l == Target(m_val, d)
<1>5. /\ Len(Calls(r)) = Base(d) + Len(d.appenders)
      /\ Calls(r)[1] = SetLevelOp(l, d.level)
      /\ d.format # NoFormat => Calls(r)[2] = SetFormatOp(l, d.format)
      /\ Calls(r)[Base(d)] = ClearOp(l)
      /\ \A i \in 1 .. Len(d.appenders) : Calls(r)[Base(d) + i] = AddOp(l, d.appenders[i])
  BY <1>2, <1>4, DefineCalls
<1>6. todo' = [todo EXCEPT ![r] =
        IF w.step < Base(d) + Len(d.appenders) THEN [w EXCEPT !.step = @ + 1]
        ELSE [w EXCEPT !.defines = @ \ {d}, !.step = 1]]
  BY <1>5 DEF ListenerCall, Rest
<1>7. \/ n = 1
      \/ n = 2 /\ d.format # NoFormat
      \/ n = Base(d)
      \/ \E i \in 1 .. Len(d.appenders) : n = Base(d) + i
  <2>1. Base(d) \in Nat /\ n \in Nat
    BY <1>1 DEF Base
  <2>2. CASE n <= Base(d)
    BY <1>1, <2>2 DEF Base
  <2>3. CASE n > Base(d)
    <3> HIDE DEF d, n
    <3>1. n - Base(d) \in 1 .. Len(d.appenders) /\ n = Base(d) + (n - Base(d))
      BY <1>3, <1>4, <2>1, <2>3
    <3> QED BY <3>1
  <2> QED BY <2>1, <2>2, <2>3
<1>8. /\ c.logger = l
      /\ \/ n = 1 /\ c.op = "setLevel" /\ c.level = d.level
         \/ n = 2 /\ d.format # NoFormat /\ c.op = "setFormatter" /\ c.format = d.format
         \/ n = Base(d) /\ c.op = "clearAppender"
         \/ \E i \in 1 .. Len(d.appenders) : /\ n = Base(d) + i
                                            /\ c.op = "addAppender"
                                            /\ c.appender = d.appenders[i]
  BY <1>5, <1>7, RecordOps
<1>9. \/ c.logger = Null /\ failed' = "new_logger" /\ UNCHANGED loggerVars
      \/ /\ c.logger # Null /\ UNCHANGED failed
         /\ \/ c.op = "setLevel" /\ SetLevel(c.logger, c.level)
            \/ c.op = "setFormatter" /\ SetFormatter(c.logger, c.format)
            \/ c.op = "clearAppender" /\ ClearAppender(c.logger)
            \/ c.op = "addAppender" /\ AddAppender(c.logger, c.appender)
  BY DEF ListenerCall, Fail
<1> HIDE DEF c, d, n, l
<1>10. CASE d \in m_val
  <2>1. failed' = "new_logger" /\ UNCHANGED loggerVars
    BY <1>8, <1>9, <1>10 DEF Target, l
  <2> QED BY <1>2, <1>6, <1>10, <2>1 DEF DefineCall, d
<1>11. CASE d \notin m_val
  <2>1. c.logger = d.name
    BY <1>8, <1>11 DEF Target, l
  <2>2. UNCHANGED failed /\ DefineStep(d, n)
    BY <1>3, <1>8, <1>9, <2>1 DEF DefineStep
  <2> QED BY <1>2, <1>6, <1>11, <2>2 DEF DefineCall, d, n
<1> QED BY <1>10, <1>11

LEMMA CallForRemoved ==
  ASSUME LInv, NEW r \in Reloaders, ListenerCall(r), todo[r].defines = {}
  PROVE  \E l \in Loggers : RemovedCall(r, l)
<1> DEFINE w == todo[r]
           l == Item(w.removed)
           c == Calls(r)[w.step]
<1>1. w.step \in {1, 2} /\ w.removed \subseteq Loggers
  <2>1. w.step \in Nat \ {0} /\ w.removed \subseteq Loggers
    BY DEF LInv, TypeOK
  <2>2. w.step <= 2
    BY DEF LInv, WorkOK, Total
  <2> QED BY <2>1, <2>2
<1>2. l \in w.removed /\ l \in Loggers /\ l # Null
  BY <1>1, ItemIsOne, LoggingAssumption DEF ListenerCall
<1>3. /\ Calls(r) = <<SetLevelOp(l, SILENT), ClearOp(l)>>
      /\ Len(Calls(r)) = 2
      /\ Calls(r)[1] = SetLevelOp(l, SILENT)
      /\ Calls(r)[2] = ClearOp(l)
  <2>1. Calls(r) = <<SetLevelOp(l, SILENT), ClearOp(l)>>
    BY DEF Calls, ForRemoved
  <2> QED BY <2>1
<1>4. todo' = [todo EXCEPT ![r] =
        IF w.step < 2 THEN [w EXCEPT !.step = @ + 1]
        ELSE [w EXCEPT !.removed = @ \ {l}, !.step = 1]]
  BY <1>3 DEF ListenerCall, Rest
<1>5. \/ c.logger = Null /\ failed' = "new_logger" /\ UNCHANGED loggerVars
      \/ /\ c.logger # Null /\ UNCHANGED failed
         /\ \/ c.op = "setLevel" /\ SetLevel(c.logger, c.level)
            \/ c.op = "setFormatter" /\ SetFormatter(c.logger, c.format)
            \/ c.op = "clearAppender" /\ ClearAppender(c.logger)
            \/ c.op = "addAppender" /\ AddAppender(c.logger, c.appender)
  BY DEF ListenerCall, Fail
<1>6. /\ c.logger = l
      /\ \/ w.step = 1 /\ c.op = "setLevel" /\ c.level = SILENT
         \/ w.step = 2 /\ c.op = "clearAppender"
  BY <1>1, <1>3, RecordOps
<1>7. /\ UNCHANGED failed
      /\ \/ w.step = 1 /\ SetLevel(l, SILENT)
         \/ w.step = 2 /\ ClearAppender(l)
  <2> HIDE DEF c, l, w
  <2> QED BY <1>2, <1>5, <1>6
<1>8. CASE w.step = 1
  <2>1. todo' = [todo EXCEPT ![r].step = 2]
    BY <1>4, <1>8
  <2> QED BY <1>2, <1>7, <1>8, <2>1 DEF RemovedCall
<1>9. CASE w.step = 2
  <2>1. ~(w.step < 2)
    BY <1>9
  <2>2. todo' = [todo EXCEPT ![r] = [w EXCEPT !.removed = @ \ {l}, !.step = 1]]
    BY <1>4, <2>1
  <2>3. UNCHANGED failed /\ ClearAppender(l)
    BY <1>7, <1>9
  <2>4. RemovedCall(r, l)
    BY <1>2, <1>9, <2>2, <2>3 DEF RemovedCall
  <2> QED BY <1>2, <2>4
<1> QED BY <1>1, <1>8, <1>9

-----------------------------------------------------------------------------
(* The variables have their types, and the work of a listener is bounded.    *)

LoggerTypes ==
  /\ m_level \in [Loggers -> Level \cup {SILENT}]
  /\ m_formatter \in [Loggers -> Formatter]
  /\ m_appenders \in [Loggers -> Seq(Appender)]
  /\ m_mutex \in [Loggers -> Threads \cup {Null}]

\* The appenders s after setFormatter(f).
Reformat(s, f) ==
  [i \in DOMAIN s |-> IF s[i].hasFormatter THEN s[i] ELSE [s[i] EXCEPT !.formatter = f]]

LEMMA ReformatList ==
  ASSUME NEW s \in Seq(Appender), NEW f \in Formats
  PROVE  /\ Reformat(s, f) \in Seq(Appender)
         /\ Len(Reformat(s, f)) = Len(s)
         /\ \A i \in 1 .. Len(s) :
              /\ s[i] \in Appender
              /\ Reformat(s, f)[i].level = s[i].level
              /\ Reformat(s, f)[i].hasFormatter = s[i].hasFormatter
              /\ Reformat(s, f)[i].formatter = IF s[i].hasFormatter THEN s[i].formatter ELSE f
<1> DEFINE e(i) == IF s[i].hasFormatter THEN s[i] ELSE [s[i] EXCEPT !.formatter = f]
<1>1. DOMAIN s = 1 .. Len(s) /\ Len(s) \in Nat /\ \A i \in 1 .. Len(s) : s[i] \in Appender
  BY LenProperties, ElementOfSeq
<1>2. \A i \in 1 .. Len(s) : /\ e(i) \in Appender
                            /\ e(i).level = s[i].level
                            /\ e(i).hasFormatter = s[i].hasFormatter
                            /\ e(i).formatter = IF s[i].hasFormatter THEN s[i].formatter ELSE f
  BY <1>1 DEF Appender, Formatter
<1>3. Reformat(s, f) = [i \in 1 .. Len(s) |-> e(i)]
  BY <1>1 DEF Reformat
<1> HIDE DEF e
<1>4. Reformat(s, f) \in Seq(Appender) /\ Len(Reformat(s, f)) = Len(s)
  BY <1>1, <1>2, <1>3
<1>5. \A i \in 1 .. Len(s) : Reformat(s, f)[i] = e(i)
  BY <1>3
<1> QED BY <1>1, <1>2, <1>4, <1>5

\* An appender is as its definition says.
Fits(a, e) ==
  /\ a.level = e.level
  /\ a.hasFormatter <=> e.format \in Formats
  /\ a.hasFormatter => a.formatter = e.format

LEMMA NewAppenderFits ==
  ASSUME LoggerTypes, NEW l \in Loggers, NEW e \in AppenderDefine
  PROVE  /\ NewAppender(l, e) \in Appender
         /\ Fits(NewAppender(l, e), e)
         /\ NewAppender(l, e).formatter \in Formatter
         /\ ~NewAppender(l, e).hasFormatter => NewAppender(l, e).formatter = m_formatter[l]
<1>1. m_formatter[l] \in Formatter
  BY DEF LoggerTypes
<1> DEFINE a == NewAppender(l, e)
           own == e.format \in Formats
<1>2. a = [level |-> e.level, formatter |-> IF own THEN e.format ELSE m_formatter[l],
           hasFormatter |-> own]
  BY DEF NewAppender
<1>3. e.level \in Level /\ own \in BOOLEAN
  BY DEF AppenderDefine
<1>4. (IF own THEN e.format ELSE m_formatter[l]) \in Formatter
  BY <1>1 DEF Formatter
<1> HIDE DEF own
<1>5. /\ a.level = e.level /\ a.hasFormatter = own
      /\ a.formatter = IF own THEN e.format ELSE m_formatter[l]
  BY <1>2
<1>6. a \in Appender
  BY <1>2, <1>3, <1>4 DEF Appender
<1> HIDE DEF a
<1>7. Fits(a, e)
  BY <1>5 DEF Fits, own
<1>8. a.formatter \in Formatter /\ (~a.hasFormatter => a.formatter = m_formatter[l])
  BY <1>3, <1>4, <1>5
<1> QED BY <1>6, <1>7, <1>8 DEF a

LEMMA ChangeTypes ==
  ASSUME LoggerTypes, NEW l \in Loggers,
         \/ \E v \in Level \cup {SILENT} : SetLevel(l, v)
         \/ \E f : SetFormatter(l, f)
         \/ ClearAppender(l)
         \/ \E e \in AppenderDefine : AddAppender(l, e)
  PROVE  LoggerTypes'
<1>1. ASSUME NEW v \in Level \cup {SILENT}, SetLevel(l, v)
      PROVE  LoggerTypes'
  BY <1>1 DEF SetLevel, LoggerTypes
<1>2. ASSUME NEW f, SetFormatter(l, f)
      PROVE  LoggerTypes'
  <2>1. CASE UNCHANGED loggerVars
    BY <2>1 DEF loggerVars, LoggerTypes
  <2>2. CASE /\ f \in Formats
             /\ m_formatter' = [m_formatter EXCEPT ![l] = f]
             /\ m_appenders' = [m_appenders EXCEPT ![l] = Reformat(m_appenders[l], f)]
             /\ UNCHANGED <<m_level, m_mutex>>
    <3>1. Reformat(m_appenders[l], f) \in Seq(Appender)
      BY <2>2, ReformatList DEF LoggerTypes
    <3> QED BY <2>2, <3>1 DEF LoggerTypes, Formatter
  <2> QED BY <1>2, <2>1, <2>2 DEF SetFormatter, Reformat
<1>3. CASE ClearAppender(l)
  <2>1. <<>> \in Seq(Appender)
    BY EmptySeq
  <2> QED BY <1>3, <2>1 DEF ClearAppender, LoggerTypes
<1>4. ASSUME NEW e \in AppenderDefine, AddAppender(l, e)
      PROVE  LoggerTypes'
  <2>1. Append(m_appenders[l], NewAppender(l, e)) \in Seq(Appender)
    BY NewAppenderFits, AppendProperties DEF LoggerTypes
  <2> QED BY <1>4, <2>1 DEF AddAppender, LoggerTypes
<1> QED BY <1>1, <1>2, <1>3, <1>4

\* The variables of the configuration, and those of the calls in progress.
ConfigTypes ==
  /\ m_val \in Configs
  /\ loading \in [Reloaders -> Configs \cup {Null}]
  /\ todo \in [Reloaders -> [log : BOOLEAN, defines : SUBSET Defines,
                            removed : SUBSET Loggers, step : Nat \ {0}]]
  /\ base \in [Reloaders -> Configs]
  /\ tended \subseteq Loggers
  /\ configured \subseteq Loggers

ThreadTypes ==
  /\ pc \in [Threads -> {"idle", "check", "lock", "write", "unlock"}]
  /\ message \in [Threads -> [logger : Loggers, level : Level]]
  /\ current \in [Threads -> Loggers]
  /\ next \in [Threads -> Nat \ {0}]

LEMMA TypeParts ==
  TypeOK <=> /\ LoggerTypes /\ ConfigTypes /\ ThreadTypes
             /\ failed \in {"none", "m_root", "m_formatter", "new_logger"}
BY DEF TypeOK, LoggerTypes, ConfigTypes, ThreadTypes

LEMMA TotalIsSome ==
  ASSUME NEW w, w.defines \subseteq Defines
  PROVE  Total(w) \in Nat /\ Total(w) >= 2
<1>1. CASE w.defines = {}
  BY <1>1 DEF Total
<1>2. CASE w.defines # {}
  <2> DEFINE d == Item(w.defines)
  <2>1. d \in LogDefine
    BY <1>2, ItemIsOne, LoggingAssumption
  <2>2. Len(d.appenders) \in Nat
    BY <2>1, LenProperties DEF LogDefine
  <2> HIDE DEF d
  <2>3. Total(w) = Base(d) + Len(d.appenders)
    BY <1>2 DEF Total, d
  <2>4. Base(d) \in {2, 3}
    BY DEF Base
  <2> QED BY <2>2, <2>3, <2>4
<1> QED BY <1>1, <1>2

LEMMA InitLInv == Init => LInv
<1> SUFFICES ASSUME Init PROVE LInv
  OBVIOUS
<1> DEFINE first == [level |-> 0, formatter |-> DefaultFormat, hasFormatter |-> FALSE]
<1>1. LoggerTypes
  <2>1. first \in Appender
    BY DEF Appender, Level, Formatter
  <2> HIDE DEF first
  <2>2. <<first>> \in Seq(Appender) /\ <<>> \in Seq(Appender)
    BY <2>1
  <2>3. m_appenders = [l \in Loggers |-> IF l = Root THEN <<first>> ELSE <<>>]
    BY DEF Init, first
  <2>4. m_appenders \in [Loggers -> Seq(Appender)]
    BY <2>2, <2>3
  <2>5. m_level \in [Loggers -> Level \cup {SILENT}]
    BY DEF Init, Level
  <2>6. m_formatter \in [Loggers -> Formatter] /\ m_mutex \in [Loggers -> Threads \cup {Null}]
    BY DEF Init, Formatter
  <2> QED BY <2>4, <2>5, <2>6 DEF LoggerTypes
<1>2. ConfigTypes /\ \A r \in Reloaders : WorkOK(r)
  <2>1. \A r \in Reloaders : loading[r] = Null /\ todo[r] = NoWork
    BY DEF Init
  <2>2. Total(NoWork) = 2 /\ NoWork.step = 1
    BY DEF NoWork, Total
  <2> QED BY <2>1, <2>2 DEF Init, ConfigTypes, WorkOK, Configs, NoWork
<1>3. ThreadTypes
  BY DEF Init, ThreadTypes, NoMessage, Threads, Loggers, Level
<1> QED BY <1>1, <1>2, <1>3, TypeParts DEF LInv, Init

\* The steps of log() change neither the loggers nor the configuration.
LEMMA LogMacroTypes ==
  ASSUME ThreadTypes, NEW t \in Threads, NEW l \in Loggers, NEW v \in Level,
         LogMacro(t, l, v)
  PROVE  ThreadTypes'
BY DEF ThreadTypes, LogMacro, Goto

LEMMA LogStepTypes ==
  ASSUME LInv, NEW t \in Threads, LogStep(t)
  PROVE  LInv'
<1>1. UNCHANGED <<m_level, m_formatter, m_appenders, configVars>>
  BY DEF LogStep, LevelCheck, LockLogger, Write, Unlock, loggerVars
<1>2. LoggerTypes /\ ConfigTypes /\ ThreadTypes /\ \A r \in Reloaders : WorkOK(r)
  BY TypeParts DEF LInv
<1>3. m_mutex' \in [Loggers -> Threads \cup {Null}]
  BY <1>2 DEF LogStep, LevelCheck, LockLogger, Write, Unlock, loggerVars, LoggerTypes
<1>4. ThreadTypes'
  <2>1. CASE LevelCheck(t) \/ Unlock(t)
    <3>1. UNCHANGED next
      BY <2>1 DEF LevelCheck, Unlock
    <3>2. message[t].logger \in Loggers
      BY <1>2 DEF ThreadTypes
    <3>3. \/ UNCHANGED <<message, current>>
          \/ UNCHANGED message /\ current' = [current EXCEPT ![t] = message[t].logger]
          \/ /\ message' = [message EXCEPT ![t] = NoMessage]
             /\ current' = [current EXCEPT ![t] = Root]
      BY <2>1 DEF LevelCheck, Unlock, Return, Leave
    <3>4. \E label \in {"idle", "lock", "unlock"} : pc' = [pc EXCEPT ![t] = label]
      BY <2>1 DEF LevelCheck, Unlock, Return, Leave, Goto
    <3>5. NoMessage \in [logger : Loggers, level : Level] /\ Root \in Loggers
      BY DEF NoMessage, Loggers, Level
    <3> QED BY <1>2, <3>1, <3>2, <3>3, <3>4, <3>5 DEF ThreadTypes
  <2>2. CASE LockLogger(t)
    <3>1. UNCHANGED message
      BY <2>2 DEF LockLogger
    <3>2. \/ UNCHANGED current
          \/ /\ current' = [current EXCEPT ![t] = m_root(current[t])]
             /\ m_root(current[t]) # Null
      BY <2>2 DEF LockLogger
    <3>3. m_root(current[t]) # Null => m_root(current[t]) \in Loggers
      BY DEF m_root, Loggers
    <3>4. UNCHANGED pc \/ \E label \in {"write", "check"} : pc' = [pc EXCEPT ![t] = label]
      BY <2>2 DEF LockLogger, Goto
    <3>5. UNCHANGED next \/ next' = [next EXCEPT ![t] = 1]
      BY <2>2 DEF LockLogger
    <3> QED BY <1>2, <3>1, <3>2, <3>3, <3>4, <3>5 DEF ThreadTypes
  <2>3. CASE Write(t)
    <3>1. UNCHANGED <<message, current>>
      BY <2>3 DEF Write
    <3>2. UNCHANGED pc \/ pc' = [pc EXCEPT ![t] = "unlock"]
      BY <2>3 DEF Write, Goto
    <3>3. \/ UNCHANGED next
          \/ next' = [next EXCEPT ![t] = @ + 1] \/ next' = [next EXCEPT ![t] = 1]
      BY <2>3 DEF Write
    <3> QED BY <1>2, <3>1, <3>2, <3>3 DEF ThreadTypes
  <2> QED BY <2>1, <2>2, <2>3 DEF LogStep
<1>5. failed' \in {"none", "m_root", "m_formatter", "new_logger"}
  BY DEF LInv, TypeOK, LogStep, LevelCheck, LockLogger, Write, Unlock, Fail
<1>6. LoggerTypes' /\ ConfigTypes' /\ \A r \in Reloaders : WorkOK(r)'
  BY <1>1, <1>2, <1>3 DEF LoggerTypes, ConfigTypes, configVars, historyVars, WorkOK
<1> QED BY <1>4, <1>5, <1>6 DEF LInv, TypeOK, LoggerTypes, ConfigTypes, ThreadTypes

WorkRecord == [log : BOOLEAN, defines : SUBSET Defines, removed : SUBSET Loggers,
               step : Nat \ {0}]

\* Less work is left of the same change.
LEMMA LessWork ==
  ASSUME LInv, NEW r \in Reloaders, NEW w2 \in WorkRecord,
         todo' = [todo EXCEPT ![r] = w2], UNCHANGED <<m_val, loading, historyVars>>,
         todo[r] # NoWork,
         w2.defines \subseteq todo[r].defines, w2.removed \subseteq todo[r].removed,
         w2.step <= Total(w2),
         w2.log \/ (w2.defines = {} /\ w2.removed = {}) => w2.step = 1
  PROVE  ConfigTypes' /\ \A q \in Reloaders : WorkOK(q)'
<1>1. ConfigTypes /\ \A q \in Reloaders : WorkOK(q)
  BY TypeParts DEF LInv
<1>2. todo' \in [Reloaders -> WorkRecord] /\ todo'[r] = w2
  BY <1>1 DEF ConfigTypes, WorkRecord
<1>3. ConfigTypes'
  BY <1>1, <1>2 DEF ConfigTypes, historyVars, WorkRecord
<1>4. WorkOK(r)'
  BY <1>1, <1>2 DEF WorkOK
<1>5. ASSUME NEW q \in Reloaders, q # r
      PROVE  WorkOK(q)'
  <2>1. todo'[q] = todo[q]
    BY <1>1, <1>5 DEF ConfigTypes
  <2> QED BY <1>1, <2>1 DEF WorkOK
<1> QED BY <1>3, <1>4, <1>5

LEMMA StepTo ==
  ASSUME NEW w \in WorkRecord, NEW n \in Nat \ {0}, NEW v, v = [w EXCEPT !.step = n]
  PROVE  /\ v \in WorkRecord
         /\ v.step = n /\ v.log = w.log /\ v.defines = w.defines /\ v.removed = w.removed
BY DEF WorkRecord

LEMMA DoneDefine ==
  ASSUME NEW w \in WorkRecord, NEW x, NEW v, v = [w EXCEPT !.defines = @ \ {x}, !.step = 1]
  PROVE  /\ v \in WorkRecord
         /\ v.step = 1 /\ v.log = w.log /\ v.defines = w.defines \ {x} /\ v.removed = w.removed
<1>1. /\ w.log \in BOOLEAN /\ w.step \in Nat \ {0}
      /\ w.defines \in SUBSET Defines /\ w.removed \in SUBSET Loggers
      /\ w = [log |-> w.log, defines |-> w.defines, removed |-> w.removed, step |-> w.step]
  BY DEF WorkRecord
<1>2. v = [log |-> w.log, defines |-> w.defines \ {x},
           removed |-> w.removed, step |-> 1]
  BY <1>1
<1> QED BY <1>1, <1>2 DEF WorkRecord

LEMMA DoneRemoved ==
  ASSUME NEW w \in WorkRecord, NEW x, NEW v, v = [w EXCEPT !.removed = @ \ {x}, !.step = 1]
  PROVE  /\ v \in WorkRecord
         /\ v.step = 1 /\ v.log = w.log /\ v.removed = w.removed \ {x} /\ v.defines = w.defines
<1>1. /\ w.log \in BOOLEAN /\ w.step \in Nat \ {0}
      /\ w.defines \in SUBSET Defines /\ w.removed \in SUBSET Loggers
      /\ w = [log |-> w.log, defines |-> w.defines, removed |-> w.removed, step |-> w.step]
  BY DEF WorkRecord
<1>2. v = [log |-> w.log, defines |-> w.defines,
           removed |-> w.removed \ {x}, step |-> 1]
  BY <1>1
<1> QED BY <1>1, <1>2 DEF WorkRecord

LEMMA WorkHasCall ==
  ASSUME LInv, NEW r \in Reloaders, ListenerCall(r)
  PROVE  todo[r] # NoWork /\ ~todo[r].log /\ todo[r] \in WorkRecord
BY DEF LInv, TypeOK, ListenerCall, NoWork, WorkRecord

LEMMA DefineCallTypes ==
  ASSUME LInv, NEW r \in Reloaders, ListenerCall(r), NEW d \in Defines, DefineCall(r, d)
  PROVE  LInv'
<1> DEFINE w == todo[r]
           w2 == IF w.step < Base(d) + Len(d.appenders) THEN [w EXCEPT !.step = @ + 1]
                 ELSE [w EXCEPT !.defines = @ \ {d}, !.step = 1]
<1>1. /\ LoggerTypes /\ ThreadTypes
      /\ failed \in {"none", "m_root", "m_formatter", "new_logger"}
  BY TypeParts DEF LInv
<1>2. UNCHANGED <<m_val, loading, historyVars, callVars>> /\ todo' = [todo EXCEPT ![r] = w2]
  BY DEF ListenerCall, DefineCall
<1>3. w \in WorkRecord /\ w # NoWork /\ ~w.log
  BY WorkHasCall
<1>4. d.appenders \in Seq(AppenderDefine) /\ d.name \in Loggers /\ d.level \in Level
  BY LoggingAssumption DEF LogDefine
<1>5. Len(d.appenders) \in Nat /\ Base(d) \in Nat
  BY <1>4, LenProperties DEF Base
<1>6. w.defines # {} /\ d = Item(w.defines)
  BY DEF DefineCall
<1>7. /\ w2 \in WorkRecord
      /\ w2.defines \subseteq w.defines /\ w2.removed \subseteq w.removed
      /\ w2.step <= Total(w2)
      /\ w2.log \/ (w2.defines = {} /\ w2.removed = {}) => w2.step = 1
  <2>1. CASE w.step < Base(d) + Len(d.appenders)
    <3>1. w2 = [w EXCEPT !.step = @ + 1]
      BY <2>1
    <3>2. /\ w2.step = w.step + 1 /\ w2.defines = w.defines /\ w2.removed = w.removed
          /\ w2.log = w.log /\ w2 \in WorkRecord /\ w.step \in Nat
      <4> HIDE DEF w, w2
      <4>1. w.step + 1 \in Nat \ {0} /\ w.step \in Nat
        BY <1>3 DEF WorkRecord
      <4> QED BY <1>3, <3>1, <4>1, StepTo
    <3> HIDE DEF w, w2
    <3>3. Total(w2) = Base(d) + Len(d.appenders)
      BY <1>6, <3>2 DEF Total
    <3> QED BY <1>3, <1>5, <1>6, <2>1, <3>2, <3>3
  <2>2. CASE ~(w.step < Base(d) + Len(d.appenders))
    <3>1. w2 = [w EXCEPT !.defines = @ \ {d}, !.step = 1]
      BY <2>2
    <3> HIDE DEF w, w2
    <3>2. w2.step = 1 /\ w2.defines = w.defines \ {d} /\ w2.removed = w.removed
          /\ w2 \in WorkRecord
      BY <1>3, <3>1, DoneDefine
    <3>3. w2.defines \subseteq Defines
      BY <3>2 DEF WorkRecord
    <3>4. Total(w2) \in Nat /\ Total(w2) >= 2
      BY <3>3, TotalIsSome
    <3> QED BY <3>2, <3>4
  <2> QED BY <2>1, <2>2
<1> HIDE DEF w2
<1>8. ConfigTypes' /\ \A q \in Reloaders : WorkOK(q)'
  BY <1>2, <1>3, <1>7, LessWork
<1>9. LoggerTypes' /\ failed' \in {"none", "m_root", "m_formatter", "new_logger"}
  <2>1. \A i \in 1 .. Len(d.appenders) : d.appenders[i] \in AppenderDefine
    BY <1>4, ElementOfSeq
  <2>2. CASE UNCHANGED loggerVars
    BY <1>1, <2>2 DEF loggerVars, LoggerTypes, DefineCall
  <2>3. CASE DefineStep(d, w.step)
    <3>1. LoggerTypes'
      BY <1>1, <1>4, <2>1, <2>3, ChangeTypes DEF DefineStep
    <3> QED BY <1>1, <3>1 DEF DefineCall
  <2> QED BY <2>2, <2>3 DEF DefineCall
<1>10. ThreadTypes'
  BY <1>1, <1>2 DEF callVars, ThreadTypes
<1> QED BY <1>8, <1>9, <1>10 DEF LInv, TypeOK, LoggerTypes, ConfigTypes, ThreadTypes

LEMMA RemovedCallTypes ==
  ASSUME LInv, NEW r \in Reloaders, ListenerCall(r), NEW l \in Loggers, RemovedCall(r, l)
  PROVE  LInv'
<1> DEFINE w == todo[r]
<1>1. /\ LoggerTypes /\ ThreadTypes
      /\ failed \in {"none", "m_root", "m_formatter", "new_logger"}
  BY TypeParts DEF LInv
<1>2. UNCHANGED <<m_val, loading, historyVars, callVars>>
  BY DEF ListenerCall
<1>3. w \in WorkRecord /\ w # NoWork /\ ~w.log
  BY WorkHasCall
<1>4. ConfigTypes' /\ \A q \in Reloaders : WorkOK(q)'
  <2>1. CASE todo' = [todo EXCEPT ![r].step = 2]
    <3> DEFINE w2 == [w EXCEPT !.step = 2]
    <3>1. todo' = [todo EXCEPT ![r] = w2]
      BY <2>1
    <3>2. w2 \in WorkRecord /\ w2.step = 2 /\ w2.log = w.log
          /\ w2.removed = w.removed /\ w2.defines = w.defines
      BY <1>3 DEF WorkRecord
    <3> HIDE DEF w2
    <3>3. Total(w2) = 2 /\ w2.removed # {}
      BY <3>2 DEF RemovedCall, Total
    <3>4. w2.defines \subseteq w.defines /\ w2.removed \subseteq w.removed
          /\ w2.step <= Total(w2)
          /\ (w2.log \/ (w2.defines = {} /\ w2.removed = {}) => w2.step = 1)
      BY <1>3, <3>2, <3>3
    <3> QED BY <1>2, <1>3, <3>1, <3>2, <3>4, LessWork
  <2>2. CASE todo' = [todo EXCEPT ![r] = [w EXCEPT !.removed = @ \ {l}, !.step = 1]]
    <3> DEFINE w2 == [w EXCEPT !.removed = @ \ {l}, !.step = 1]
    <3>1. todo' = [todo EXCEPT ![r] = w2]
      BY <2>2
    <3>2. w2 \in WorkRecord /\ w2.step = 1 /\ w2.log = w.log
          /\ w2.removed = w.removed \ {l} /\ w2.defines = w.defines
      <4>1. w2 = [w EXCEPT !.removed = @ \ {l}, !.step = 1]
        OBVIOUS
      <4> HIDE DEF w, w2
      <4> QED BY <1>3, <4>1, DoneRemoved
    <3> HIDE DEF w2
    <3>3. Total(w2) = 2
      BY <3>2 DEF RemovedCall, Total
    <3>4. w2.defines \subseteq w.defines /\ w2.removed \subseteq w.removed
          /\ w2.step <= Total(w2)
          /\ (w2.log \/ (w2.defines = {} /\ w2.removed = {}) => w2.step = 1)
      BY <1>3, <3>2, <3>3
    <3> QED BY <1>2, <1>3, <3>1, <3>2, <3>4, LessWork
  <2> QED BY <2>1, <2>2 DEF RemovedCall
<1>5. LoggerTypes'
  BY <1>1, ChangeTypes DEF RemovedCall
<1>6. ThreadTypes'
  BY <1>1, <1>2 DEF callVars, ThreadTypes
<1>7. failed' \in {"none", "m_root", "m_formatter", "new_logger"}
  BY <1>1 DEF RemovedCall
<1> QED BY <1>4, <1>5, <1>6, <1>7 DEF LInv, TypeOK, LoggerTypes, ConfigTypes, ThreadTypes

\* A change begins: the value is a configuration, and the work is that for it.
LEMMA ReloadTypes ==
  ASSUME LInv, NEW r \in Reloaders, NEW new \in Configs, Reload(r, new)
  PROVE  LInv'
<1>1. /\ LoggerTypes /\ ConfigTypes /\ ThreadTypes
      /\ failed \in {"none", "m_root", "m_formatter", "new_logger"}
      /\ \A q \in Reloaders : WorkOK(q)
  BY TypeParts DEF LInv
<1>2. new \subseteq Defines /\ NamesOf(new) \subseteq Loggers /\ NamesOf(m_val) \subseteq Loggers
  BY <1>1, LoggingAssumption DEF Configs, NamesOf, ConfigTypes, LogDefine
<1>3. Work(new) \in WorkRecord
  BY <1>2 DEF Work, WorkRecord
<1>4. ConfigTypes'
  <2>1. todo' \in [Reloaders -> WorkRecord]
    BY <1>1, <1>3 DEF Reload, ConfigTypes, WorkRecord
  <2>2. tended' \subseteq Loggers
    BY <1>1, <1>2 DEF Reload, ConfigTypes
  <2>3. loading' \in [Reloaders -> Configs \cup {Null}] /\ base' \in [Reloaders -> Configs]
    BY <1>1 DEF Reload, ConfigTypes
  <2>4. configured' \subseteq Loggers
    BY <1>1, <1>2 DEF Reload, ConfigTypes
  <2> QED BY <1>1, <2>1, <2>2, <2>3, <2>4 DEF Reload, ConfigTypes, WorkRecord
<1>5. WorkOK(r)'
  <2>1. /\ todo'[r] = Work(new) /\ loading'[r] = new /\ m_val' = m_val
    BY <1>1 DEF Reload, ConfigTypes
  <2>2. Work(new).defines = new /\ Work(new).removed = NamesOf(m_val) \ NamesOf(new)
        /\ Work(new).step = 1 /\ Work(new).log
    BY DEF Work
  <2>3. Total(Work(new)) >= 2 /\ Total(Work(new)) \in Nat
    BY <1>2, <2>2, TotalIsSome
  <2>4. new # Null
    BY <1>2, LoggingAssumption
  <2> HIDE DEF Work
  <2> QED BY <2>1, <2>2, <2>3, <2>4 DEF WorkOK
<1>6. ASSUME NEW q \in Reloaders, q # r
      PROVE  WorkOK(q)'
  <2>1. todo'[q] = todo[q] /\ loading'[q] = loading[q] /\ m_val' = m_val
    BY <1>1, <1>6 DEF Reload, ConfigTypes
  <2> QED BY <1>1, <2>1 DEF WorkOK
<1>7. LoggerTypes' /\ ThreadTypes' /\ failed' \in {"none", "m_root", "m_formatter", "new_logger"}
  BY <1>1 DEF Reload, loggerVars, callVars, LoggerTypes, ThreadTypes
<1> QED BY <1>4, <1>5, <1>6, <1>7 DEF LInv, TypeOK, LoggerTypes, ConfigTypes, ThreadTypes

LEMMA ListenerLogTypes ==
  ASSUME LInv, NEW r \in Reloaders, ListenerLog(r)
  PROVE  LInv'
<1>1. /\ LoggerTypes /\ ConfigTypes /\ ThreadTypes
      /\ failed \in {"none", "m_root", "m_formatter", "new_logger"}
      /\ \A q \in Reloaders : WorkOK(q)
  BY TypeParts DEF LInv
<1> DEFINE w == todo[r]
           w2 == [w EXCEPT !.log = FALSE]
<1>2. w \in WorkRecord /\ w.log
  BY <1>1 DEF ConfigTypes, WorkRecord, ListenerLog
<1>3. todo' = [todo EXCEPT ![r] = w2] /\ UNCHANGED <<m_val, loading, historyVars>>
  BY DEF ListenerLog
<1>4. /\ w2 \in WorkRecord /\ w2.log = FALSE /\ w2.step = w.step
      /\ w2.defines = w.defines /\ w2.removed = w.removed
  <2> HIDE DEF w
  <2> QED BY <1>2 DEF WorkRecord
<1>5. w.step = 1 /\ w # NoWork
  BY <1>1, <1>2 DEF WorkOK, NoWork
<1> HIDE DEF w2
<1>6. Total(w2) \in Nat /\ Total(w2) >= 2
  BY <1>4, TotalIsSome DEF WorkRecord
<1>7. ConfigTypes' /\ \A q \in Reloaders : WorkOK(q)'
  <2>1. /\ w2.defines \subseteq w.defines /\ w2.removed \subseteq w.removed
        /\ w2.step <= Total(w2) /\ w2.step = 1
    BY <1>4, <1>5, <1>6
  <2> QED BY <1>3, <1>4, <1>5, <2>1, LessWork
<1>8. ThreadTypes'
  <2>1. r \in Threads /\ Root \in Loggers /\ INFO \in Level
    BY DEF Threads, Loggers, INFO, Level
  <2>2. CASE UNCHANGED callVars
    BY <1>1, <2>2 DEF callVars, ThreadTypes
  <2>3. CASE LogMacro(r, Root, INFO)
    BY <1>1, <2>1, <2>3, LogMacroTypes
  <2> QED BY <2>2, <2>3 DEF ListenerLog
<1>9. LoggerTypes' /\ failed' \in {"none", "m_root", "m_formatter", "new_logger"}
  BY <1>1 DEF ListenerLog, loggerVars, LoggerTypes
<1> QED BY <1>7, <1>8, <1>9 DEF LInv, TypeOK, LoggerTypes, ConfigTypes, ThreadTypes

\* A value is stored when no listener is at work: there is none for any thread.
LEMMA CommitTypes ==
  ASSUME LInv, NEW r \in Reloaders, Commit(r)
  PROVE  LInv' /\ \A q \in Reloaders : todo[q] = NoWork
<1>1. /\ LoggerTypes /\ ConfigTypes /\ ThreadTypes
      /\ failed \in {"none", "m_root", "m_formatter", "new_logger"}
      /\ \A q \in Reloaders : WorkOK(q)
  BY TypeParts DEF LInv
<1>2. \A q \in Reloaders : todo[q] = NoWork
  BY <1>1 DEF Commit, Telling, WorkOK
<1>3. ConfigTypes'
  <2>1. {} \in Configs
    BY DEF Configs
  <2> QED BY <1>1, <2>1 DEF Commit, ConfigTypes
<1>4. \A q \in Reloaders : WorkOK(q)'
  <2>1. /\ NoWork.defines = {} /\ NoWork.removed = {} /\ NoWork.step = 1
        /\ Total(NoWork) = 2
    BY DEF NoWork, Total
  <2> TAKE q \in Reloaders
  <2>2. todo'[q] = NoWork
    BY <1>2 DEF Commit
  <2> QED BY <2>1, <2>2 DEF WorkOK
<1>5. LoggerTypes' /\ ThreadTypes' /\ failed' \in {"none", "m_root", "m_formatter", "new_logger"}
  BY <1>1 DEF Commit, loggerVars, callVars, LoggerTypes, ThreadTypes
<1> QED BY <1>2, <1>3, <1>4, <1>5 DEF LInv, TypeOK, LoggerTypes, ConfigTypes, ThreadTypes

LEMMA NextTypes ==
  ASSUME LInv, [Next]_vars
  PROVE  LInv'
<1>1. CASE UNCHANGED vars
  BY <1>1 DEF vars, loggerVars, configVars, historyVars, callVars, LInv, TypeOK, WorkOK
<1>2. /\ LoggerTypes /\ ConfigTypes /\ ThreadTypes
      /\ failed \in {"none", "m_root", "m_formatter", "new_logger"}
      /\ \A q \in Reloaders : WorkOK(q)
  BY TypeParts DEF LInv
<1>3. ASSUME UNCHANGED <<configVars, failed>>, LoggerTypes', ThreadTypes'
      PROVE  LInv'
  <2>1. ConfigTypes' /\ \A q \in Reloaders : WorkOK(q)'
    BY <1>2, <1>3 DEF configVars, historyVars, ConfigTypes, WorkOK
  <2> QED BY <1>2, <1>3, <2>1 DEF LInv, TypeOK, LoggerTypes, ConfigTypes, ThreadTypes
<1>4. ASSUME NEW t \in Writers, NEW l \in Loggers, NEW v \in Levels, LogCall(t, l, v)
      PROVE  LInv'
  <2>1. t \in Threads /\ v \in Level
    BY LoggingAssumption DEF Threads
  <2>2. ThreadTypes' /\ LoggerTypes'
    BY <1>2, <1>4, <2>1, LogMacroTypes DEF LogCall, loggerVars, LoggerTypes
  <2> QED BY <1>3, <1>4, <2>2 DEF LogCall
<1>5. ASSUME NEW t \in Writers, NEW l \in Loggers, NEW f, FormatCall(t, l, f)
      PROVE  LInv'
  <2>1. ThreadTypes' /\ LoggerTypes'
    BY <1>2, <1>5, ChangeTypes DEF FormatCall, callVars, ThreadTypes
  <2> QED BY <1>3, <1>5, <2>1 DEF FormatCall
<1>6. ASSUME NEW r \in Reloaders, ListenerCall(r)
      PROVE  LInv'
  BY <1>6, CallForDefine, CallForRemoved, DefineCallTypes, RemovedCallTypes
<1> QED BY <1>1, <1>4, <1>5, <1>6, LogStepTypes, ReloadTypes, ListenerLogTypes, CommitTypes
        DEF Next, Step, Crashed

THEOREM LInvHolds == Spec => []LInv
BY InitLInv, NextTypes, PTL DEF Spec

\* The variables have their types.
THEOREM TypesHold == Spec => []TypeOK
<1>1. LInv => TypeOK
  BY DEF LInv
<1> QED BY <1>1, LInvHolds, PTL

-----------------------------------------------------------------------------
(* Formats. *)

LEMMA InitFormats == Init => FormatInherited
<1> SUFFICES ASSUME Init, NEW l \in Loggers, NEW i \in DOMAIN m_appenders[l]
             PROVE  m_appenders[l][i].formatter = DefaultFormat
  BY LoggingAssumption DEF FormatInherited, Init
<1> DEFINE first == [level |-> 0, formatter |-> DefaultFormat, hasFormatter |-> FALSE]
<1>1. m_appenders[l] = <<first>> \/ m_appenders[l] = <<>>
  BY DEF Init
<1>2. first.formatter = DefaultFormat
  OBVIOUS
<1> HIDE DEF first
<1>3. DOMAIN <<>> = {} /\ DOMAIN <<first>> = {1} /\ <<first>>[1] = first
  OBVIOUS
<1> QED BY <1>1, <1>2, <1>3

\* One list and the format of its logger.
Inherits(s, f) ==
  \A i \in DOMAIN s : s[i].formatter # Null /\ (~s[i].hasFormatter => s[i].formatter = f)

LEMMA ChangeFormats ==
  ASSUME LoggerTypes, FormatInherited, NEW l \in Loggers,
         \/ \E v : SetLevel(l, v)
         \/ \E f : SetFormatter(l, f)
         \/ ClearAppender(l)
         \/ \E e \in AppenderDefine : AddAppender(l, e)
  PROVE  FormatInherited'
<1> DEFINE s == m_appenders[l]
<1>1. \A k \in Loggers : Inherits(m_appenders[k], m_formatter[k])
  BY DEF FormatInherited, Inherits
<1>2. Null \notin Formatter
  BY LoggingAssumption DEF Formatter
<1>3. s \in Seq(Appender) /\ DOMAIN s = 1 .. Len(s) /\ Len(s) \in Nat
  BY LenProperties DEF LoggerTypes
<1>4. ASSUME NEW f, Inherits(m_appenders'[l], m_formatter'[l]),
             \A k \in Loggers \ {l} : /\ m_appenders'[k] = m_appenders[k]
                                      /\ m_formatter'[k] = m_formatter[k]
      PROVE  FormatInherited'
  <2>1. \A k \in Loggers : Inherits(m_appenders'[k], m_formatter'[k])
    BY <1>1, <1>4
  <2> QED BY <2>1 DEF FormatInherited, Inherits
<1>5. ASSUME NEW v, SetLevel(l, v)
      PROVE  FormatInherited'
  BY <1>5 DEF SetLevel, FormatInherited
<1>6. ASSUME NEW f, SetFormatter(l, f)
      PROVE  FormatInherited'
  <2>1. CASE UNCHANGED loggerVars
    BY <2>1 DEF loggerVars, FormatInherited
  <2>2. CASE /\ f \in Formats
             /\ m_formatter' = [m_formatter EXCEPT ![l] = f]
             /\ m_appenders' = [m_appenders EXCEPT ![l] = Reformat(m_appenders[l], f)]
    <3>1. m_appenders'[l] = Reformat(s, f) /\ m_formatter'[l] = f
      BY <2>2 DEF LoggerTypes
    <3>2. f # Null
      BY <2>2, LoggingAssumption
    <3>3. /\ DOMAIN Reformat(s, f) = 1 .. Len(s)
          /\ \A i \in 1 .. Len(s) :
               /\ Reformat(s, f)[i].hasFormatter = s[i].hasFormatter
               /\ Reformat(s, f)[i].formatter = IF s[i].hasFormatter THEN s[i].formatter ELSE f
      BY <1>3, <2>2, ReformatList, LenProperties
    <3>4. \A i \in 1 .. Len(s) : s[i].formatter # Null
      BY <1>1, <1>3 DEF Inherits
    <3>5. Inherits(Reformat(s, f), f)
      BY <3>2, <3>3, <3>4 DEF Inherits
    <3> QED BY <1>4, <2>2, <3>1, <3>5 DEF LoggerTypes
  <2> QED BY <1>6, <2>1, <2>2 DEF SetFormatter, Reformat
<1>7. CASE ClearAppender(l)
  <2>1. m_appenders'[l] = <<>>
    BY <1>7 DEF ClearAppender, LoggerTypes
  <2>2. Inherits(<<>>, m_formatter'[l])
    BY DEF Inherits
  <2> QED BY <1>4, <1>7, <2>1, <2>2 DEF ClearAppender, LoggerTypes
<1>8. ASSUME NEW e \in AppenderDefine, AddAppender(l, e)
      PROVE  FormatInherited'
  <2> DEFINE a == NewAppender(l, e)
  <2>1. m_appenders'[l] = Append(s, a) /\ m_formatter' = m_formatter
    BY <1>8 DEF AddAppender, LoggerTypes
  <2>2. a \in Appender /\ a.formatter # Null /\ (~a.hasFormatter => a.formatter = m_formatter[l])
    BY <1>2, NewAppenderFits
  <2> HIDE DEF a, s
  <2>3. /\ DOMAIN Append(s, a) = 1 .. Len(s) + 1
        /\ \A i \in 1 .. Len(s) : Append(s, a)[i] = s[i]
        /\ Append(s, a)[Len(s) + 1] = a
    BY <1>3, <2>2, AppendProperties, LenProperties
  <2>4. \A i \in 1 .. Len(s) + 1 : i \in 1 .. Len(s) \/ i = Len(s) + 1
    BY <1>3
  <2>5. Inherits(Append(s, a), m_formatter[l])
    BY <1>1, <1>3, <2>2, <2>3, <2>4 DEF Inherits, s
  <2> QED BY <1>4, <1>8, <2>1, <2>5 DEF AddAppender, LoggerTypes
<1> QED BY <1>5, <1>6, <1>7, <1>8

\* What a call of the listener does to the loggers is one of these changes.
LEMMA CallChanges ==
  ASSUME LInv, NEW r \in Reloaders, ListenerCall(r)
  PROVE  \/ UNCHANGED loggerVars
         \/ \E l \in Loggers :
              \/ \E v \in Level \cup {SILENT} : SetLevel(l, v)
              \/ \E f : SetFormatter(l, f)
              \/ ClearAppender(l)
              \/ \E e \in AppenderDefine : AddAppender(l, e)
<1>1. ASSUME NEW d \in Defines, DefineCall(r, d), ~UNCHANGED loggerVars
      PROVE  \/ SetLevel(d.name, d.level)
             \/ SetFormatter(d.name, d.format)
             \/ ClearAppender(d.name)
             \/ \E e \in AppenderDefine : AddAppender(d.name, e)
  <2>1. d.appenders \in Seq(AppenderDefine)
    BY LoggingAssumption DEF LogDefine
  <2>2. \A i \in 1 .. Len(d.appenders) : d.appenders[i] \in AppenderDefine
    BY <2>1, ElementOfSeq
  <2> QED BY <1>1, <2>2 DEF DefineCall, DefineStep
<1>2. \A d \in Defines : d.name \in Loggers /\ d.level \in Level
  BY LoggingAssumption DEF LogDefine
<1>3. CASE todo[r].defines # {}
  BY <1>1, <1>2, <1>3, CallForDefine
<1>4. CASE todo[r].defines = {}
  BY <1>4, CallForRemoved DEF RemovedCall
<1> QED BY <1>3, <1>4

LEMMA NextFormats ==
  ASSUME LInv, FormatInherited, [Next]_vars
  PROVE  FormatInherited'
<1>1. CASE UNCHANGED <<m_formatter, m_appenders>>
  BY <1>1 DEF FormatInherited
<1>2. LoggerTypes
  BY TypeParts DEF LInv
<1>3. ASSUME NEW r \in Reloaders, ListenerCall(r)
      PROVE  FormatInherited'
  BY <1>1, <1>2, <1>3, CallChanges, ChangeFormats DEF loggerVars
<1>4. ASSUME NEW t \in Writers, NEW l \in Loggers, NEW f, FormatCall(t, l, f)
      PROVE  FormatInherited'
  BY <1>2, <1>4, ChangeFormats DEF FormatCall
<1>5. ASSUME NEW t \in Threads, LogStep(t)
      PROVE  UNCHANGED <<m_formatter, m_appenders>>
  BY <1>5 DEF LogStep, LevelCheck, LockLogger, Write, Unlock, loggerVars
<1>6. ASSUME NEW r, NEW t, NEW l, NEW v,
             LogCall(t, l, v) \/ ListenerLog(r) \/ Commit(r) \/ (\E new \in Configs : Reload(r, new))
      PROVE  UNCHANGED <<m_formatter, m_appenders>>
  BY <1>6 DEF LogCall, ListenerLog, Commit, Reload, loggerVars
<1>7. CASE UNCHANGED vars
  BY <1>1, <1>7 DEF vars, loggerVars
<1> QED BY <1>1, <1>3, <1>4, <1>5, <1>6, <1>7 DEF Next, Step, Crashed

\* An appender without a format of its own has that of its logger, and each has
\* one, after any calls of the program and of the listener.
THEOREM FormatInheritedHolds == Spec => []FormatInherited
BY InitFormats, NextFormats, LInvHolds, PTL DEF Spec

-----------------------------------------------------------------------------
(* Null pointers. *)

\* A thread that writes is at one of the appenders.
WritesOK ==
  \A t \in Threads : pc[t] = "write" => next[t] <= Len(m_appenders[current[t]])

LEMMA InitWrites == Init => WritesOK
BY DEF Init, WritesOK

\* Who changes the list of a logger finds no thread at work on it, so that a
\* thread that writes stays within the list.
LEMMA NextWrites ==
  ASSUME LInv, IInv, WritesOK, [Next]_vars
  PROVE  WritesOK'
<1>1. FreeOnChange /\ ThreadTypes /\ LoggerTypes
  BY NextStep, TypeParts DEF LInv
<1>2. CASE UNCHANGED vars
  BY <1>2 DEF vars, loggerVars, callVars, WritesOK
<1>3. ASSUME failed = "none", NEW t \in Threads, pc[t] = "write",
             UNCHANGED <<pc[t], current[t], next[t]>>
      PROVE  pc'[t] = "write" => next'[t] <= Len(m_appenders'[current'[t]])
  <2>1. current[t] \in Loggers /\ m_mutex[current[t]] = t
    BY <1>1, <1>3 DEF ThreadTypes, IInv, LocksExact, Inside
  <2>2. t # Null
    BY LoggingAssumption
  <2>3. m_appenders'[current[t]] = m_appenders[current[t]]
    BY <1>1, <2>1, <2>2 DEF FreeOnChange
  <2> QED BY <1>3, <2>3 DEF WritesOK
<1>4. ASSUME failed = "none", UNCHANGED <<pc, current, next>>
      PROVE  WritesOK'
  BY <1>3, <1>4 DEF WritesOK
<1>5. ASSUME failed = "none", NEW t \in Threads,
             \A u \in Threads \ {t} : UNCHANGED <<pc[u], current[u], next[u]>>,
             pc'[t] = "write" => next'[t] <= Len(m_appenders'[current'[t]])
      PROVE  WritesOK'
  BY <1>3, <1>5 DEF WritesOK
<1>6. ASSUME failed = "none", NEW t \in Threads, NEW l, NEW v, LogMacro(t, l, v)
      PROVE  WritesOK'
  <2>1. pc'[t] = "check" /\ \A u \in Threads \ {t} : UNCHANGED <<pc[u], current[u], next[u]>>
    BY <1>1, <1>6 DEF LogMacro, Goto, ThreadTypes
  <2> QED BY <1>5, <1>6, <2>1
<1>7. ASSUME failed = "none", NEW t \in Threads, LogStep(t)
      PROVE  WritesOK'
  <2>1. CASE LevelCheck(t) \/ Unlock(t)
    <3>1. pc'[t] # "write" /\ \A u \in Threads \ {t} : UNCHANGED <<pc[u], current[u], next[u]>>
      BY <1>1, <2>1 DEF LevelCheck, Unlock, Return, Leave, Goto, ThreadTypes
    <3> QED BY <1>5, <1>7, <3>1
  <2>2. CASE LockLogger(t)
    <3>1. \A u \in Threads \ {t} : UNCHANGED <<pc[u], current[u], next[u]>>
      BY <1>1, <2>2 DEF LockLogger, Goto, ThreadTypes
    <3>2. ASSUME pc'[t] = "write"
          PROVE  next'[t] = 1 /\ current'[t] = current[t] /\ m_appenders[current[t]] # <<>>
      BY <1>1, <2>2, <3>2 DEF LockLogger, Goto, ThreadTypes
    <3>3. m_appenders' = m_appenders /\ m_appenders[current[t]] \in Seq(Appender)
      BY <1>1, <2>2 DEF LockLogger, ThreadTypes, LoggerTypes
    <3>4. m_appenders[current[t]] # <<>> => 1 <= Len(m_appenders[current[t]])
      BY <3>3, EmptySeq
    <3> QED BY <1>5, <1>7, <3>1, <3>2, <3>3, <3>4
  <2>3. CASE Write(t)
    <3>1. /\ \A u \in Threads \ {t} : UNCHANGED <<pc[u], current[u], next[u]>>
          /\ UNCHANGED <<current, m_appenders>>
      BY <1>1, <2>3 DEF Write, Goto, ThreadTypes, loggerVars
    <3>2. m_appenders[current[t]] \in Seq(Appender) /\ next[t] \in Nat
      BY <1>1 DEF ThreadTypes, LoggerTypes
    <3>3. Len(m_appenders[current[t]]) \in Nat
      BY <3>2, LenProperties
    <3>4. pc'[t] = "write" => next'[t] = next[t] + 1 /\ next[t] < Len(m_appenders[current[t]])
      BY <1>1, <2>3 DEF Write, Goto, ThreadTypes
    <3> QED BY <1>5, <1>7, <3>1, <3>2, <3>3, <3>4
  <2> QED BY <1>7, <2>1, <2>2, <2>3 DEF LogStep
<1>8. ASSUME failed = "none", NEW r \in Reloaders, ListenerLog(r)
      PROVE  WritesOK'
  <2>1. r \in Threads
    BY DEF Threads
  <2> QED BY <1>4, <1>6, <1>8, <2>1 DEF ListenerLog, callVars
<1>9. ASSUME failed = "none", NEW t \in Writers, NEW l, NEW v, LogCall(t, l, v)
      PROVE  WritesOK'
  <2>1. t \in Threads
    BY DEF Threads
  <2> QED BY <1>6, <1>9, <2>1 DEF LogCall
<1>10. ASSUME failed = "none", NEW t, NEW l, NEW f, NEW r,
              \/ FormatCall(t, l, f) \/ ListenerCall(r) \/ Commit(r)
              \/ \E new \in Configs : Reload(r, new)
       PROVE  WritesOK'
  <2>1. UNCHANGED <<pc, current, next>>
    BY <1>10 DEF FormatCall, ListenerCall, Commit, Reload, callVars
  <2> QED BY <1>4, <1>10, <2>1
<1> QED BY <1>2, <1>7, <1>8, <1>9, <1>10 DEF Next, Step, Crashed

THEOREM WritesHold == Spec => []WritesOK
BY InitWrites, NextWrites, LInvHolds, IInvHolds, PTL DEF Spec

\* A reload knows the value it started from until its listener has returned, and
\* the names that the configurations give are those that reloads have defined.
\* What a value repeats from the old one is never dealt with: the first call for
\* it ends the program, so that it stays among what the listener has still to do.
ReloadOK(r) ==
  LET w == todo[r] IN
  /\ loading[r] # Null => NamesOf(loading[r]) \subseteq configured
  /\ w # NoWork => base[r] = m_val
  /\ Repeats(r) => loading[r] \cap base[r] \subseteq w.defines
  /\ failed = "none" /\ w.defines # {} /\ w.step # 1 => Item(w.defines) \notin m_val

KInv == NamesOf(m_val) \subseteq configured /\ \A r \in Reloaders : ReloadOK(r)

\* The root logger has an appender as long as no reload has defined it.
RootKept == m_appenders[Root] = <<>> => Root \in configured

NInv ==
  /\ RootKept
  /\ failed # "m_formatter"
  /\ failed = "m_root" => Root \in configured
  /\ failed = "new_logger" => \E r \in Reloaders : Repeats(r)

LEMMA InitNulls == Init => KInv /\ NInv
<1> SUFFICES ASSUME Init PROVE KInv /\ NInv
  OBVIOUS
<1>1. m_appenders[Root] = <<[level |-> 0, formatter |-> DefaultFormat, hasFormatter |-> FALSE]>>
  BY DEF Init, Loggers
<1>2. NamesOf(m_val) = {} /\ NoWork.defines = {}
  BY DEF Init, NamesOf, NoWork
<1>3. \A r \in Reloaders : ReloadOK(r)
  BY <1>2 DEF Init, ReloadOK, Repeats
<1>4. RootKept
  BY <1>1 DEF RootKept
<1> QED BY <1>2, <1>3, <1>4 DEF Init, KInv, NInv

\* One reload goes on, and nothing else of the configuration changes.
LEMMA OneReload ==
  ASSUME LInv, KInv, NEW r \in Reloaders, NEW w2, todo' = [todo EXCEPT ![r] = w2],
         UNCHANGED <<m_val, loading, historyVars>>,
         failed = "none", todo[r] # NoWork,
         Repeats(r) => loading[r] \cap base[r] \subseteq w2.defines,
         failed' = "none" /\ w2.defines # {} /\ w2.step # 1 => Item(w2.defines) \notin m_val
  PROVE  KInv'
<1>1. todo'[r] = w2 /\ \A q \in Reloaders : q # r => todo'[q] = todo[q]
  BY TypeParts DEF LInv, ConfigTypes
<1>2. ReloadOK(r)'
  BY <1>1 DEF KInv, ReloadOK, Repeats, historyVars
<1>3. \A q \in Reloaders : q # r => ReloadOK(q)'
  BY <1>1 DEF KInv, ReloadOK, Repeats, historyVars
<1> QED BY <1>2, <1>3 DEF KInv, historyVars

\* A call for a definition that is repeated is the first for it, and the last of
\* the program.
LEMMA DefineNulls ==
  ASSUME LInv, KInv, NInv, failed = "none", NEW r \in Reloaders, ListenerCall(r),
         NEW d \in Defines, DefineCall(r, d)
  PROVE  KInv' /\ NInv'
<1> DEFINE w == todo[r]
           w2 == IF w.step < Base(d) + Len(d.appenders) THEN [w EXCEPT !.step = @ + 1]
                 ELSE [w EXCEPT !.defines = @ \ {d}, !.step = 1]
<1>1. /\ LoggerTypes /\ WorkOK(r)
      /\ w \in WorkRecord /\ w # NoWork
      /\ UNCHANGED <<m_val, loading, historyVars>>
      /\ todo' = [todo EXCEPT ![r] = w2]
  BY TypeParts, WorkHasCall DEF LInv, ListenerCall, DefineCall
<1>2. /\ d \in w.defines /\ d = Item(w.defines)
      /\ loading[r] # Null /\ d \in loading[r] /\ base[r] = m_val
  BY <1>1 DEF WorkOK, KInv, ReloadOK, DefineCall
<1>3. d.name \in Loggers /\ d.name \in configured /\ Root \in Loggers
  BY <1>2, LoggingAssumption DEF KInv, ReloadOK, NamesOf, LogDefine, Loggers
<1>4. Base(d) + Len(d.appenders) \in Nat /\ Base(d) + Len(d.appenders) >= 2
  <2>1. Len(d.appenders) \in Nat
    BY LoggingAssumption, LenProperties DEF LogDefine
  <2>2. Base(d) \in {2, 3}
    BY DEF Base
  <2> QED BY <2>1, <2>2
<1>5. \/ w2 \in WorkRecord /\ w2.defines = w.defines
      \/ /\ w2 \in WorkRecord /\ w2.defines = w.defines \ {d} /\ w2.step = 1
         /\ ~(w.step < Base(d) + Len(d.appenders))
  <2>1. CASE w.step < Base(d) + Len(d.appenders)
    <3>1. w2 = [w EXCEPT !.step = w.step + 1]
      BY <2>1
    <3> HIDE DEF w, w2
    <3>2. w.step + 1 \in Nat \ {0}
      BY <1>1 DEF WorkRecord
    <3> QED BY <1>1, <3>1, <3>2, StepTo
  <2>2. CASE ~(w.step < Base(d) + Len(d.appenders))
    <3>1. w2 = [w EXCEPT !.defines = @ \ {d}, !.step = 1]
      BY <2>2
    <3> HIDE DEF w, w2
    <3>2. w2 \in WorkRecord /\ w2.defines = w.defines \ {d} /\ w2.step = 1
      BY <1>1, <3>1, DoneDefine
    <3> QED BY <2>2, <3>2
  <2> QED BY <2>1, <2>2
<1> HIDE DEF w2
<1>6. CASE d \in m_val
  <2>1. failed' = "new_logger" /\ UNCHANGED loggerVars
    BY <1>6 DEF DefineCall
  <2>2. w.step = 1
    BY <1>2, <1>6 DEF KInv, ReloadOK
  <2>3. w2.defines = w.defines
    BY <1>4, <1>5, <2>2
  <2>4. KInv'
    <3>1. Repeats(r) => loading[r] \cap base[r] \subseteq w2.defines
      BY <2>3 DEF KInv, ReloadOK
    <3> QED BY <1>1, <2>1, <3>1, OneReload
  <2>5. Repeats(r)'
    BY <1>1, <1>2, <1>6 DEF Repeats, historyVars
  <2> QED BY <1>1, <2>1, <2>4, <2>5 DEF NInv, RootKept, loggerVars, historyVars
<1>7. CASE d \notin m_val
  <2>1. UNCHANGED failed /\ DefineStep(d, w.step)
    BY <1>7 DEF DefineCall
  <2>2. KInv'
    <3>1. Repeats(r) => loading[r] \cap base[r] \subseteq w2.defines
      BY <1>2, <1>5, <1>7 DEF KInv, ReloadOK
    <3>2. w2.defines # {} /\ w2.step # 1 => Item(w2.defines) \notin m_val
      BY <1>2, <1>5, <1>7
    <3> QED BY <1>1, <3>1, <3>2, OneReload
  <2>3. d.name # Root => m_appenders'[Root] = m_appenders[Root]
    BY <1>1, <1>3, <2>1 DEF DefineStep, SetLevel, SetFormatter, ClearAppender, AddAppender,
       LoggerTypes, loggerVars
  <2>4. RootKept'
    BY <1>1, <1>3, <2>3 DEF NInv, RootKept, historyVars
  <2> QED BY <2>1, <2>2, <2>4 DEF NInv
<1> QED BY <1>6, <1>7

LEMMA RemovedNulls ==
  ASSUME LInv, KInv, NInv, failed = "none", NEW r \in Reloaders, ListenerCall(r),
         NEW l \in Loggers, RemovedCall(r, l)
  PROVE  KInv' /\ NInv'
<1> DEFINE w == todo[r]
<1>1. /\ LoggerTypes /\ WorkOK(r)
      /\ w \in WorkRecord /\ w # NoWork /\ w.defines = {}
      /\ UNCHANGED <<m_val, loading, historyVars, failed>>
  BY TypeParts, WorkHasCall DEF LInv, ListenerCall, RemovedCall
<1>2. l \in configured
  BY <1>1 DEF WorkOK, KInv, RemovedCall
<1>3. KInv'
  <2>1. PICK w2 : todo' = [todo EXCEPT ![r] = w2] /\ w2.defines = {}
    <3>1. CASE todo' = [todo EXCEPT ![r].step = 2]
      <4> DEFINE w2 == [w EXCEPT !.step = 2]
      <4>1. todo' = [todo EXCEPT ![r] = w2]
        BY <3>1
      <4>2. w2.defines = {}
        <5>1. w2 = [w EXCEPT !.step = 2]
          OBVIOUS
        <5> HIDE DEF w, w2
        <5> QED BY <1>1, <5>1, StepTo
      <4> QED BY <4>1, <4>2
    <3>2. CASE todo' = [todo EXCEPT ![r] = [w EXCEPT !.removed = @ \ {l}, !.step = 1]]
      <4> DEFINE w2 == [w EXCEPT !.removed = @ \ {l}, !.step = 1]
      <4>1. todo' = [todo EXCEPT ![r] = w2]
        BY <3>2
      <4>2. w2.defines = {}
        <5>1. w2 = [w EXCEPT !.removed = @ \ {l}, !.step = 1]
          OBVIOUS
        <5> HIDE DEF w, w2
        <5>2. w2.defines = w.defines
          BY <1>1, <5>1, DoneRemoved
        <5> QED BY <1>1, <5>2
      <4> QED BY <4>1, <4>2
    <3> QED BY <3>1, <3>2 DEF RemovedCall
  <2>2. Repeats(r) => loading[r] \cap base[r] \subseteq w2.defines
    BY <1>1, <2>1 DEF KInv, ReloadOK
  <2> QED BY <1>1, <2>1, <2>2, OneReload
<1>4. l # Root => m_appenders'[Root] = m_appenders[Root]
  BY <1>1 DEF RemovedCall, SetLevel, ClearAppender, LoggerTypes, Loggers
<1>5. RootKept'
  BY <1>1, <1>2, <1>4 DEF NInv, RootKept, historyVars
<1> QED BY <1>1, <1>3, <1>5 DEF NInv

LEMMA LogNulls ==
  ASSUME LInv, KInv, NInv, WritesOK, FormatInherited, failed = "none",
         NEW t \in Threads, LogStep(t)
  PROVE  KInv' /\ NInv'
<1>1. ThreadTypes /\ LoggerTypes
  BY TypeParts DEF LInv
<1>2. UNCHANGED m_appenders /\ UNCHANGED configVars
  BY DEF LogStep, LevelCheck, LockLogger, Write, Unlock, loggerVars
<1>3. UNCHANGED failed \/ (failed' = "m_root" /\ Root \in configured)
  <2>1. CASE LevelCheck(t) \/ Unlock(t)
    BY <2>1 DEF LevelCheck, Unlock
  <2>2. CASE LockLogger(t)
    <3>1. current[t] # Root => m_root(current[t]) # Null
      BY LoggingAssumption DEF m_root, Loggers
    <3> QED BY <2>2, <3>1 DEF LockLogger, NInv, RootKept, Fail
  <2>3. CASE Write(t)
    <3>1. /\ current[t] \in Loggers /\ next[t] \in Nat \ {0}
          /\ m_appenders[current[t]] \in Seq(Appender)
      BY <1>1 DEF ThreadTypes, LoggerTypes
    <3>2. next[t] <= Len(m_appenders[current[t]])
      BY <2>3 DEF Write, WritesOK
    <3>3. next[t] \in DOMAIN m_appenders[current[t]]
      BY <3>1, <3>2, LenProperties
    <3>4. m_appenders[current[t]][next[t]].formatter # Null
      BY <3>1, <3>3 DEF FormatInherited
    <3> QED BY <2>3, <3>4 DEF Write
  <2> QED BY <2>1, <2>2, <2>3 DEF LogStep
<1>4. KInv'
  BY <1>2, <1>3 DEF KInv, ReloadOK, Repeats, configVars, historyVars
<1>5. RootKept'
  BY <1>2 DEF NInv, RootKept, configVars, historyVars
<1> QED BY <1>2, <1>3, <1>4, <1>5 DEF NInv, configVars, historyVars

LEMMA ReloadNulls ==
  ASSUME LInv, KInv, NInv, failed = "none", NEW r \in Reloaders, NEW new \in Configs,
         Reload(r, new)
  PROVE  KInv' /\ NInv'
<1>1. ConfigTypes
  BY TypeParts DEF LInv
<1>2. /\ UNCHANGED <<m_val, m_appenders, failed>>
      /\ configured \subseteq configured' /\ NamesOf(new) \subseteq configured'
      /\ loading'[r] = new /\ todo'[r] = Work(new) /\ base'[r] = m_val
  BY <1>1 DEF Reload, ConfigTypes, loggerVars
<1>3. Work(new).defines = new /\ Work(new).step = 1
  BY DEF Work
<1>4. ReloadOK(r)'
  BY <1>2, <1>3 DEF ReloadOK, Repeats
<1>5. ASSUME NEW q \in Reloaders, q # r
      PROVE  ReloadOK(q)'
  <2>1. loading'[q] = loading[q] /\ todo'[q] = todo[q] /\ base'[q] = base[q]
    BY <1>1, <1>5 DEF Reload, ConfigTypes
  <2>2. ReloadOK(q)
    BY DEF KInv
  <2> QED BY <1>2, <2>1, <2>2 DEF ReloadOK, Repeats
<1>6. NamesOf(m_val)' \subseteq configured'
  BY <1>2 DEF KInv, NamesOf
<1> QED BY <1>2, <1>4, <1>5, <1>6 DEF KInv, NInv, RootKept

LEMMA CommitNulls ==
  ASSUME LInv, KInv, NInv, failed = "none", NEW r \in Reloaders, Commit(r)
  PROVE  KInv' /\ NInv'
<1>1. ConfigTypes
  BY TypeParts DEF LInv
<1>2. \A q \in Reloaders : todo[q] = NoWork
  BY CommitTypes
<1>3. /\ UNCHANGED <<todo, configured, m_appenders, failed>>
      /\ loading[r] # Null /\ m_val' = loading[r] /\ loading'[r] = Null
  BY <1>1 DEF Commit, ConfigTypes, loggerVars
<1>4. NoWork.defines = {}
  BY DEF NoWork
<1>5. ReloadOK(r)'
  BY <1>2, <1>3, <1>4 DEF ReloadOK, Repeats
<1>6. ASSUME NEW q \in Reloaders, q # r
      PROVE  ReloadOK(q)'
  <2>1. loading'[q] = loading[q] /\ base'[q] = base[q]
    BY <1>1, <1>6 DEF Commit, ConfigTypes
  <2> QED BY <1>2, <1>3, <1>4, <2>1 DEF KInv, ReloadOK, Repeats
<1>7. NamesOf(m_val)' \subseteq configured'
  BY <1>3 DEF KInv, ReloadOK, NamesOf
<1> QED BY <1>3, <1>5, <1>6, <1>7 DEF KInv, NInv, RootKept

LEMMA FormatNulls ==
  ASSUME LInv, KInv, NInv, NEW t \in Writers, NEW l \in Loggers, NEW f, FormatCall(t, l, f)
  PROVE  KInv' /\ NInv'
<1>1. UNCHANGED <<configVars, failed>>
  BY DEF FormatCall
<1>2. m_appenders'[Root] = <<>> => m_appenders[Root] = <<>>
  <2>1. CASE UNCHANGED loggerVars
    BY <2>1 DEF loggerVars
  <2>2. CASE f \in Formats /\ m_appenders' = [m_appenders EXCEPT ![l] = Reformat(@, f)]
    <3>1. \A s \in Seq(Appender) : s # <<>> => Reformat(s, f) # <<>>
      <4> TAKE s \in Seq(Appender)
      <4>1. Len(Reformat(s, f)) = Len(s)
        BY <2>2, ReformatList
      <4>2. s # <<>> => Len(s) # 0
        BY EmptySeq
      <4> QED BY <4>1, <4>2
    <3>2. LoggerTypes /\ Root \in Loggers
      BY TypeParts DEF LInv, Loggers
    <3> QED BY <2>2, <3>1, <3>2 DEF LoggerTypes
  <2> QED BY <2>1, <2>2 DEF FormatCall, SetFormatter, Reformat
<1>3. KInv'
  BY <1>1 DEF KInv, ReloadOK, Repeats, configVars, historyVars
<1> QED BY <1>1, <1>2, <1>3 DEF NInv, RootKept, Repeats, configVars, historyVars

LEMMA NextNulls ==
  ASSUME LInv, KInv, NInv, WritesOK, FormatInherited, [Next]_vars
  PROVE  KInv' /\ NInv'
<1>1. ASSUME UNCHANGED <<m_appenders, configVars, failed>>
      PROVE  KInv' /\ NInv'
  BY <1>1 DEF KInv, ReloadOK, NInv, RootKept, Repeats, configVars, historyVars
<1>2. CASE UNCHANGED vars
  BY <1>1, <1>2 DEF vars, loggerVars
<1>3. ASSUME NEW t, NEW l, NEW v, LogCall(t, l, v)
      PROVE  KInv' /\ NInv'
  BY <1>1, <1>3 DEF LogCall, loggerVars
<1>4. ASSUME failed = "none", NEW r \in Reloaders, ListenerCall(r)
      PROVE  KInv' /\ NInv'
  BY <1>4, CallForDefine, CallForRemoved, DefineNulls, RemovedNulls
<1>5. ASSUME failed = "none", NEW r \in Reloaders, ListenerLog(r)
      PROVE  KInv' /\ NInv'
  <2> DEFINE w == todo[r]
             w2 == [w EXCEPT !.log = FALSE]
  <2>1. /\ w \in WorkRecord /\ w.log /\ w # NoWork
        /\ todo' = [todo EXCEPT ![r] = w2]
        /\ UNCHANGED <<m_appenders, m_val, loading, historyVars, failed>>
    BY <1>5, TypeParts DEF LInv, ConfigTypes, WorkRecord, ListenerLog, NoWork, loggerVars
  <2>2. w2.defines = w.defines /\ w2.step = w.step
    <3> HIDE DEF w
    <3> QED BY <2>1 DEF WorkRecord
  <2> HIDE DEF w2
  <2>3. KInv'
    <3>1. Repeats(r) => loading[r] \cap base[r] \subseteq w2.defines
      BY <2>2 DEF KInv, ReloadOK
    <3>2. w2.defines # {} /\ w2.step # 1 => Item(w2.defines) \notin m_val
      BY <1>5, <2>2 DEF KInv, ReloadOK
    <3> QED BY <1>5, <2>1, <3>1, <3>2, OneReload
  <2> QED BY <2>1, <2>3 DEF NInv, RootKept, Repeats, historyVars
<1> QED BY <1>2, <1>3, <1>4, <1>5, LogNulls, ReloadNulls, CommitNulls, FormatNulls
        DEF Next, Step, Crashed

\* For any loggers, threads, definitions and reloads at once, log() follows a null
\* m_root only when a reload has defined the root logger, the listener a null
\* new_logger only in a reload that repeats a definition of the value it replaces,
\* such a reload never gets past the listener, and no appender is without a
\* formatter.
THEOREM NullsFollowedHolds == Spec => []NullsFollowed
<1>1. LInv /\ WritesOK /\ FormatInherited /\ KInv /\ NInv /\ [Next]_vars => KInv' /\ NInv'
  BY NextNulls
<1>2. LInv /\ KInv /\ NInv => NullsFollowed
  <2> SUFFICES ASSUME LInv, KInv, NInv, NEW r \in Reloaders, Repeats(r)
               PROVE  Telling(r)
    BY DEF NInv, NullsFollowed
  <2>1. todo[r].defines # {} /\ loading[r] # Null
    BY DEF KInv, ReloadOK, Repeats
  <2>2. NoWork.defines = {}
    BY DEF NoWork
  <2> QED BY <2>1, <2>2 DEF Telling
<1> QED BY <1>1, <1>2, InitNulls, LInvHolds, WritesHold, FormatInheritedHolds, PTL DEF Spec

-----------------------------------------------------------------------------
(* A settled configuration is the one that the loggers have. *)

\* The first n appenders of d, and no others, are in the list s.
Listed(s, d, n) == Len(s) = n /\ \A i \in 1 .. n : Fits(s[i], d.appenders[i])

Defined(d) ==
  /\ m_level[d.name] = d.level
  /\ Listed(m_appenders[d.name], d, Len(d.appenders))

Silenced(l) == m_level[l] = SILENT /\ m_appenders[l] = <<>>

\* What the calls for d, or for the name l, have brought about before call n.
DefinedTo(d, n) ==
  /\ n > 1 => m_level[d.name] = d.level
  /\ n > Base(d) => Listed(m_appenders[d.name], d, n - Base(d) - 1)

SilencedTo(l, n) == n > 1 => m_level[l] = SILENT

\* How far the loggers of tended are, when w is left of a change to the value new.
Reached(new, w) ==
  /\ \A d \in new : d.name \in tended =>
       IF d \in w.defines THEN d = Item(w.defines) => DefinedTo(d, w.step) ELSE Defined(d)
  /\ \A l \in tended \ NamesOf(new) :
       IF l \in w.removed THEN w.defines = {} /\ l = Item(w.removed) => SilencedTo(l, w.step)
                          ELSE Silenced(l)

Changed(r) == Reached(loading[r], todo[r])

Unchanged ==
  /\ \A d \in m_val : d.name \in tended => Defined(d)
  /\ \A l \in tended \ NamesOf(m_val) : Silenced(l)

\* The loggers in tended are those of one reload at a time.
OneLoads ==
  tended # {} => \A r, q \in Reloaders : loading[r] # Null /\ loading[q] # Null => r = q

RInv ==
  /\ OneLoads
  /\ failed = "new_logger" => \E r \in Reloaders : loading[r] # Null
  /\ Settled => Unchanged
  /\ failed # "new_logger" => \A r \in Reloaders : loading[r] # Null => Changed(r)

\* What the configuration has brought about at logger k stays.
Kept(k) ==
  /\ m_level'[k] = m_level[k]
  /\ \A d \in Defines, n \in Nat :
       Listed(m_appenders[k], d, n) => Listed(m_appenders'[k], d, n)
  /\ m_appenders[k] = <<>> => m_appenders'[k] = <<>>

LEMMA SameIsKept ==
  ASSUME NEW k, UNCHANGED <<m_level[k], m_appenders[k]>>
  PROVE  Kept(k)
BY DEF Kept

\* A change of the format is none of the level, nor of what an appender is.
LEMMA SetFormatterKeeps ==
  ASSUME LoggerTypes, NEW l \in Loggers, NEW f, SetFormatter(l, f), NEW k \in Loggers
  PROVE  Kept(k)
<1>1. CASE UNCHANGED loggerVars \/ k # l
  BY <1>1, SameIsKept DEF SetFormatter, loggerVars, LoggerTypes
<1>2. CASE k = l /\ ~UNCHANGED loggerVars
  <2> DEFINE s == m_appenders[l]
  <2>1. f \in Formats /\ m_appenders'[l] = Reformat(s, f) /\ UNCHANGED m_level
    BY <1>2 DEF SetFormatter, Reformat, LoggerTypes
  <2>2. s \in Seq(Appender) /\ Len(s) \in Nat
    BY LenProperties DEF LoggerTypes
  <2>3. /\ Len(Reformat(s, f)) = Len(s)
        /\ \A i \in 1 .. Len(s) :
             /\ Reformat(s, f)[i].level = s[i].level
             /\ Reformat(s, f)[i].hasFormatter = s[i].hasFormatter
             /\ Reformat(s, f)[i].formatter = IF s[i].hasFormatter THEN s[i].formatter ELSE f
    BY <2>1, <2>2, ReformatList
  <2>4. \A d \in Defines, n \in Nat : Listed(s, d, n) => Listed(Reformat(s, f), d, n)
    <3> HIDE DEF s
    <3> QED BY <2>3 DEF Listed, Fits
  <2>5. s = <<>> => Reformat(s, f) = <<>>
    <3>1. Reformat(s, f) \in Seq(Appender)
      BY <2>1, <2>2, ReformatList
    <3> QED BY <2>3, <3>1, EmptySeq
  <2> QED BY <1>2, <2>1, <2>4, <2>5 DEF Kept
<1> QED BY <1>1, <1>2

LEMMA KeptKeeps ==
  ASSUME NEW d \in Defines, Kept(d.name), Len(d.appenders) \in Nat
  PROVE  /\ Defined(d) => Defined(d)'
         /\ \A n \in Nat : DefinedTo(d, n) => DefinedTo(d, n)'
<1>1. Base(d) \in Nat
  BY DEF Base
<1>2. Defined(d) => Defined(d)'
  BY DEF Kept, Defined
<1>3. ASSUME NEW n \in Nat, DefinedTo(d, n)
      PROVE  DefinedTo(d, n)'
  <2>1. n > Base(d) => n - Base(d) - 1 \in Nat
    BY <1>1
  <2> QED BY <1>3, <2>1 DEF Kept, DefinedTo
<1> QED BY <1>2, <1>3

LEMMA KeptSilence ==
  ASSUME NEW l, Kept(l)
  PROVE  /\ Silenced(l) => Silenced(l)'
         /\ \A n : SilencedTo(l, n) => SilencedTo(l, n)'
BY DEF Kept, Silenced, SilencedTo

\* The next call for d brings about what it should, and concerns no other logger.
LEMMA DefineStepDoes ==
  ASSUME LoggerTypes, NEW d \in Defines, NEW n \in Nat \ {0}, DefineStep(d, n), DefinedTo(d, n)
  PROVE  DefinedTo(d, n + 1)'
<1>1. /\ d.name \in Loggers /\ d.level \in Level
      /\ d.appenders \in Seq(AppenderDefine) /\ Len(d.appenders) \in Nat
  <2>1. d.name \in Loggers /\ d.level \in Level /\ d.appenders \in Seq(AppenderDefine)
    BY LoggingAssumption DEF LogDefine
  <2> QED BY <2>1, LenProperties
<1>2. Base(d) \in {2, 3} /\ (d.format # NoFormat => Base(d) = 3)
  BY DEF Base
<1> DEFINE s == m_appenders[d.name]
<1>3. s \in Seq(Appender) /\ Len(s) \in Nat
  BY <1>1, LenProperties DEF LoggerTypes
<1>4. CASE n = 1 /\ SetLevel(d.name, d.level)
  BY <1>1, <1>2, <1>4 DEF SetLevel, LoggerTypes, DefinedTo
<1>5. CASE n = 2 /\ d.format # NoFormat /\ SetFormatter(d.name, d.format)
  <2>1. UNCHANGED m_level
    BY <1>5 DEF SetFormatter, loggerVars
  <2> QED BY <1>2, <1>5, <2>1 DEF DefinedTo
<1>6. CASE n = Base(d) /\ ClearAppender(d.name)
  <2>1. m_level' = m_level /\ m_appenders'[d.name] = <<>>
    BY <1>1, <1>6 DEF ClearAppender, LoggerTypes
  <2>2. n + 1 - Base(d) - 1 = 0 /\ n > 1
    BY <1>2, <1>6
  <2>3. Listed(<<>>, d, 0)
    BY DEF Listed
  <2>4. Listed(m_appenders'[d.name], d, (n + 1) - Base(d) - 1)
    <3> DEFINE m == (n + 1) - Base(d) - 1
    <3>1. m = 0
      BY <1>2, <1>6
    <3> HIDE DEF m
    <3>2. Listed(m_appenders'[d.name], d, m)
      BY <2>1, <2>3, <3>1
    <3> QED BY <3>2 DEF m
  <2>5. m_level'[d.name] = d.level
    BY <2>1, <2>2 DEF DefinedTo
  <2> QED BY <2>4, <2>5 DEF DefinedTo
<1>7. ASSUME NEW i \in 1 .. Len(d.appenders), n = Base(d) + i,
             AddAppender(d.name, d.appenders[i])
      PROVE  DefinedTo(d, n + 1)'
  <2> DEFINE a == NewAppender(d.name, d.appenders[i])
  <2>1. m_level' = m_level /\ m_appenders'[d.name] = Append(s, a)
    BY <1>1, <1>7 DEF AddAppender, LoggerTypes
  <2>2. d.appenders[i] \in AppenderDefine
    BY <1>1, ElementOfSeq
  <2>3. a \in Appender /\ Fits(a, d.appenders[i])
    BY <1>1, <2>2, NewAppenderFits
  <2>4. n > Base(d) /\ n > 1 /\ n - Base(d) - 1 = i - 1 /\ n + 1 - Base(d) - 1 = i
    BY <1>1, <1>2, <1>7
  <2>5. Listed(s, d, i - 1) /\ m_level[d.name] = d.level
    BY <2>4 DEF DefinedTo
  <2> HIDE DEF a, s
  <2>6. /\ Len(Append(s, a)) = Len(s) + 1
        /\ \A j \in 1 .. Len(s) : Append(s, a)[j] = s[j]
        /\ Append(s, a)[Len(s) + 1] = a
    BY <1>3, <2>3, AppendProperties
  <2>7. Len(s) = i - 1 /\ \A j \in 1 .. i - 1 : Fits(s[j], d.appenders[j])
    BY <2>5 DEF Listed
  <2>8. \A j \in 1 .. i : Fits(Append(s, a)[j], d.appenders[j])
    <3> TAKE j \in 1 .. i
    <3>1. CASE j = i
      BY <2>3, <2>6, <2>7, <3>1
    <3>2. CASE j \in 1 .. i - 1
      BY <2>6, <2>7, <3>2
    <3>3. i \in Nat
      BY <1>1
    <3>4. j = i \/ j \in 1 .. i - 1
      BY <3>3
    <3> QED BY <3>1, <3>2, <3>4
  <2>9. Listed(Append(s, a), d, i)
    BY <1>1, <1>7, <2>6, <2>7, <2>8 DEF Listed
  <2>10. Listed(m_appenders'[d.name], d, (n + 1) - Base(d) - 1)
    <3> DEFINE m == (n + 1) - Base(d) - 1
    <3>1. m = i
      BY <1>2, <1>7
    <3> HIDE DEF m
    <3>2. Listed(m_appenders'[d.name], d, m)
      BY <2>1, <2>9, <3>1
    <3> QED BY <3>2 DEF m
  <2>11. m_level'[d.name] = d.level
    BY <2>1, <2>5
  <2> QED BY <2>10, <2>11 DEF DefinedTo
<1> QED BY <1>4, <1>5, <1>6, <1>7 DEF DefineStep

LEMMA DefineStepFrame ==
  ASSUME LoggerTypes, NEW d \in Defines, NEW n, DefineStep(d, n), NEW k \in Loggers, k # d.name
  PROVE  Kept(k)
BY SameIsKept DEF DefineStep, SetLevel, SetFormatter, ClearAppender, AddAppender,
   LoggerTypes, loggerVars

\* Nothing is said of the loggers while two reloads overlap.
LEMMA NoneTended ==
  ASSUME tended' = {}, \E r \in Reloaders : loading'[r] # Null
  PROVE  RInv'
BY DEF RInv, OneLoads, Settled, Changed, Reached

\* A step of no listener keeps what the configuration has brought about.
LEMMA KeptAll ==
  ASSUME LInv, RInv, failed = "none", failed' # "new_logger",
         UNCHANGED <<m_val, loading, tended>>,
         \A r \in Reloaders : /\ todo'[r].defines = todo[r].defines
                              /\ todo'[r].removed = todo[r].removed
                              /\ todo'[r].step = todo[r].step,
         \A k \in Loggers : Kept(k)
  PROVE  RInv'
<1>1. ConfigTypes
  BY TypeParts DEF LInv
<1>2. ASSUME NEW d \in Defines
      PROVE  /\ Defined(d) => Defined(d)'
             /\ \A n \in Nat : DefinedTo(d, n) => DefinedTo(d, n)'
  <2>1. Kept(d.name) /\ Len(d.appenders) \in Nat
    BY LenProperties, LoggingAssumption DEF LogDefine
  <2> QED BY <2>1, KeptKeeps
<1>3. ASSUME NEW l \in Loggers
      PROVE  /\ Silenced(l) => Silenced(l)'
             /\ \A n : SilencedTo(l, n) => SilencedTo(l, n)'
  BY KeptSilence
<1>4. Settled' => Unchanged'
  BY <1>1, <1>2, <1>3 DEF RInv, Settled, Unchanged, ConfigTypes, Configs, NamesOf
<1>5. ASSUME NEW new \in SUBSET Defines, NEW w, NEW w2, w.step \in Nat, Reached(new, w),
             w2.step = w.step, w2.defines = w.defines, w2.removed = w.removed
      PROVE  Reached(new, w2)'
  <2>1. UNCHANGED tended /\ tended \subseteq Loggers
    BY <1>1 DEF ConfigTypes
  <2>2. ASSUME NEW d \in new, d.name \in tended
        PROVE  IF d \in w2.defines THEN d = Item(w2.defines) => DefinedTo(d, w2.step)'
                                   ELSE Defined(d)'
    <3>1. IF d \in w.defines THEN d = Item(w.defines) => DefinedTo(d, w.step) ELSE Defined(d)
      BY <1>5, <2>2 DEF Reached
    <3>2. d \in Defines
      BY <2>2
    <3>3. Defined(d) => Defined(d)'
      BY <1>2, <3>2
    <3>4. DefinedTo(d, w.step) => DefinedTo(d, w.step)'
      BY <1>2, <1>5, <3>2
    <3>5. DefinedTo(d, w.step)' <=> DefinedTo(d, w2.step)'
      BY <1>5
    <3> QED BY <1>5, <3>1, <3>3, <3>4, <3>5
  <2>3. ASSUME NEW l \in tended \ NamesOf(new)
        PROVE  IF l \in w2.removed
               THEN w2.defines = {} /\ l = Item(w2.removed) => SilencedTo(l, w2.step)'
               ELSE Silenced(l)'
    BY <1>3, <1>5, <2>1, <2>3 DEF Reached
  <2> QED BY <2>1, <2>2, <2>3 DEF Reached
<1>6. ASSUME NEW r \in Reloaders, loading[r] # Null
      PROVE  Changed(r)'
  <2>1. Reached(loading[r], todo[r])
    BY <1>6 DEF RInv, Changed
  <2>2. loading[r] \subseteq Defines /\ todo[r].step \in Nat
    BY <1>1, <1>6 DEF ConfigTypes, Configs
  <2>3. PICK new, w, w2 : new = loading[r] /\ w = todo[r] /\ w2 = todo'[r]
    OBVIOUS
  <2>4. Reached(new, w2)'
    BY <1>5, <2>1, <2>2, <2>3
  <2>5. new = loading'[r] /\ w2 = todo'[r]
    BY <2>3
  <2> QED BY <2>4, <2>5 DEF Changed, Reached
<1> QED BY <1>4, <1>6 DEF RInv, OneLoads

LEMMA ReloadChanged ==
  ASSUME LInv, RInv, failed = "none", NEW r \in Reloaders, NEW new \in Configs, Reload(r, new)
  PROVE  RInv'
<1>1. ConfigTypes
  BY TypeParts DEF LInv
<1>2. new # Null /\ loading' = [loading EXCEPT ![r] = new] /\ loading'[r] = new
  <2>1. new # Null
    BY LoggingAssumption DEF Configs
  <2> QED BY <1>1, <2>1 DEF Reload, ConfigTypes
<1>3. CASE ~\A q \in Reloaders : loading[q] = Null
  <2>1. tended' = {}
    BY <1>3 DEF Reload
  <2> QED BY <1>2, <2>1, NoneTended
<1>4. CASE \A q \in Reloaders : loading[q] = Null
  <2>1. tended' = tended \cup NamesOf(m_val) \cup NamesOf(new)
    BY <1>4 DEF Reload
  <2>2. todo'[r] = Work(new)
    BY <1>1 DEF Reload, ConfigTypes
  <2>3. /\ Work(new).defines = new /\ Work(new).removed = NamesOf(m_val) \ NamesOf(new)
        /\ Work(new).step = 1
    BY DEF Work
  <2>4. \A q \in Reloaders : loading'[q] # Null => q = r
    BY <1>1, <1>2, <1>4 DEF ConfigTypes
  <2>5. UNCHANGED <<m_level, m_appenders, failed>>
    BY DEF Reload, loggerVars
  <2>6. Unchanged
    BY <1>4 DEF RInv, Settled
  <2>7. \A d : DefinedTo(d, 1)'
    BY DEF DefinedTo, Base
  <2>8. \A l : SilencedTo(l, 1)'
    BY DEF SilencedTo
  <2>9. ASSUME NEW l \in tended', l \notin NamesOf(new), l \notin NamesOf(m_val)
        PROVE  Silenced(l)'
    BY <2>1, <2>5, <2>6, <2>9 DEF Unchanged, Silenced
  <2>10. Changed(r)'
    BY <1>2, <2>2, <2>3, <2>7, <2>8, <2>9 DEF Changed, Reached
  <2> QED BY <1>2, <2>4, <2>5, <2>10 DEF RInv, OneLoads, Settled
<1> QED BY <1>3, <1>4

\* When all have returned, the work of the one who has reloaded is done.
LEMMA CommitChanged ==
  ASSUME LInv, RInv, failed = "none", NEW r \in Reloaders, Commit(r)
  PROVE  RInv'
<1>1. ConfigTypes /\ \A q \in Reloaders : todo[q] = NoWork
  BY CommitTypes, TypeParts DEF LInv
<1>2. /\ UNCHANGED <<m_level, m_appenders, failed, tended, todo>>
      /\ m_val' = loading[r] /\ loading[r] # Null
      /\ loading' = [loading EXCEPT ![r] = Null]
  BY DEF Commit, loggerVars
<1>3. CASE tended = {}
  <2>1. OneLoads' /\ Unchanged' /\ \A q \in Reloaders : Changed(q)'
    BY <1>2, <1>3 DEF OneLoads, Unchanged, Changed, Reached
  <2> QED BY <1>2, <2>1 DEF RInv
<1>4. CASE tended # {}
  <2>1. \A q \in Reloaders : loading'[q] = Null
    BY <1>1, <1>2, <1>4 DEF RInv, OneLoads, ConfigTypes
  <2>2. Changed(r) /\ NoWork.defines = {} /\ NoWork.removed = {}
    BY <1>2 DEF RInv, NoWork
  <2>3. Unchanged'
    BY <1>1, <1>2, <2>2 DEF Changed, Reached, Unchanged, Defined, Silenced
  <2> QED BY <1>2, <2>1, <2>3 DEF RInv, OneLoads
<1> QED BY <1>3, <1>4

\* The only reload there is makes its next call for d.
LEMMA DefineChanged ==
  ASSUME LInv, NEW r \in Reloaders, ListenerCall(r), loading[r] # Null,
         NEW d \in Defines, DefineCall(r, d), d \notin m_val,
         NEW L, NEW w, NEW w2, L = loading[r], w = todo[r], w2 = todo'[r], Reached(L, w)
  PROVE  Reached(L, w2)'
<1>1. /\ ConfigTypes /\ LoggerTypes /\ w \in WorkRecord
      /\ w.step \in Nat \ {0} /\ w.step <= Total(w)
      /\ L \in Configs /\ w.defines \subseteq L
      /\ w.removed \cap NamesOf(L) = {}
  BY TypeParts, WorkHasCall DEF LInv, WorkOK, ConfigTypes, WorkRecord
<1>2. /\ UNCHANGED <<loading, tended>> /\ DefineStep(d, w.step)
      /\ d \in w.defines /\ d = Item(w.defines)
  BY DEF ListenerCall, historyVars, DefineCall
<1>3. d.name \in Loggers /\ Len(d.appenders) \in Nat /\ Base(d) \in Nat /\ L \subseteq Defines
  BY <1>1, LenProperties, LoggingAssumption DEF LogDefine, Base, Configs
<1>4. Total(w) = Base(d) + Len(d.appenders)
  BY <1>2 DEF Total
<1>5. \/ /\ w.step < Base(d) + Len(d.appenders)
         /\ w2.step = w.step + 1 /\ w2.defines = w.defines /\ w2.removed = w.removed
      \/ /\ w.step = Base(d) + Len(d.appenders)
         /\ w2.step = 1 /\ w2.defines = w.defines \ {d} /\ w2.removed = w.removed
  <2>1. w2 = IF w.step < Base(d) + Len(d.appenders) THEN [w EXCEPT !.step = @ + 1]
             ELSE [w EXCEPT !.defines = @ \ {d}, !.step = 1]
    BY <1>1 DEF DefineCall, ConfigTypes
  <2>2. CASE w.step < Base(d) + Len(d.appenders)
    <3>1. w2 = [w EXCEPT !.step = w.step + 1] /\ w.step + 1 \in Nat \ {0}
      BY <1>1, <2>1, <2>2
    <3> QED BY <1>1, <2>2, <3>1, StepTo
  <2>3. CASE ~(w.step < Base(d) + Len(d.appenders))
    <3>1. w2 = [w EXCEPT !.defines = @ \ {d}, !.step = 1]
      BY <2>1, <2>3
    <3>2. w.step = Base(d) + Len(d.appenders)
      BY <1>1, <1>3, <1>4, <2>3
    <3>3. w2.step = 1 /\ w2.defines = w.defines \ {d} /\ w2.removed = w.removed
      BY <1>1, <3>1 DEF WorkRecord
    <3> QED BY <3>2, <3>3
  <2> QED BY <2>2, <2>3
<1>6. d.name \in tended => DefinedTo(d, w.step + 1)'
  <2> SUFFICES ASSUME d.name \in tended PROVE DefinedTo(d, w.step + 1)'
    OBVIOUS
  <2>1. DefinedTo(d, w.step)
    BY <1>1, <1>2 DEF Reached
  <2> QED BY <1>1, <1>2, <2>1, DefineStepDoes
<1>7. \A k \in Loggers : k # d.name => Kept(k)
  BY <1>1, <1>2, DefineStepFrame
<1>8. ASSUME NEW e \in L, e.name \in tended
      PROVE  IF e \in w2.defines THEN e = Item(w2.defines) => DefinedTo(e, w2.step)'
                                 ELSE Defined(e)'
  <2>1. IF e \in w.defines THEN e = Item(w.defines) => DefinedTo(e, w.step) ELSE Defined(e)
    BY <1>8 DEF Reached
  <2>2. e # d => e.name # d.name
    BY <1>1, <1>2, <1>8 DEF Configs
  <2>3. e \in Defines /\ e.name \in Loggers /\ Len(e.appenders) \in Nat
    BY <1>3, <1>8, LenProperties, LoggingAssumption DEF LogDefine
  <2>4. e # d /\ Defined(e) => Defined(e)'
    BY <1>7, <2>2, <2>3, KeptKeeps
  <2>5. CASE w.step < Base(d) + Len(d.appenders)
    <3>1. w2.step = w.step + 1 /\ w2.defines = w.defines
      BY <1>1, <1>3, <1>5, <2>5
    <3> QED BY <1>2, <1>6, <1>8, <2>1, <2>4, <3>1
  <2>6. CASE w.step = Base(d) + Len(d.appenders)
    <3>1. w2.step = 1 /\ w2.defines = w.defines \ {d}
      BY <1>1, <1>3, <1>5, <2>6
    <3>2. DefinedTo(e, 1)'
      BY DEF DefinedTo, Base
    <3>3. ASSUME e = d
          PROVE  Defined(e)'
      <4> DEFINE m == (w.step + 1) - Base(d) - 1
      <4>1. w.step + 1 > Base(d) /\ w.step + 1 > 1 /\ m = Len(d.appenders)
        BY <1>1, <1>3, <2>6
      <4>2. Listed(m_appenders'[d.name], d, m) /\ m_level'[d.name] = d.level
        BY <1>6, <1>8, <3>3, <4>1 DEF DefinedTo
      <4> HIDE DEF m
      <4> QED BY <3>3, <4>1, <4>2 DEF Defined
    <3> QED BY <2>1, <2>4, <3>1, <3>2, <3>3
  <2> QED BY <1>5, <2>5, <2>6
<1>9. ASSUME NEW l \in tended \ NamesOf(L)
      PROVE  IF l \in w2.removed
             THEN w2.defines = {} /\ l = Item(w2.removed) => SilencedTo(l, w2.step)'
             ELSE Silenced(l)'
  <2>1. IF l \in w.removed THEN w.defines = {} /\ l = Item(w.removed) => SilencedTo(l, w.step)
                           ELSE Silenced(l)
    BY <1>9 DEF Reached
  <2>2. l # d.name /\ l \in Loggers
    BY <1>1, <1>2, <1>9 DEF NamesOf, ConfigTypes
  <2>3. Silenced(l) => Silenced(l)'
    BY <1>7, <2>2, KeptSilence
  <2>4. w2.removed = w.removed /\ (w2.defines = {} => w2.step = 1)
    BY <1>2, <1>5
  <2>5. SilencedTo(l, 1)'
    BY DEF SilencedTo
  <2> QED BY <2>1, <2>3, <2>4, <2>5
<1> QED BY <1>2, <1>8, <1>9 DEF Reached

\* Or for the name l, that is gone.
LEMMA RemovedChanged ==
  ASSUME LInv, NEW r \in Reloaders, ListenerCall(r), loading[r] # Null,
         NEW l \in Loggers, RemovedCall(r, l),
         NEW L, NEW w, NEW w2, L = loading[r], w = todo[r], w2 = todo'[r], Reached(L, w)
  PROVE  Reached(L, w2)'
<1>1. /\ ConfigTypes /\ LoggerTypes /\ w \in WorkRecord
      /\ L \in Configs /\ w.removed \cap NamesOf(L) = {}
  BY TypeParts, WorkHasCall DEF LInv, WorkOK, ConfigTypes
<1>2. /\ UNCHANGED <<loading, tended>>
      /\ w.defines = {} /\ l \in w.removed /\ l = Item(w.removed)
  BY DEF ListenerCall, historyVars, RemovedCall
<1>3. \/ /\ w.step = 1 /\ SetLevel(l, SILENT)
         /\ w2.step = 2 /\ w2.defines = {} /\ w2.removed = w.removed
      \/ /\ w.step = 2 /\ ClearAppender(l)
         /\ w2.step = 1 /\ w2.defines = {} /\ w2.removed = w.removed \ {l}
  <2>1. CASE w.step = 1 /\ SetLevel(l, SILENT) /\ todo' = [todo EXCEPT ![r].step = 2]
    <3>1. w2 = [w EXCEPT !.step = 2]
      BY <1>1, <2>1 DEF ConfigTypes
    <3> QED BY <1>1, <1>2, <2>1, <3>1, StepTo
  <2>2. CASE /\ w.step = 2 /\ ClearAppender(l)
             /\ todo' = [todo EXCEPT ![r] = [w EXCEPT !.removed = @ \ {l}, !.step = 1]]
    <3>1. w2 = [w EXCEPT !.removed = @ \ {l}, !.step = 1]
      BY <1>1, <2>2 DEF ConfigTypes
    <3>2. w2.step = 1 /\ w2.defines = w.defines /\ w2.removed = w.removed \ {l}
      BY <1>1, <3>1 DEF WorkRecord
    <3> QED BY <1>2, <2>2, <3>2
  <2> QED BY <2>1, <2>2 DEF RemovedCall
<1>4. \A k \in Loggers : k # l => Kept(k)
  BY <1>1, SameIsKept DEF RemovedCall, SetLevel, ClearAppender, LoggerTypes
<1>5. ASSUME NEW e \in L, e.name \in tended
      PROVE  Defined(e)'
  <2>1. Defined(e)
    BY <1>2, <1>5 DEF Reached
  <2>2. e \in Defines /\ e.name \in NamesOf(L)
    BY <1>1, <1>5 DEF Configs, NamesOf
  <2>3. e.name \in Loggers /\ Len(e.appenders) \in Nat
    BY <2>2, LenProperties, LoggingAssumption DEF LogDefine
  <2>4. e.name # l
    BY <1>1, <1>2, <2>2
  <2> QED BY <1>4, <2>1, <2>2, <2>3, <2>4, KeptKeeps
<1>6. l \in tended => SilencedTo(l, w.step)
  BY <1>1, <1>2 DEF Reached
<1>7. ASSUME NEW k \in tended \ NamesOf(L)
      PROVE  IF k \in w2.removed
             THEN w2.defines = {} /\ k = Item(w2.removed) => SilencedTo(k, w2.step)'
             ELSE Silenced(k)'
  <2>1. IF k \in w.removed THEN w.defines = {} /\ k = Item(w.removed) => SilencedTo(k, w.step)
                           ELSE Silenced(k)
    BY <1>7 DEF Reached
  <2>2. k \in Loggers
    BY <1>1, <1>7 DEF ConfigTypes
  <2>3. k # l /\ Silenced(k) => Silenced(k)'
    BY <1>4, <2>2, KeptSilence
  <2>4. CASE w2.step = 2
    <3>1. w2.removed = w.removed /\ SetLevel(l, SILENT)
      BY <1>3, <2>4
    <3>2. m_level'[l] = SILENT
      BY <1>1, <3>1 DEF SetLevel, LoggerTypes
    <3> QED BY <1>2, <2>1, <2>3, <3>1, <3>2 DEF SilencedTo
  <2>5. CASE w2.step = 1
    <3>1. w.step = 2 /\ w2.removed = w.removed \ {l} /\ ClearAppender(l)
      BY <1>3, <2>5
    <3>2. SilencedTo(k, 1)'
      BY DEF SilencedTo
    <3>3. k = l => Silenced(k)'
      BY <1>1, <1>6, <1>7, <3>1 DEF SilencedTo, Silenced, ClearAppender, LoggerTypes
    <3> QED BY <2>1, <2>3, <2>5, <3>1, <3>2, <3>3
  <2> QED BY <1>3, <2>4, <2>5
<1> QED BY <1>2, <1>3, <1>5, <1>7 DEF Reached

LEMMA InitRInv == Init => RInv
BY DEF Init, RInv, OneLoads, Settled, Unchanged

\* A call of a listener: of the only one that reloads, or while nothing is said.
LEMMA CallRInv ==
  ASSUME LInv, RInv, failed = "none", NEW r \in Reloaders, ListenerCall(r)
  PROVE  RInv'
<1>1. WorkOK(r) /\ todo[r] # NoWork /\ ConfigTypes
  BY WorkHasCall, TypeParts DEF LInv
<1>2. loading[r] # Null /\ UNCHANGED <<m_val, loading, tended>>
  BY <1>1 DEF WorkOK, ListenerCall, historyVars
<1>3. CASE tended = {}
  BY <1>2, <1>3, NoneTended
<1>4. CASE tended # {} /\ failed' # "new_logger"
  <2>1. \A q \in Reloaders : loading[q] # Null => q = r
    BY <1>2, <1>4 DEF RInv, OneLoads
  <2>2. Reached(loading[r], todo[r])
    BY <1>2 DEF RInv, Changed
  <2>3. PICK L, w, w2 : L = loading[r] /\ w = todo[r] /\ w2 = todo'[r]
    OBVIOUS
  <2>4. Reached(L, w2)'
    <3>1. CASE todo[r].defines # {}
      <4>1. PICK d \in Defines : DefineCall(r, d)
        BY <3>1, CallForDefine
      <4>2. d \notin m_val
        BY <1>4, <4>1 DEF DefineCall
      <4> QED BY <1>2, <2>2, <2>3, <4>1, <4>2, DefineChanged
    <3>2. CASE todo[r].defines = {}
      <4>1. PICK l \in Loggers : RemovedCall(r, l)
        BY <3>2, CallForRemoved
      <4> QED BY <1>2, <2>2, <2>3, <4>1, RemovedChanged
    <3> QED BY <3>1, <3>2
  <2>5. Changed(r)'
    <3>1. L = loading'[r] /\ w2 = todo'[r]
      BY <1>2, <2>3
    <3> QED BY <2>4, <3>1 DEF Changed, Reached
  <2> QED BY <1>2, <1>4, <2>1, <2>5 DEF RInv, OneLoads, Settled
<1>5. CASE failed' = "new_logger"
  <2>1. OneLoads' /\ ~Settled'
    BY <1>2 DEF RInv, OneLoads, Settled
  <2> QED BY <1>2, <1>5, <2>1 DEF RInv
<1> QED BY <1>3, <1>4, <1>5

LEMMA NextRInv ==
  ASSUME LInv, RInv, [Next]_vars
  PROVE  RInv'
<1>1. CASE UNCHANGED vars
  BY <1>1 DEF vars, loggerVars, configVars, historyVars, RInv, OneLoads, Settled, Unchanged, Changed,
     Reached, Defined, DefinedTo, Silenced, SilencedTo
<1>2. LoggerTypes /\ ConfigTypes
  BY TypeParts DEF LInv
<1>3. ASSUME failed = "none", failed' # "new_logger", UNCHANGED configVars,
             \A k \in Loggers : Kept(k)
      PROVE  RInv'
  BY <1>3, KeptAll DEF configVars, historyVars
<1>4. ASSUME failed = "none", NEW t \in Writers, NEW l \in Loggers, NEW f, FormatCall(t, l, f)
      PROVE  RInv'
  BY <1>2, <1>3, <1>4, SetFormatterKeeps DEF FormatCall
<1>5. ASSUME UNCHANGED <<m_level, m_appenders>>
      PROVE  \A k \in Loggers : Kept(k)
  BY <1>5, SameIsKept
<1>6. ASSUME failed = "none", NEW t \in Threads, LogStep(t)
      PROVE  RInv'
  <2>1. UNCHANGED <<m_level, m_appenders, configVars>> /\ failed' # "new_logger"
    BY <1>6 DEF LogStep, LevelCheck, LockLogger, Write, Unlock, loggerVars, Fail
  <2> QED BY <1>3, <1>5, <1>6, <2>1
<1>7. ASSUME failed = "none", NEW t, NEW l, NEW v, LogCall(t, l, v)
      PROVE  RInv'
  <2>1. UNCHANGED <<m_level, m_appenders, configVars, failed>>
    BY <1>7 DEF LogCall, loggerVars
  <2> QED BY <1>3, <1>5, <1>7, <2>1
<1>8. ASSUME failed = "none", NEW r \in Reloaders, ListenerLog(r)
      PROVE  RInv'
  <2>1. UNCHANGED <<m_level, m_appenders, failed, m_val, loading, tended>>
    BY <1>8 DEF ListenerLog, loggerVars, historyVars
  <2>2. \A q \in Reloaders : /\ todo'[q].defines = todo[q].defines
                             /\ todo'[q].removed = todo[q].removed
                             /\ todo'[q].step = todo[q].step
    <3>1. todo' = [todo EXCEPT ![r].log = FALSE]
      BY <1>8 DEF ListenerLog
    <3> TAKE q \in Reloaders
    <3>2. todo[q] \in WorkRecord
      BY <1>2 DEF ConfigTypes, WorkRecord
    <3> QED BY <1>2, <3>1, <3>2 DEF ConfigTypes, WorkRecord
  <2> QED BY <1>5, <1>8, <2>1, <2>2, KeptAll
<1> QED BY <1>1, <1>4, <1>6, <1>7, <1>8, CallRInv, ReloadChanged, CommitChanged DEF Next, Step, Crashed

THEOREM RInvHolds == Spec => []RInv
BY InitRInv, NextRInv, LInvHolds, PTL DEF Spec

\* When all calls of setValue() have returned, the loggers that reloads have
\* changed since two of them last overlapped are as the configuration says, and
\* no thread writes by the appenders of one that it no longer names.
THEOREM ReconfiguredHolds == Spec => []Reconfigured
<1>1. LInv /\ WritesOK /\ RInv => Reconfigured
  <2> SUFFICES ASSUME LInv, WritesOK, RInv, Settled
               PROVE  Reconfigured
    BY DEF Reconfigured
  <2>1. Unchanged /\ ConfigTypes /\ ThreadTypes
    BY TypeParts DEF RInv, LInv
  <2>2. ASSUME NEW d \in m_val, d.name \in tended
        PROVE  /\ m_level[d.name] = d.level
               /\ Len(m_appenders[d.name]) = Len(d.appenders)
               /\ \A i \in DOMAIN d.appenders : Fits(m_appenders[d.name][i], d.appenders[i])
    <3>1. Defined(d)
      BY <2>1, <2>2 DEF Unchanged
    <3>2. DOMAIN d.appenders = 1 .. Len(d.appenders)
      BY <2>1, LenProperties, LoggingAssumption DEF ConfigTypes, Configs, LogDefine
    <3> QED BY <3>1, <3>2 DEF Defined, Listed
  <2>3. ASSUME NEW l \in tended \ NamesOf(m_val)
        PROVE  /\ m_level[l] = SILENT
               /\ m_appenders[l] = <<>>
               /\ \A t \in Threads : ~(pc[t] = "write" /\ current[t] = l)
    <3>1. m_level[l] = SILENT /\ m_appenders[l] = <<>>
      BY <2>1, <2>3 DEF Unchanged, Silenced
    <3>2. ASSUME NEW t \in Threads, pc[t] = "write", current[t] = l
          PROVE  FALSE
      <4>1. next[t] <= 0 /\ next[t] \in Nat \ {0}
        BY <2>1, <3>1, <3>2 DEF WritesOK, ThreadTypes
      <4> QED BY <4>1
    <3> QED BY <3>1, <3>2
  <2> QED BY <2>2, <2>3 DEF Reconfigured, Fits
<1> QED BY <1>1, LInvHolds, WritesHold, RInvHolds, PTL
=============================================================================
