------------------------------- MODULE Logging -------------------------------
(***************************************************************************)
(* Loggers in use while their configuration is reloaded: Logger, its        *)
(* appenders and formatters (components/log.{h,cpp}), and the listener of   *)
(* the variable "logs" that LogIniter registers (log.cpp:631-690).          *)
(*                                                                         *)
(* Threads write messages; others, the reloaders, give the variable new     *)
(* values.  The listener runs under the read lock of the variable, so that  *)
(* several of them may execute it at once; a value is stored under the      *)
(* write lock, when nobody does.  Each Logger has a spinlock; its level is  *)
(* read and written without it.  A step is a critical section of a spinlock *)
(* or an access to a level, except that Logger::log holds the lock for      *)
(* several steps: one for each appender, and those of the root logger that  *)
(* it falls back to.                                                        *)
(*                                                                         *)
(* getLogger() makes a logger with default values for a new name, so that a *)
(* logger that nobody has asked for is represented by those.  The appenders *)
(* of the two types differ in where they write, which is left out; the      *)
(* lock of an appender is taken and released within one step.               *)
(***************************************************************************)
EXTENDS Integers, Sequences

CONSTANTS
  Writers,     \* threads that write messages
  Reloaders,   \* threads that reload the configuration
  Root,        \* the name of the root logger
  Names,       \* the names of the other loggers
  Formats,     \* the format patterns that parse
  BadFormat,   \* a pattern that LogFormatter::init rejects
  NoFormat,    \* the empty pattern: no format is given
  DefaultFormat, \* the pattern of the constructor of Logger
  Null,        \* the null pointer
  Defines,     \* the definitions of loggers that configurations consist of
  Levels       \* the levels of the messages that are written

Threads == Writers \cup Reloaders
Loggers == Names \cup {Root}

\* LogLevel::Level, and the level that silences a removed logger.
Level == 0 .. 5
INFO == 2
SILENT == 100

AppenderDefine == [level : Level, format : Formats \cup {BadFormat, NoFormat}]
LogDefine == [name : Loggers, level : Level, format : Formats \cup {BadFormat, NoFormat},
              appenders : Seq(AppenderDefine)]

ASSUME LoggingAssumption ==
  /\ Reloaders \cap Writers = {}
  /\ Root \notin Names
  /\ Null \notin Threads \cup Loggers \cup Formats \cup {DefaultFormat}
  /\ \A c \in SUBSET Defines : c # Null
  /\ {BadFormat, NoFormat} \cap (Formats \cup {DefaultFormat}) = {}
  /\ BadFormat # NoFormat
  /\ Defines \subseteq LogDefine
  /\ Levels \subseteq Level \ {0}

\* The values of std::set<LogDefine>, which is ordered by the name.
Configs == {c \in SUBSET Defines : \A d, e \in c : d.name = e.name => d = e}
NamesOf(c) == {d.name : d \in c}

Formatter == Formats \cup {DefaultFormat}
Appender == [level : Level, formatter : Formatter \cup {Null}, hasFormatter : BOOLEAN]

VARIABLES
  m_level,      \* per logger
  m_formatter,  \* per logger
  m_appenders,  \* per logger: the list of its appenders
  m_mutex,      \* per logger: the thread that holds its spinlock, or Null
  m_val,        \* the value of g_log_defines
  loading,      \* per reloader: the value its setValue() gives it, or Null
  todo,         \* per reloader: what the loops of the listener have still to do
  base,         \* history: per reloader, the old value of its reload
  tended,       \* history: the names reloaded since two reloads overlapped
  configured,   \* history: the names that reloads have defined
  pc,           \* per thread: where it is in Logger::log
  message,      \* per thread: the logger and the level of its message
  current,      \* per thread: the logger whose log() it executes
  next,         \* per thread: the index of the appender that is to write
  failed        \* the null pointer that was followed, or "none"

loggerVars == <<m_level, m_formatter, m_appenders, m_mutex>>
historyVars == <<base, tended, configured>>
configVars == <<m_val, loading, todo, historyVars>>
callVars   == <<pc, message, current, next>>
vars == <<loggerVars, configVars, callVars, failed>>

\* A listener that has nothing to do.
NoWork == [log |-> FALSE, defines |-> {}, removed |-> {}, step |-> 1]

\* The message of a thread that writes none.
NoMessage == [logger |-> Root, level |-> 0]

\* Logger::m_root
m_root(l) == IF l = Root THEN Null ELSE Root

Init ==
  /\ m_level = [l \in Loggers |-> 1]
  /\ m_formatter = [l \in Loggers |-> DefaultFormat]
  /\ m_appenders = [l \in Loggers |->
       IF l = Root
       THEN <<[level |-> 0, formatter |-> DefaultFormat, hasFormatter |-> FALSE]>>
       ELSE <<>>]
  /\ m_mutex = [l \in Loggers |-> Null]
  /\ m_val = {}
  /\ loading = [r \in Reloaders |-> Null]
  /\ todo = [r \in Reloaders |-> NoWork]
  /\ base = [r \in Reloaders |-> {}]
  /\ tended = {}
  /\ configured = {}
  /\ pc = [t \in Threads |-> "idle"]
  /\ message = [t \in Threads |-> NoMessage]
  /\ current = [t \in Threads |-> Root]
  /\ next = [t \in Threads |-> 1]
  /\ failed = "none"

Goto(t, label) == pc' = [pc EXCEPT ![t] = label]
Fail(what) == failed' = what

-----------------------------------------------------------------------------
(* Writing a message: the macros LOG_..., and Logger::log. *)

\* The macro compares the level; the event is logged by ~LogEventWrap.
LogMacro(t, l, level) ==
  /\ pc[t] = "idle"
  /\ level >= m_level[l]
  /\ message' = [message EXCEPT ![t] = [logger |-> l, level |-> level]]
  /\ current' = [current EXCEPT ![t] = l]
  /\ Goto(t, "check")
  /\ UNCHANGED next

\* log() returns to its caller.
Leave(t) ==
  /\ Goto(t, "idle")
  /\ message' = [message EXCEPT ![t] = NoMessage]
  /\ current' = [current EXCEPT ![t] = Root]

\* Mutant of Return: the logger that has fallen back is left locked.
ReturnToCaller(t) == Leave(t)

\* log() returns: to the log() of the logger that has fallen back to this one,
\* which holds its lock, or to the caller.
Return(t) ==
  IF current[t] = message[t].logger
  THEN Leave(t)
  ELSE Goto(t, "unlock") /\ UNCHANGED message /\ current' = [current EXCEPT ![t] = message[t].logger]

\* log() compares the level again, without the lock.
LevelCheck(t) ==
  /\ pc[t] = "check"
  /\ IF message[t].level >= m_level[current[t]]
     THEN Goto(t, "lock") /\ UNCHANGED <<message, current>>
     ELSE Return(t)
  /\ UNCHANGED <<loggerVars, configVars, next, failed>>

\* The lock is taken.  A logger without appenders calls the root logger's log()
\* while it holds its own lock; the root logger has no root.
LockLogger(t) ==
  LET l == current[t] IN
  /\ pc[t] = "lock"
  /\ m_mutex[l] = Null
  /\ m_mutex' = [m_mutex EXCEPT ![l] = t]
  /\ \/ /\ m_appenders[l] # <<>>
        /\ next' = [next EXCEPT ![t] = 1]
        /\ Goto(t, "write")
        /\ UNCHANGED <<current, failed>>
     \/ /\ m_appenders[l] = <<>> /\ m_root(l) # Null
        /\ current' = [current EXCEPT ![t] = m_root(l)]
        /\ Goto(t, "check")
        /\ UNCHANGED <<next, failed>>
     \/ /\ m_appenders[l] = <<>> /\ m_root(l) = Null
        /\ Fail("m_root")
        /\ UNCHANGED <<pc, current, next>>
  /\ UNCHANGED <<m_level, m_formatter, m_appenders, configVars, message>>

\* LogAppender::log of one appender, which uses its formatter if the level is
\* high enough.
Write(t) ==
  LET list == m_appenders[current[t]]
      a == list[next[t]]
  IN
  /\ pc[t] = "write"
  /\ IF message[t].level >= a.level /\ a.formatter = Null
     THEN Fail("m_formatter")
     ELSE UNCHANGED failed
  /\ IF next[t] < Len(list)
     THEN next' = [next EXCEPT ![t] = @ + 1] /\ UNCHANGED pc
     ELSE Goto(t, "unlock") /\ next' = [next EXCEPT ![t] = 1]
  /\ UNCHANGED <<loggerVars, configVars, message, current>>

\* The lock is released when log() returns.
Unlock(t) ==
  /\ pc[t] = "unlock"
  /\ m_mutex' = [m_mutex EXCEPT ![current[t]] = Null]
  /\ Return(t)
  /\ UNCHANGED <<m_level, m_formatter, m_appenders, configVars, next, failed>>

-----------------------------------------------------------------------------
(* Changing a logger.  No lock is held before or after. *)

Locked(l) == m_mutex[l] # Null

\* Mutant of NewAppender: a format that does not parse is taken.
NewAppenderUnparsed(l, d) ==
  LET own == d.format # NoFormat IN
  [level |-> d.level, formatter |-> IF own THEN d.format ELSE m_formatter[l],
   hasFormatter |-> own]

\* An appender as the listener makes it and addAppender() completes it: a
\* format that does not parse is ignored, the logger's takes the place of none.
NewAppender(l, d) ==
  LET own == d.format \in Formats IN
  [level |-> d.level, formatter |-> IF own THEN d.format ELSE m_formatter[l],
   hasFormatter |-> own]

AddAppender(l, d) ==
  /\ ~Locked(l)
  /\ m_appenders' = [m_appenders EXCEPT ![l] = Append(@, NewAppender(l, d))]
  /\ UNCHANGED <<m_level, m_formatter, m_mutex>>

\* Mutant of ClearAppender: the lock is not taken.
ClearAppenderUnlocked(l) ==
  /\ m_appenders' = [m_appenders EXCEPT ![l] = <<>>]
  /\ UNCHANGED <<m_level, m_formatter, m_mutex>>

ClearAppender(l) ==
  /\ ~Locked(l)
  /\ m_appenders' = [m_appenders EXCEPT ![l] = <<>>]
  /\ UNCHANGED <<m_level, m_formatter, m_mutex>>

SetLevel(l, level) ==
  /\ m_level' = [m_level EXCEPT ![l] = level]
  /\ UNCHANGED <<m_formatter, m_appenders, m_mutex>>

\* Mutant of SetFormatter: the appenders keep the formatter they have.
SetFormatterLoggerOnly(l, f) ==
  \/ /\ f = BadFormat
     /\ UNCHANGED loggerVars
  \/ /\ f \in Formats
     /\ ~Locked(l)
     /\ m_formatter' = [m_formatter EXCEPT ![l] = f]
     /\ UNCHANGED <<m_level, m_appenders, m_mutex>>

\* setFormatter(pattern): a pattern that does not parse changes nothing; another
\* is given to the appenders that have none of their own, too.
SetFormatter(l, f) ==
  \/ /\ f = BadFormat
     /\ UNCHANGED loggerVars
  \/ /\ f \in Formats
     /\ ~Locked(l)
     /\ m_formatter' = [m_formatter EXCEPT ![l] = f]
     /\ m_appenders' = [m_appenders EXCEPT ![l] =
          [i \in DOMAIN @ |-> IF @[i].hasFormatter THEN @[i]
                              ELSE [@[i] EXCEPT !.formatter = f]]]
     /\ UNCHANGED <<m_level, m_mutex>>

-----------------------------------------------------------------------------
(* The listener of the variable "logs", as the calls that it makes in turn. *)

SetLevelOp(l, v)  == [op |-> "setLevel", logger |-> l, level |-> v]
SetFormatOp(l, f) == [op |-> "setFormatter", logger |-> l, format |-> f]
ClearOp(l)        == [op |-> "clearAppender", logger |-> l]
AddOp(l, d)       == [op |-> "addAppender", logger |-> l, appender |-> d]

\* Mutant of ForDefine: the appenders of the preceding definition are kept.
ForDefineNoClear(old, d) ==
  LET l == IF d \in old THEN Null ELSE d.name IN
  <<SetLevelOp(l, d.level)>>
  \o (IF d.format # NoFormat THEN <<SetFormatOp(l, d.format)>> ELSE <<>>)
  \o [i \in DOMAIN d.appenders |-> AddOp(l, d.appenders[i])]

\* A definition that is new, or differs from the old one of its name; for one
\* that does not differ, the pointer new_logger is null.
ForDefine(old, d) ==
  LET l == IF d \in old THEN Null ELSE d.name IN
  <<SetLevelOp(l, d.level)>>
  \o (IF d.format # NoFormat THEN <<SetFormatOp(l, d.format)>> ELSE <<>>)
  \o <<ClearOp(l)>>
  \o [i \in DOMAIN d.appenders |-> AddOp(l, d.appenders[i])]

\* A name that is no longer defined: its logger is silenced, not deleted.
ForRemoved(l) == <<SetLevelOp(l, SILENT), ClearOp(l)>>

\* What the listener does for a change to new: it writes a message, then goes
\* through the new definitions, then through the names that are gone.
Work(new) == [log |-> TRUE, defines |-> new,
              removed |-> NamesOf(m_val) \ NamesOf(new), step |-> 1]

\* Where a loop over a set has come to: the order does not matter.
Item(S) == CHOOSE x \in S : TRUE

Calls(r) == IF todo[r].defines # {} THEN ForDefine(m_val, Item(todo[r].defines))
                                    ELSE ForRemoved(Item(todo[r].removed))

\* The work that is left behind the next call.
Rest(r) ==
  LET w == todo[r] IN
  IF w.step < Len(Calls(r)) THEN [w EXCEPT !.step = @ + 1]
  ELSE IF w.defines # {} THEN [w EXCEPT !.defines = @ \ {Item(@)}, !.step = 1]
  ELSE [w EXCEPT !.removed = @ \ {Item(@)}, !.step = 1]

\* A thread is in the listener, and holds the read lock of the variable.
Telling(r) == loading[r] # Null /\ (todo[r] # NoWork \/ pc[r] # "idle")

\* ConfigVar::setValue: an equal value changes nothing; another is told to the
\* listener first.  The old value is that of now, although other threads may
\* have told the listener of others that they have not stored.
Reload(r, new) ==
  /\ loading[r] = Null
  /\ new # m_val
  /\ loading' = [loading EXCEPT ![r] = new]
  /\ todo' = [todo EXCEPT ![r] = Work(new)]
  /\ tended' = IF \A q \in Reloaders : loading[q] = Null
               THEN tended \cup NamesOf(m_val) \cup NamesOf(new)
               ELSE {}
  /\ base' = [base EXCEPT ![r] = m_val]
  /\ configured' = configured \cup NamesOf(new)
  /\ UNCHANGED <<loggerVars, m_val, callVars, failed>>

\* The listener writes a message to the root logger, if its level admits it.
ListenerLog(r) ==
  /\ todo[r].log
  /\ IF INFO >= m_level[Root] THEN LogMacro(r, Root, INFO)
                              ELSE UNCHANGED callVars
  /\ todo' = [todo EXCEPT ![r].log = FALSE]
  /\ UNCHANGED <<loggerVars, m_val, loading, historyVars, failed>>

\* The listener makes its next call.
ListenerCall(r) ==
  LET c == Calls(r)[todo[r].step] IN
  /\ ~todo[r].log
  /\ todo[r].defines # {} \/ todo[r].removed # {}
  /\ pc[r] = "idle"
  /\ \/ /\ c.logger = Null
        /\ Fail("new_logger")
        /\ UNCHANGED loggerVars
     \/ /\ c.logger # Null
        /\ \/ c.op = "setLevel" /\ SetLevel(c.logger, c.level)
           \/ c.op = "setFormatter" /\ SetFormatter(c.logger, c.format)
           \/ c.op = "clearAppender" /\ ClearAppender(c.logger)
           \/ c.op = "addAppender" /\ AddAppender(c.logger, c.appender)
        /\ UNCHANGED failed
  /\ todo' = [todo EXCEPT ![r] = Rest(r)]
  /\ UNCHANGED <<m_val, loading, historyVars, callVars>>

\* Mutant of Commit: the write lock is not taken.
CommitUnlocked(r) ==
  /\ loading[r] # Null
  /\ ~Telling(r)
  /\ m_val' = loading[r]
  /\ loading' = [loading EXCEPT ![r] = Null]
  /\ base' = [base EXCEPT ![r] = {}]
  /\ UNCHANGED <<loggerVars, todo, tended, configured, callVars, failed>>

\* setValue() stores the value when the listener has returned, here and in all
\* other threads.
Commit(r) ==
  /\ loading[r] # Null
  /\ \A q \in Reloaders : ~Telling(q)
  /\ m_val' = loading[r]
  /\ loading' = [loading EXCEPT ![r] = Null]
  /\ base' = [base EXCEPT ![r] = {}]
  /\ UNCHANGED <<loggerVars, todo, tended, configured, callVars, failed>>

\* A thread of the program logs, or gives a logger another format.
LogCall(t, l, level) ==
  /\ LogMacro(t, l, level)
  /\ UNCHANGED <<loggerVars, configVars, failed>>

FormatCall(t, l, f) ==
  /\ pc[t] = "idle"
  /\ SetFormatter(l, f)
  /\ UNCHANGED <<configVars, callVars, failed>>

-----------------------------------------------------------------------------
LogStep(t) == LevelCheck(t) \/ LockLogger(t) \/ Write(t) \/ Unlock(t)

\* A program that has followed a null pointer does nothing more.
Crashed == failed # "none" /\ UNCHANGED vars

Step ==
  \/ \E t \in Writers, l \in Loggers, level \in Levels : LogCall(t, l, level)
  \/ \E t \in Writers, l \in Loggers, f \in Formats \cup {BadFormat} : FormatCall(t, l, f)
  \/ \E t \in Threads : LogStep(t)
  \/ \E r \in Reloaders :
       \/ \E new \in Configs : Reload(r, new)
       \/ ListenerLog(r) \/ ListenerCall(r) \/ Commit(r)

Next == (failed = "none" /\ Step) \/ Crashed

Spec == Init /\ [][Next]_vars

-----------------------------------------------------------------------------
(* Properties. *)

\* The variables have their types.
TypeOK ==
  /\ m_level \in [Loggers -> Level \cup {SILENT}]
  /\ m_formatter \in [Loggers -> Formatter]
  /\ m_appenders \in [Loggers -> Seq(Appender)]
  /\ m_mutex \in [Loggers -> Threads \cup {Null}]
  /\ m_val \in Configs
  /\ loading \in [Reloaders -> Configs \cup {Null}]
  /\ todo \in [Reloaders -> [log : BOOLEAN, defines : SUBSET Defines,
                            removed : SUBSET Loggers, step : Nat \ {0}]]
  /\ base \in [Reloaders -> Configs]
  /\ tended \subseteq Loggers
  /\ configured \subseteq Loggers
  /\ pc \in [Threads -> {"idle", "check", "lock", "write", "unlock"}]
  /\ message \in [Threads -> [logger : Loggers, level : Level]]
  /\ current \in [Threads -> Loggers]
  /\ next \in [Threads -> Nat \ {0}]
  /\ failed \in {"none", "m_root", "m_formatter", "new_logger"}

\* The spinlock of a logger is held by the thread that is inside its log(), or
\* inside the log() of the root logger that it has fallen back to, and by no
\* other, until the program crashes: none is left locked on any way out, and
\* log() never runs twice at once on one logger.
Inside(t, l) ==
  \/ current[t] = l /\ pc[t] \in {"write", "unlock"}
  \/ current[t] # l /\ message[t].logger = l /\ pc[t] # "idle"

LocksExact == failed = "none" =>
  \A l \in Loggers, t \in Threads : m_mutex[l] = t <=> Inside(t, l)

\* An appender without a format of its own uses that of its logger, after every
\* change of either, and each has one: log() follows the pointer unchecked.
FormatInherited ==
  \A l \in Loggers : \A i \in DOMAIN m_appenders[l] :
    LET a == m_appenders[l][i] IN
    /\ a.formatter # Null
    /\ ~a.hasFormatter => a.formatter = m_formatter[l]

\* The appenders of a logger do not change under a thread that goes through
\* them: a message is written by all of one list, never by a part of the next.
ListStable ==
  [][\A t \in Threads :
       pc[t] = "write" => m_appenders'[current[t]] = m_appenders[current[t]]]_vars

\* When all calls of setValue() have returned, the levels and the appenders of the
\* loggers that reloads have changed since two of them last overlapped are as the
\* configuration says, whatever the preceding ones said, whatever an overlap left
\* behind, and whoever logged meanwhile; the logger of a definition that is gone
\* is silent, and no thread writes by its appenders.  (A logger's own format is
\* not of them: a definition without one leaves that of an earlier one.)
Settled == \A r \in Reloaders : loading[r] = Null

Reconfigured == Settled =>
  /\ \A d \in m_val : d.name \in tended =>
       /\ m_level[d.name] = d.level
       /\ Len(m_appenders[d.name]) = Len(d.appenders)
       /\ \A i \in DOMAIN d.appenders :
            LET a == m_appenders[d.name][i] IN
            /\ a.level = d.appenders[i].level
            /\ a.hasFormatter <=> d.appenders[i].format \in Formats
            /\ a.hasFormatter => a.formatter = d.appenders[i].format
  /\ \A l \in tended \ NamesOf(m_val) :
       /\ m_level[l] = SILENT
       /\ m_appenders[l] = <<>>
       /\ \A t \in Threads : ~(pc[t] = "write" /\ current[t] = l)

\* log.h:289: a logger without appenders calls the log() of the root logger;
\* there is one to call.
FallbackExists == failed # "m_root"

\* Two null pointers are followed.  One is m_root, by log() of the root logger, and
\* only after a reload has defined that logger.  The other is new_logger, by the
\* listener, for a definition that the new value repeats from the old one: in such a
\* reload, and not in one that repeats nothing, however it overlaps another; and
\* always, so that setValue() never returns from it.  An appender in a list always
\* has a formatter.
Repeats(r) == loading[r] # Null /\ loading[r] \cap base[r] # {}

NullsFollowed ==
  /\ failed # "m_formatter"
  /\ failed = "m_root" => Root \in configured
  /\ failed = "new_logger" => \E r \in Reloaders : Repeats(r)
  /\ \A r \in Reloaders : Repeats(r) => Telling(r)
=============================================================================
