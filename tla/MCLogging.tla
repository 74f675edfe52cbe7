----------------------------- MODULE MCLogging -----------------------------
(* Instances of Logging for TLC: the definitions that configurations use.   *)
EXTENDS Logging, TLC

CONSTANTS t1, t2, r, q, root, app, f1, f2

Own(level, f) == [level |-> level, format |-> f]
Define(l, level, f, appenders) ==
  [name |-> l, level |-> level, format |-> f, appenders |-> appenders]

\* A logger with two definitions that replace each other, one of two appenders,
\* with a format that does not parse and with another one, and one of none; and
\* one of the root logger.
DefinesOfBoth == {
  Define(app, 1, f1, <<Own(0, BadFormat), Own(4, f2)>>),
  Define(app, 4, NoFormat, <<>>),
  Define(root, 1, NoFormat, <<Own(0, NoFormat)>>)}

\* The definition of the root logger in config/test_log.yml.
DefinesOfRoot == {Define(root, 2, f1, <<Own(0, NoFormat), Own(0, NoFormat)>>)}

WriterSymmetry == Permutations(Writers)
ReloaderSymmetry == Permutations(Reloaders)
=============================================================================
