------------------------------- MODULE MCConfig -------------------------------
(* Two threads; "s", a map of vectors or an int, and its member "s.v"; the      *)
(* definitions of loggers "l"; and a name that is refused.                      *)
EXTENDS Registry

CONSTANTS t1, t2

MCThreads == {t1, t2}
MCInteger == {"1", "2"}
MCBadWords == {"P"}

Number     == <<"int">>
Str     == <<"string">>
Vectors == <<"map", <<"vector", Str>>>>
Defines == <<"set", <<"define">>>>

MCNames == {<<"s">>, <<"s", "v">>, <<"l">>, <<"P">>}

MCTypesOf ==
  <<"s">> :> {Vectors, Number} @@ <<"s", "v">> :> {<<"vector", Str>>}
  @@ <<"l">> :> {Defines} @@ <<"P">> :> {Number}

Def(level, appenders) ==
  [name |-> Plain("n"), level |-> level, format |-> NoText, appenders |-> appenders]

ToConsole == [level |-> "UNKNOWN", format |-> NoText, type |-> 2, file |-> NoText]

MCValues ==
  Number :> {"1"} @@ Vectors :> {[v |-> <<Plain("a")>>]} @@ <<"vector", Str>> :> {<<>>}
  @@ Defines :> {{Def("INFO", <<ToConsole>>)}}

ScalarOf(a) == Scalar(Plain(a))

Appender == Mapping([type |-> ScalarOf("FileLogAppender"), path |-> ScalarOf("f")])
Untyped  == Mapping([level |-> ScalarOf("info")])

\* A file in which every part converts, but "s" only to a map, whose member "v"
\* has the name of the member "s.v" of the file, which is read as two nulls; and
\* one in which "s" converts to an int only, and nothing else, and has its name
\* through an empty key.
Good ==
  Mapping("s" :> Mapping([v |-> Sequence(<<ScalarOf("b"), Scalar(Block(NullNode))>>)])
          @@ "s.v" :> Mapping([a |-> ScalarOf("b"), b |-> NullNode])
          @@ "l" :> Sequence(<<Mapping([name |-> ScalarOf("n"), level |-> ScalarOf("debug"),
                                        appenders |-> Sequence(<<Appender>>)]),
                               Mapping([name |-> ScalarOf("n")]), NullNode>>))
Faulty ==
  Mapping("" :> Mapping([s |-> ScalarOf("2")])
          @@ "P" :> Mapping([v |-> ScalarOf("b")])
          @@ "l" :> Sequence(<<Mapping([name |-> ScalarOf("n"),
                                        appenders |-> Sequence(<<Untyped>>)])>>))
MCDocuments == {Good, Faulty}

MCWordsOf == [key \in Keys |-> IF key = "s.v" THEN <<"s", "v">> ELSE <<key>>]

RECURSIVE WithInside(_), DepthOf(_)

\* A node with the nodes inside it.
WithInside(node) ==
  {node} \cup
  CASE Kind(node) \in {"seq", "map"} -> UNION {WithInside(n) : n \in Range(node[2])}
    [] Kind(node) = "scalar" -> IF node[2][2] = "block" THEN WithInside(node[2][3]) ELSE {}
    [] Kind(node) = "null" -> {}

DepthOf(node) ==
  IF Kind(node) = "map" THEN 1 + Max({DepthOf(n) : n \in Range(node[2])}) ELSE 0

MCNodes == UNION {WithInside(root) : root \in MCDocuments}
MCDepth == [node \in MCNodes |-> DepthOf(node)]

Symmetry == Permutations(MCThreads)
==============================================================================
