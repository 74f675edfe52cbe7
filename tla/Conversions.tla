----------------------------- MODULE Conversions -----------------------------
(***************************************************************************)
(* The conversions between the value of a configuration variable and its   *)
(* text: LexicalCast of components/config.h and, for the definitions of    *)
(* loggers, of components/log.cpp.  std::vector and std::list are modelled *)
(* as sequences, the two kinds of sets and of maps as sets and functions.  *)
(*                                                                         *)
(* A type is <<"int">>, <<"string">> or <<"define">>, or a container       *)
(* <<"vector", T>>, <<"set", T>> or <<"map", T>> of a type T that is one   *)
(* of these three or a container of one of them: LexicalCast, which calls  *)
(* itself for T, is bounded to two containers around each other.           *)
(*                                                                         *)
(* Left out: definitions whose name, level, format, type or path is not a  *)
(* scalar.                                                                 *)
(***************************************************************************)
EXTENDS Yaml

CONSTANT Integer   \* the atoms that boost::lexical_cast takes for an int

Basic == {<<"int">>, <<"string">>, <<"define">>}
Containers == {"vector", "set", "map"}
Simple == Basic \cup (Containers \X Basic)
AllTypes == Basic \cup (Containers \X Simple)

\* A conversion gives a value or throws.
Ok(v) == <<"ok", v>>
Throw == <<"throw">>

-----------------------------------------------------------------------------
(* LogLevel and LogDefine. *)
LevelNames == {"DEBUG", "INFO", "WARN", "ERROR", "FATAL"}

LowerCase == [debug |-> "DEBUG", info |-> "INFO", warn |-> "WARN",
              error |-> "ERROR", fatal |-> "FATAL"]

\* LogLevel::FromString.
LevelFromString(text) ==
  CASE IsPlain(text) /\ text[3] \in LevelNames -> text[3]
    [] IsPlain(text) /\ text[3] \in DOMAIN LowerCase -> LowerCase[text[3]]
    [] OTHER -> "UNKNOWN"

NoText == Plain("")   \* the empty string of a member that is not set

\* node[key].as<std::string>() where the key is there.
Field(node, key) == IF Has(node, key) THEN node[2][key][2] ELSE NoText

Elements(node, key) == IF Has(node, key) THEN Indexed(node[2][key]) ELSE <<>>

IsFile(node) == Field(node, "type") = Plain("FileLogAppender")

AppenderFrom(node) ==
  [level |-> LevelFromString(Field(node, "level")),
   format |-> Field(node, "format"),
   type |-> IF IsFile(node) THEN 1 ELSE 2,
   file |-> IF IsFile(node) THEN Field(node, "path") ELSE NoText]

\* as<std::string>() throws for a type, or for the path of a file, that is
\* missing.
AppenderThrows(node) == ~Has(node, "type") \/ (IsFile(node) /\ ~Has(node, "path"))

ErrorDefine == [name |-> Plain("__error__logger"), level |-> "UNKNOWN",
                format |-> NoText, appenders |-> <<>>]

\* LexicalCast<std::string, LogDefine>.  A scalar cannot be subscripted.
DefineFromString(text) ==
  LET node  == Load(text)
      nodes == Elements(node, "appenders")
  IN
  CASE Kind(node) = "scalar" -> Throw
    [] Kind(node) # "scalar" /\ ~Has(node, "name") -> Ok(ErrorDefine)
    [] Has(node, "name") ->
         IF \E i \in DOMAIN nodes : AppenderThrows(nodes[i])
         THEN Throw
         ELSE Ok([name |-> Field(node, "name"),
                  level |-> LevelFromString(Field(node, "level")),
                  format |-> Field(node, "format"),
                  appenders |-> [i \in DOMAIN nodes |-> AppenderFrom(nodes[i])]])

\* LexicalCast<LogDefine, std::string>.  The file goes under another key than
\* it is read from, the level of an appender into that of the logger, and the
\* format of an appender is left out.
AppenderNode(a) ==
  Mapping(IF a.type = 1
          THEN [type |-> Scalar(Plain("FileLogAppender")), file |-> Scalar(a.file)]
          ELSE [type |-> Scalar(Plain("StdoutLogAppender"))])

\* The last level that is known, of those of the logger and its appenders.
Levels(d) == [i \in 0 .. Len(d.appenders) |-> IF i = 0 THEN d.level ELSE d.appenders[i].level]
Known(d) == {i \in 0 .. Len(d.appenders) : Levels(d)[i] # "UNKNOWN"}

DefineToString(d) ==
  LET keys == {"name"} \cup (IF Known(d) # {} THEN {"level"} ELSE {})
                       \cup (IF d.format # NoText THEN {"format"} ELSE {})
                       \cup (IF d.appenders # <<>> THEN {"appenders"} ELSE {})
  IN
  Block(Mapping([key \in keys |->
    CASE key = "name"      -> Scalar(d.name)
      [] key = "level"     -> Scalar(Plain(Levels(d)[Max(Known(d))]))
      [] key = "format"    -> Scalar(d.format)
      [] key = "appenders" -> Sequence([i \in DOMAIN d.appenders |-> AppenderNode(d.appenders[i])])]))

-----------------------------------------------------------------------------
(* LexicalCast from a text. *)
basicFromString(type, text) ==
  CASE type = <<"int">> -> IF IsPlain(text) /\ text[3] \in Integer THEN Ok(text[3]) ELSE Throw
    [] type = <<"string">> -> Ok(text)
    [] type = <<"define">> -> DefineFromString(text)

\* The nodes that are converted one by one.
Items(type, node) ==
  CASE type[1] # "map" -> Indexed(node)
    [] type[1] = "map" /\ Kind(node) = "map" -> node[2]
    [] type[1] = "map" /\ Kind(node) # "map" -> <<>>

\* Mutant of Parts: the last element is left out.
PartsButLast(type, node) ==
  LET items == Items(type, node) IN
  [i \in IF type[1] = "map" THEN DOMAIN items ELSE 1 .. Len(items) - 1 |-> Emit(items[i])]

\* Their texts, each written to the stringstream.
Parts(type, node) == [i \in DOMAIN Items(type, node) |-> Emit(Items(type, node)[i])]

\* std::set<LogDefine> compares names: the first definition of a name stays.
SetOf(type, values) ==
  IF type = <<"define">>
  THEN {values[i] : i \in {j \in DOMAIN values :
                             \A k \in 1 .. j - 1 : values[k].name # values[j].name}}
  ELSE {values[i] : i \in DOMAIN values}

\* The container of the values, if all conversions give one.
Collected(type, casts) ==
  LET values == [i \in DOMAIN casts |-> casts[i][2]] IN
  IF \E i \in DOMAIN casts : casts[i] = Throw THEN Throw
  ELSE Ok(IF type[1] = "set" THEN SetOf(type[2], values) ELSE values)

\* The elements of a sequence have no keys.
containerFromString(type, node, casts) ==
  IF type[1] = "map" /\ Kind(node) = "seq" /\ node[2] # <<>> THEN Throw
  ELSE Collected(type, casts)

simpleFromString(type, text) ==
  LET parts == Parts(type, Load(text)) IN
  IF type \in Basic THEN basicFromString(type, text)
  ELSE containerFromString(type, Load(text),
                           [i \in DOMAIN parts |-> basicFromString(type[2], parts[i])])

fromString(type, text) ==
  LET parts == Parts(type, Load(text)) IN
  IF type \in Basic THEN basicFromString(type, text)
  ELSE containerFromString(type, Load(text),
                           [i \in DOMAIN parts |-> simpleFromString(type[2], parts[i])])

-----------------------------------------------------------------------------
(* LexicalCast to a text. *)
basicToString(type, value) ==
  CASE type = <<"int">> -> Plain(value)
    [] type = <<"string">> -> value
    [] type = <<"define">> -> DefineToString(value)

\* The node that push_back() or operator[] builds up of the texts: an element is
\* a scalar, a value of a map the node that its text stands for.
Built(type, texts) ==
  IF DOMAIN texts = {} THEN NullNode
  ELSE IF type[1] = "map" THEN Mapping([key \in DOMAIN texts |-> Load(texts[key])])
  ELSE Sequence([i \in DOMAIN texts |-> Scalar(texts[i])])

Ordered(type, value) == IF type[1] = "set" THEN SetToSeq(value) ELSE value

simpleToString(type, value) ==
  LET order == Ordered(type, value) IN
  IF type \in Basic THEN basicToString(type, value)
  ELSE Emit(Built(type, [i \in DOMAIN order |-> basicToString(type[2], order[i])]))

toString(type, value) ==
  LET order == Ordered(type, value) IN
  IF type \in Basic THEN basicToString(type, value)
  ELSE Emit(Built(type, [i \in DOMAIN order |-> simpleToString(type[2], order[i])]))

-----------------------------------------------------------------------------
(* LoadFromYaml(): a scalar is given to fromString() as it is, another node as  *)
(* it is written to a stream.                                                   *)
TextOf(node) == IF Kind(node) = "scalar" THEN node[2] ELSE Emit(node)

Throws(type, node) == fromString(type, TextOf(node)) = Throw
Converted(type, node) == fromString(type, TextOf(node))[2]

-----------------------------------------------------------------------------
(* The values of the types. *)
IsAppender(a) ==
  /\ a = [level |-> a.level, format |-> a.format, type |-> a.type, file |-> a.file]
  /\ a.level \in LevelNames \cup {"UNKNOWN"}
  /\ a.type \in {1, 2} /\ (a.type = 2 => a.file = NoText)

IsDefine(d) ==
  /\ d = [name |-> d.name, level |-> d.level, format |-> d.format, appenders |-> d.appenders]
  /\ d.level \in LevelNames \cup {"UNKNOWN"}
  /\ d.appenders \in Seq(Range(d.appenders))
  /\ \A i \in DOMAIN d.appenders : IsAppender(d.appenders[i])

basicIsValue(type, v) ==
  /\ type = <<"int">> => v \in Integer
  /\ type = <<"string">> => IsText(v)
  /\ type = <<"define">> => IsDefine(v)

containerIsValue(Lower(_, _), type, v) ==
  /\ type[1] = "vector" => v \in Seq(Range(v))
  /\ type[1] = "map" => v = [key \in DOMAIN v |-> v[key]]
  /\ type[1] # "set" => \A i \in DOMAIN v : Lower(type[2], v[i])
  /\ type[1] = "set" => IsFiniteSet(v) /\ \A x \in v : Lower(type[2], x)

simpleIsValue(type, v) ==
  IF type \in Basic THEN basicIsValue(type, v) ELSE containerIsValue(basicIsValue, type, v)
IsValue(type, v) ==
  IF type \in Basic THEN basicIsValue(type, v) ELSE containerIsValue(simpleIsValue, type, v)

-----------------------------------------------------------------------------
(* What the conversions are compared with. *)

\* The node stands for the definition of a logger.
DefineName(node) == IF Has(node, "name") THEN Field(node, "name") ELSE ErrorDefine.name

DenotesDefine(node, d) ==
  /\ d.name = DefineName(node)
  /\ d # ErrorDefine => Len(d.appenders) = Len(Elements(node, "appenders"))

\* The text stands for the value.  A scalar or null is an empty container, a map
\* a vector or set of as many elements, which are null unless their keys are
\* numbers; and a string in a container is there as YAML writes it, with its
\* quotes.
basicDenotes(type, text, value) ==
  /\ type = <<"int">> => text = Plain(value) /\ value \in Integer
  /\ type = <<"string">> => value = text
  /\ type = <<"define">> => DenotesDefine(Load(text), value)

containerDenotes(Lower(_, _, _), type, text, value) ==
  LET items == Items(type, Load(text))
      Stands(i, v) == Lower(type[2], Emit(items[i]), v)
      Name(i) == DefineName(Load(Emit(items[i])))
  IN
  /\ type[1] # "set" => /\ DOMAIN value = DOMAIN items
                        /\ \A i \in DOMAIN items : Stands(i, value[i])
  /\ type = <<"set", <<"define">>>> =>
       /\ {d.name : d \in value} = {Name(i) : i \in DOMAIN items}
       /\ \A d \in value : \E i \in DOMAIN items :
            Stands(i, d) /\ \A j \in 1 .. i - 1 : Name(j) # d.name
  /\ type[1] = "set" /\ type[2] # <<"define">> =>
       /\ \A v \in value : \E i \in DOMAIN items : Stands(i, v)
       /\ \A i \in DOMAIN items : \E v \in value : Stands(i, v)

simpleDenotes(type, text, value) ==
  IF type \in Basic THEN basicDenotes(type, text, value)
                    ELSE containerDenotes(basicDenotes, type, text, value)
Denotes(type, text, value) ==
  IF type \in Basic THEN basicDenotes(type, text, value)
                    ELSE containerDenotes(simpleDenotes, type, text, value)

\* The values that toString() writes so that fromString() reads them.  The text
\* of an element goes into a vector or set as one scalar: a sequence or map in it
\* is lost, and a string that needs quotes keeps them.  A map takes the texts of
\* its values apart again, and a string loses its quotes there.
InSequence(type, v) ==
  /\ type = <<"string">> => IsPlain(v)
  /\ type # <<"define">>
  /\ type[1] = "set" => v = {}
  /\ type[1] \in {"vector", "map"} => v = <<>>

basicReadable(type, value) ==
  type = <<"define">> =>
    \A i \in DOMAIN value.appenders :
      LET a == value.appenders[i] IN
      a.type = 2 /\ a.level = "UNKNOWN" /\ a.format = NoText

containerReadable(Lower(_, _), type, value) ==
  /\ type[1] = "vector" => \A i \in DOMAIN value : InSequence(type[2], value[i])
  /\ type[1] = "set" => \A v \in value : InSequence(type[2], v)
  /\ type[1] = "map" =>
       \A key \in DOMAIN value :
         IF type[2] = <<"string">>
         THEN ~(value[key][1] = 1 /\ value[key][2] = "plain")
         ELSE Lower(type[2], value[key])

simpleReadable(type, value) ==
  IF type \in Basic THEN basicReadable(type, value)
                    ELSE containerReadable(basicReadable, type, value)
Readable(type, value) ==
  IF type \in Basic THEN basicReadable(type, value)
                    ELSE containerReadable(simpleReadable, type, value)

ReadsBack(type, value) == fromString(type, toString(type, value)) = Ok(value)
=============================================================================
