-------------------------------- MODULE Files --------------------------------
(***************************************************************************)
(* Configuration files, LoadFromYaml() of components/config.cpp: the list  *)
(* of their nodes with their names.                                        *)
(*                                                                         *)
(* A name is the sequence of the words between its dots: "a.b" is          *)
(* <<"a", "b">>, and the empty name one word with nothing in it.  A key    *)
(* may have dots, too, or be empty, so that several nodes of a file may    *)
(* have one name.  Left out: a key that occurs twice in one map.           *)
(***************************************************************************)
EXTENDS Yaml

CONSTANTS
  WordsOf,     \* per key: the words between its dots
  BadWords,    \* words with a character that names may not have
  Documents,   \* the files that are loaded
  Depth        \* per node: how deep maps are nested in it, at most

Maps == {node \in Nodes : Kind(node) = "map"}
Keys == UNION {DOMAIN map[2] : map \in Maps}

Empty   == <<"">>
Words   == {""} \cup UNION {Range(WordsOf[key]) : key \in Keys}
Entries == (Seq(Words) \ {<<>>}) \X Nodes   \* a name and a node

ASSUME FilesAssumption ==
  /\ \A key \in Keys : WordsOf[key] \in Seq(Range(WordsOf[key])) \ {<<>>}
  /\ "" \notin BadWords
  /\ Documents \subseteq Nodes
  /\ Depth \in [Nodes -> Nat]
  /\ \A map \in Maps : \A key \in DOMAIN map[2] : Depth[map[2][key]] < Depth[map]

Bad(name) == \E i \in DOMAIN name : name[i] \in BadWords

\* prefix.empty() ? key : prefix + "." + key
Join(prefix, key) == IF prefix = Empty THEN WordsOf[key] ELSE prefix \o WordsOf[key]

MembersOf(entry, keys) ==
  [i \in DOMAIN keys |-> <<Join(entry[1], keys[i]), entry[2][2][keys[i]]>>]

\* Mutant of Members: one member is left out.
MembersButOne(entry) ==
  IF Kind(entry[2]) # "map" THEN <<>>
  ELSE MembersOf(entry, Tail(SetToSeq(DOMAIN entry[2][2])))

\* The members of a map, in its order, under their names.
Members(entry) ==
  IF Kind(entry[2]) # "map" THEN <<>> ELSE MembersOf(entry, SetToSeq(DOMAIN entry[2][2]))

\* Of a name and its node: itself and all below it, a map before its members.
\* An invalid name is left out, with all below it.
ListAllMember[entry \in Entries] ==
  IF Bad(entry[1]) THEN <<>>
  ELSE <<entry>> \o FlattenSeq([i \in DOMAIN Members(entry) |-> ListAllMember[Members(entry)[i]]])

Listing(root) == ListAllMember[<<Empty, root>>]

-----------------------------------------------------------------------------
\* What a file has one level below an entry, and n levels below its root.
Below(entry) ==
  IF Kind(entry[2]) # "map" THEN {}
  ELSE {<<Join(entry[1], key), entry[2][2][key]>> : key \in DOMAIN entry[2][2]}

Level[n \in Nat] ==
  [root \in Documents |->
     IF n = 0 THEN {<<Empty, root>>} ELSE UNION {Below(entry) : entry \in Level[n - 1][root]}]

\* The nodes of a file that have the name, if it is a valid one.  The empty name
\* is none.
NodesUnder(root, name) ==
  IF name = Empty \/ Bad(name) THEN {}
  ELSE {entry[2] : entry \in {e \in UNION {Level[n][root] : n \in 0 .. Depth[root]} : e[1] = name}}
=============================================================================
