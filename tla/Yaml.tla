-------------------------------- MODULE Yaml --------------------------------
(***************************************************************************)
(* The texts and nodes of configuration files, and what yaml-cpp makes of  *)
(* them.  A text is told apart by what YAML::Load gives for it:            *)
(*   <<q, "plain", a>>  a scalar that needs no quotes, and is not null, in *)
(*                      q pairs of quotes                                  *)
(*   <<q, "block", n>>  the text of a sequence, a map or null, the node n, *)
(*                      in q pairs of quotes                               *)
(* A node is a scalar, which holds a text, a sequence of nodes, a map from *)
(* keys to nodes, or null.                                                 *)
(***************************************************************************)
EXTENDS Integers, FiniteSets, SequencesExt

CONSTANT Nodes   \* the nodes of all files and texts, with those inside them

Plain(a)  == <<0, "plain", a>>
Block(n)  == <<0, "block", n>>
Quoted(t) == <<t[1] + 1, t[2], t[3]>>
Inside(t) == <<t[1] - 1, t[2], t[3]>>   \* without the outer quotes

IsPlain(t) == t[1] = 0 /\ t[2] = "plain"

Scalar(t)   == <<"scalar", t>>
Sequence(s) == <<"seq", s>>
Mapping(m)  == <<"map", m>>
NullNode    == <<"null">>

Kind(n) == n[1]
Has(node, key) == Kind(node) = "map" /\ key \in DOMAIN node[2]

IsText(t) ==
  /\ t = <<t[1], t[2], t[3]>> /\ t[1] \in Nat
  /\ t[2] = "plain" \/ (t[2] = "block" /\ t[3] \in Nodes /\ Kind(t[3]) # "scalar")

ASSUME NodesAssumption ==
  /\ NullNode \in Nodes
  /\ \A node \in Nodes :
       \/ node = NullNode
       \/ node = Scalar(node[2]) /\ IsText(node[2])
       \/ node = Sequence(node[2]) /\ node[2] \in Seq(Nodes)
       \/ /\ node = Mapping(node[2]) /\ IsFiniteSet(DOMAIN node[2])
          /\ \A key \in DOMAIN node[2] : node[2][key] \in Nodes

\* node[0], node[1], ... node[size() - 1].  In a map these are the members with
\* such a key; one that is not there is written as nothing, which reads as null.
Indexed(node) ==
  CASE Kind(node) = "seq" -> node[2]
    [] Kind(node) = "map" -> [i \in 1 .. Cardinality(DOMAIN node[2]) |->
                                LET key == ToString(i - 1) IN
                                IF Has(node, key) THEN node[2][key] ELSE NullNode]
    [] OTHER -> <<>>

\* YAML::Load, and writing a node to a stream: a scalar that could be taken for
\* something else is quoted.
Load(text) ==
  IF IsPlain(text) THEN Scalar(text)
  ELSE IF text[1] > 0 THEN Scalar(Inside(text)) ELSE text[3]

Emit(node) ==
  IF Kind(node) # "scalar" THEN Block(node)
  ELSE IF IsPlain(node[2]) THEN node[2] ELSE Quoted(node[2])
=============================================================================
