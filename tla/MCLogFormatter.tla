---------------------------- MODULE MCLogFormatter ----------------------------
(* All patterns of up to six characters, of two letters, both known, a          *)
(* character of texts, and the three that mean something to the parser.         *)
EXTENDS LogFormatter

MCKnown   == {"T", "n"}
MCLetters == MCKnown
MCOthers  == {"-"}
==============================================================================
