------------------------------ MODULE MCFollow -------------------------------
(* Bodies of up to six symbols in up to three chunks, against lines of two *)
(* symbols: lines cut between chunks, chunks cut between windows, pieces    *)
(* without a newline, bodies that end without one, and none at all.         *)
EXTENDS Follow

MCSymbols == {"newline", "instant", "text"}

(* A chunk of one or two symbols, up to two such chunks, and a longer line. *)
MCChunks == UNION {[1..n -> MCSymbols] : n \in 1..2}

MCBodies ==
  UNION {[1..n -> MCChunks] : n \in 0..2}
    \cup { << << "instant", "text", "text" >>, << "text", "newline" >>, << "text" >> >> }

MCFramings == {"chunked", "length", "to_end"}

MCAsked ==
  [follow : BOOLEAN, previous : {FALSE}, timestamps : BOOLEAN]
    \cup {[follow |-> TRUE, previous |-> TRUE, timestamps |-> FALSE]}
=============================================================================
