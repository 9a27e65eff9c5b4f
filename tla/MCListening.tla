---------------------------- MODULE MCListening ----------------------------
(* A document for TLC: it is written empty, and an item joins it. *)
EXTENDS Listening
CONSTANTS p1, i1

SetAndJoin ==
  {[op |-> "set", path |-> p1, items |-> {}], [op |-> "join", path |-> p1, items |-> {i1}]}
=============================================================================
