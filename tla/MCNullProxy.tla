----------------------------- MODULE MCNullProxy -----------------------------
(***************************************************************************)
(* One connection over which each peer sends up to three chunks; or two    *)
(* connections that share the list, of which the first carries a chunk in  *)
(* each direction.                                                         *)
(***************************************************************************)
EXTENDS NullProxy

CONSTANTS c1, c2

MCone == [c \in Conns |-> 3]
MCtwo == [c \in Conns |-> IF c = c1 THEN 1 ELSE 0]
=============================================================================
