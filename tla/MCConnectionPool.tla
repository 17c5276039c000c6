-------------------------- MODULE MCConnectionPool --------------------------
(* Three users, one of them a keeper, and three connections. *)
EXTENDS ConnectionPool
CONSTANTS u1, u2, u3, n1, n2, n3
=============================================================================
