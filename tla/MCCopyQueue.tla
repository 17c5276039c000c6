----------------------------- MODULE MCCopyQueue -----------------------------
(* Two threads on one queue; one of the messages does not parse. *)
EXTENDS CopyQueue
CONSTANTS c1, c2, m1, m2, m3, m4
=============================================================================
