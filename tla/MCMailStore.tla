----------------------------- MODULE MCMailStore -----------------------------
(* A mail to an inbox and to an outbox that does not exist at first, an    *)
(* APPEND of two parts to the inbox, of which one is passed over and one   *)
(* is not well-formed, an APPEND to the outbox without a Subject, and a    *)
(* mail without parts.                                                     *)
EXTENDS MailStore, TLC

CONSTANTS w1, w2, r1, c1, m1, b1, a1, n1, inA, out

MCtargets == (m1 :> <<inA, out>>) @@ (a1 :> <<inA, inA>>) @@ (n1 :> <<out>>) @@ (b1 :> << >>)
MCSkipped == {<<a1, 1>>}
MCNoText  == {<<n1, 1>>}
MCOdd     == {<<a1, 2>>}
Symm == Permutations(Writers)
=============================================================================
