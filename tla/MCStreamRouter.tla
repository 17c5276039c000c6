---------------------------- MODULE MCStreamRouter ----------------------------
(***************************************************************************)
(* A configuration with two interfaces, one with one of them, and one that *)
(* does not parse.  Interface i1 reads s1, i2 reads s2.                    *)
(***************************************************************************)
EXTENDS StreamRouter, TLC

CONSTANTS i1, i2, s1, s2, q1, m1, c1, c2, bad, p1, p2, p3, p4

MCsource == (i1 :> s1) @@ (i2 :> s2)
MCerror  == [i \in Ifaces |-> q1]
MCroute  == [i \in Ifaces |-> [m \in Msgs |-> [to |-> <<q1>>, throws |-> i = i2]]]
MCsize   == [m \in Msgs |-> 1]
MCifaces == [c \in Configs |-> IF c = c1 THEN <<i1, i2>>
                               ELSE IF c = c2 THEN <<i1>> ELSE << >>]

(* Bound: once the process has ended, no command and only c2 was or is sent. *)
CrashesApart == crashes > 0 => cmdq = << >> /\ \A j \in DOMAIN cfgq : cfgq[j] = c2
=============================================================================
