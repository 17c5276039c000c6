-------------------------- MODULE MCStreamProcessor --------------------------
(***************************************************************************)
(* Two processors on one source queue, as after a change of configuration. *)
(* The table of interface i1 sends m1 to two queues, m2 nowhere (so to the *)
(* error queue) and m3 to one queue; that of i2 throws on m1.              *)
(***************************************************************************)
EXTENDS StreamProcessor, TLC

CONSTANTS i1, i2, s1, q1, q2, qe, m1, m2, m3, p1, p2

R == INSTANCE StreamRoute

MCsource == [i \in Ifaces |-> s1]
MCerror  == [i \in Ifaces |-> qe]

(* Addresses are the strings "a" and "b". *)
pt(mask, q, last) == [mask |-> mask, q |-> q, last |-> last]
table == (i1 :> <<pt({"a"}, q1, FALSE), pt({"b"}, q2, TRUE)>>) @@
         (i2 :> <<pt({"b"}, q1, FALSE), pt({"a"}, q1, FALSE), pt({"a"}, q2, FALSE)>>)
tos   == (m1 :> <<"b", "a">>) @@ (m2 :> << >>) @@ (m3 :> <<"b">>)

res(to, throws) == [to |-> to, throws |-> throws]
MCroute ==
    [i \in Ifaces |-> [m \in Msgs |->
        IF m = m2 THEN res(<< >>, FALSE)
        ELSE IF i = i1 THEN res(IF m = m1 THEN <<q2, q1>> ELSE <<q2>>, FALSE)
        ELSE res(<<q1>>, m = m1)]]

(* These are the destinations Processor.route computes from the tables. *)
ASSUME MCrouteIsComputed ==
    \A i \in Ifaces, m \in Msgs : MCroute[i][m] = R!routeAll(table[i], tos[m])

MCsize  == [m \in Msgs |-> CHOOSE n \in 1 .. 4 : <<m, n>> \in {<<m1, 2>>, <<m2, 3>>, <<m3, 4>>}]
=============================================================================
