----------------------------- MODULE StreamRoute -----------------------------
(***************************************************************************)
(* org.little.mq.stream.config.cfg_interface: the routing table of an      *)
(* interface and the computation of a message's destinations.              *)
(*                                                                         *)
(* A point of the table is a mask, the queue it leads to (cfg_addr.equals  *)
(* compares queue and manager names) and the LAST flag.  A mask is         *)
(* abstracted to the set of addresses stringWildCard.wildcardMatch accepts *)
(* for it; the default route has the mask "*" and is the last point.       *)
(***************************************************************************)
EXTENDS Integers, Sequences, SequencesExt

(***************************************************************************)
(* One iteration of the loop of getRoute, for point i.  The inner loop     *)
(* looks for the point among the destinations found so far with            *)
(* outqueue.get(i): the index is the one of the outer loop.  It throws     *)
(* IndexOutOfBoundsException when there are destinations but not i of      *)
(* them, and otherwise compares the point with the i-th one only.          *)
(***************************************************************************)
is_new(out, p, i) == out = << >> \/ out[i] # p.q

(* Mutant: the LAST flag of the point is ignored. *)
addPoint_nolast(r, p, i, to) ==
    IF r.throws \/ to \notin p.mask
    THEN r
    ELSE IF r.out # << >> /\ i > Len(r.out)
    THEN [r EXCEPT !.throws = TRUE]
    ELSE [r EXCEPT !.out = IF is_new(@, p, i) THEN Append(@, p.q) ELSE @]

addPoint(r, p, i, to) ==
    IF r.stop \/ r.throws \/ to \notin p.mask
    THEN r
    ELSE IF r.out # << >> /\ i > Len(r.out)
    THEN [r EXCEPT !.throws = TRUE]
    ELSE [r EXCEPT !.out = IF is_new(@, p, i) THEN Append(@, p.q) ELSE @,
                   !.stop = p.last]

(* outqueue before the first address *)
NoRoute == [out |-> << >>, stop |-> FALSE, throws |-> FALSE]

(* Mutant: every address starts with an empty outqueue. *)
getRoute_each(maskRoute, to, r) ==
    LET Step(acc, i) == addPoint(acc, maskRoute[i], i, to)
    IN  FoldLeft(Step, NoRoute, [i \in DOMAIN maskRoute |-> i])

(* getRoute(uic_to, outqueue) *)
getRoute(maskRoute, to, r) ==
    LET Step(acc, i) == addPoint(acc, maskRoute[i], i, to)
    IN  FoldLeft(Step, [r EXCEPT !.stop = FALSE],
                 [i \in DOMAIN maskRoute |-> i])

(* Processor.route for a message that could be parsed. *)
routeAll(maskRoute, tos) ==
    LET Step(acc, to) == getRoute(maskRoute, to, acc)
        r == FoldLeft(Step, NoRoute, tos)
    IN  [to |-> r.out, throws |-> r.throws]

-----------------------------------------------------------------------------
(***************************************************************************)
(* Reference: the queues an address should reach are those of the matching *)
(* points up to and including the first one that is LAST.                  *)
(***************************************************************************)
Matching(maskRoute, to) ==
    {i \in DOMAIN maskRoute :
        /\ to \in maskRoute[i].mask
        /\ \A j \in 1 .. i - 1 : ~(to \in maskRoute[j].mask /\ maskRoute[j].last)}

Wanted(maskRoute, to) == {maskRoute[i].q : i \in Matching(maskRoute, to)}

=============================================================================
