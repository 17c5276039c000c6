---------------------------- MODULE MCStreamRoute ----------------------------
(***************************************************************************)
(* Processor.route over every small routing table and every short list of  *)
(* addresses: one step looks up one address.                               *)
(***************************************************************************)
EXTENDS StreamRoute, FiniteSets

CONSTANTS Addrs,      \* addresses a message can be sent to
          Queues,     \* target queues
          MaxPoints,  \* bound: points of a table
          MaxTo       \* bound: addresses of a message

Point == [mask : SUBSET Addrs, q : Queues, last : BOOLEAN]

-----------------------------------------------------------------------------
VARIABLES maskRoute,  \* the table of the interface
          tos,        \* ufbs.getTO(): addresses not looked up yet
          done,       \* addresses looked up
          r           \* outqueue, and how the last getRoute left
vars == <<maskRoute, tos, done, r>>

(* cfg_interface.parse appends the default route, which matches everything. *)
Tables ==
    LET points == BoundedSeq(Point, MaxPoints - 1)
        default == {<<>>} \cup {<<[mask |-> Addrs, q |-> x, last |-> FALSE]>> : x \in Queues}
    IN  {t \o d : t \in points, d \in default}

Init ==
    /\ maskRoute \in Tables
    /\ tos \in BoundedSeq(Addrs, MaxTo)
    /\ done = << >>
    /\ r = NoRoute

(* The loop of Processor.route: one getRoute for each address. *)
route ==
    /\ tos # << >>
    /\ ~r.throws
    /\ r' = getRoute(maskRoute, Head(tos), r)
    /\ done' = Append(done, Head(tos))
    /\ tos' = Tail(tos)
    /\ UNCHANGED maskRoute

Next == route

Spec == Init /\ [][Next]_vars
-----------------------------------------------------------------------------
WantedAll == UNION {Wanted(maskRoute, done[k]) : k \in DOMAIN done}

(***************************************************************************)
(* getRoute never sends a message to a queue its addresses do not ask for, *)
(* and when it returns normally no wanted queue is missing, whatever the   *)
(* inner comparison does (cfg_interface.getRoute).                         *)
(***************************************************************************)
RouteReachesWanted ==
    /\ ToSet(r.out) \subseteq WantedAll
    /\ ~r.throws => ToSet(r.out) = WantedAll

(***************************************************************************)
(* A message with one address leaves getRoute normally exactly when one    *)
(* point at most matches up to the first LAST one.  The second match reads *)
(* outqueue.get(i) beyond the single destination found so far, so a table  *)
(* with a default route needs LAST on every other point: otherwise the     *)
(* thread of Processor.run ends on the first message it should move.       *)
(***************************************************************************)
OneAddressReturns ==
    Len(done) = 1 => (~r.throws <=> Cardinality(Matching(maskRoute, done[1])) <= 1)

(***************************************************************************)
(* The comment in getRoute: a matching point is added when it is a new     *)
(* address.  So no queue occurs twice, and the search always completes.    *)
(***************************************************************************)
AddsNewAddressesOnly == ~r.throws /\ IsInjective(r.out)
=============================================================================
