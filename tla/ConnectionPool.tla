--------------------------- MODULE ConnectionPool ---------------------------
(***************************************************************************)
(* org.little.util.db.connection_pool: threads take a query (a database    *)
(* connection) with open() and give it back with close(q); close() shuts   *)
(* the pool.  open() scans the vector under its monitor, but makes a new   *)
(* connection outside of it; close(q) takes only the monitor of the pool;  *)
(* the database may drop a connection at any time.  The driver is loaded   *)
(* and configured (_init).                                                 *)
(*                                                                         *)
(* A user is a variable for a query in a thread of the program: one in     *)
(* most methods, two in folderDB.saveSerialX509, three in dbMAC.  open()   *)
(* assigns it, and an exception leaves it as it was: null in most methods, *)
(* but in keepDB.run and dbMAC it may still be the query of an earlier     *)
(* round, which is then closed once more.  Keepers are these variables.    *)
(***************************************************************************)
EXTENDS Integers, Sequences, SequencesExt, FiniteSets

CONSTANTS Users, Keepers, Queries, None,
          MaxDrops  \* bound: connections the database closes

ASSUME PoolAssumption ==
    /\ IsFiniteSet(Users) /\ Keepers \subseteq Users
    /\ None \notin Queries \cup Users /\ MaxDrops \in Nat

VARIABLES
    connections, \* the vector
    monitor,     \* who holds the monitor of the vector
    shut,        \* of close(): no, closed (connections closed), null (connections=null)
    pc, i, q,    \* of open(), by user; i[u] is 1 outside the scan, q[u] also while u uses it
    old,         \* old[u]: the query a keeper gave back and still refers to
    created,     \* queries ever made
    alive,       \* queries whose connection is open
    info,        \* info[n]: empty, run or stop
    drops,
    lost,        \* history: connections whose open() failed after they were made
    again        \* history: queries in use that a former user closed once more

poolVars == <<connections, shut>>
vars     == <<poolVars, monitor, pc, i, q, old, created, alive, info, drops, lost, again>>

Init ==
    /\ connections = << >> /\ monitor = None /\ shut = "no"
    /\ pc = [u \in Users |-> "out"] /\ i = [u \in Users |-> 1] /\ q = [u \in Users |-> None]
    /\ old = [u \in Users |-> None]
    /\ created = {} /\ alive = {} /\ info = [n \in Queries |-> "empty"]
    /\ drops = 0 /\ lost = {} /\ again = {}

to(u, l) == pc' = [pc EXCEPT ![u] = l]

(* open() up to synchronized(connections); null after close(): exception *)
open(u) ==
    /\ pc[u] = "out" /\ monitor = None
    /\ \/ /\ shut # "null"
          /\ monitor' = u /\ to(u, "scan")
          /\ i' = [i EXCEPT ![u] = 1]
       \/ /\ shut = "null"
          /\ UNCHANGED <<monitor, pc, i>>
    /\ UNCHANGED <<poolVars, q, old, created, alive, info, drops, lost, again>>

(* query.clear() and removeElementAt(k) *)
discard(k) ==
    /\ connections' = RemoveAt(connections, k)
    /\ alive' = alive \ {connections[k]}
    /\ info' = [info EXCEPT ![connections[k]] = "empty"]

(* Mutant: a connection in use is handed out. *)
take_any(u) ==
    /\ info[connections[i[u]]] # "empty" /\ q[u] = None
    /\ info' = [info EXCEPT ![connections[i[u]]] = "run"]
    /\ q' = [q EXCEPT ![u] = connections[i[u]]]
    /\ i' = [i EXCEPT ![u] = @ + 1]
    /\ UNCHANGED <<connections, alive>>

(* The first stopped query is restarted and will be the result. *)
take(u) ==
    /\ info[connections[i[u]]] = "stop" /\ q[u] = None
    /\ info' = [info EXCEPT ![connections[i[u]]] = "run"]
    /\ q' = [q EXCEPT ![u] = connections[i[u]]]
    /\ i' = [i EXCEPT ![u] = @ + 1]
    /\ UNCHANGED <<connections, alive>>

(* Mutant: the closed connection stays in the vector. *)
drop_closed_keep(u) ==
    /\ connections[i[u]] \notin alive
    /\ i' = [i EXCEPT ![u] = @ + 1]
    /\ UNCHANGED <<connections, alive, info, q>>

(* Mutant: it stays, and the scan starts over. *)
drop_closed_again(u) ==
    /\ connections[i[u]] \notin alive
    /\ i' = [i EXCEPT ![u] = 1]
    /\ UNCHANGED <<connections, alive, info, q>>

(* A closed connection is removed, in use or not; with i=0 and the i++ of *)
(* the loop the scan goes on with the second element.                     *)
drop_closed(u) ==
    /\ connections[i[u]] \notin alive
    /\ discard(i[u])
    /\ i' = [i EXCEPT ![u] = 2]
    /\ UNCHANGED q

(* Further stopped queries are closed if they are older than max_timeout. *)
drop_old(u) ==
    /\ connections[i[u]] \in alive /\ info[connections[i[u]]] = "stop" /\ q[u] # None
    /\ discard(i[u])
    /\ i' = [i EXCEPT ![u] = @ + 1]
    /\ UNCHANGED q

pass(u) ==
    /\ connections[i[u]] \in alive
    /\ info[connections[i[u]]] = "stop" => q[u] # None
    /\ i' = [i EXCEPT ![u] = @ + 1]
    /\ UNCHANGED <<connections, alive, info, q>>

(* One element of the scan; connections may become null under it. *)
scan(u) ==
    /\ pc[u] = "scan"
    /\ \/ /\ shut # "null" /\ i[u] <= Len(connections)
          /\ drop_closed(u) \/ drop_old(u) \/ pass(u) \/ (connections[i[u]] \in alive /\ take(u))
          /\ UNCHANGED <<monitor, pc>>
       \/ /\ shut # "null" /\ i[u] > Len(connections)
          /\ monitor' = None /\ i' = [i EXCEPT ![u] = 1]
          /\ to(u, IF q[u] = None THEN "connect" ELSE "use")
          /\ UNCHANGED <<connections, alive, info, q>>
       \/ /\ shut = "null"
          /\ monitor' = None /\ i' = [i EXCEPT ![u] = 1]
          /\ to(u, "out") /\ q' = [q EXCEPT ![u] = None]
          /\ UNCHANGED <<connections, alive, info>>
    /\ UNCHANGED <<shut, old, created, drops, lost, again>>

(* add(): getConnection and creatSt, either of which may fail *)
connect(u) ==
    /\ pc[u] = "connect"
    /\ \/ \E n \in Queries \ created :
            /\ created' = created \cup {n} /\ alive' = alive \cup {n}
            /\ \/ to(u, "add") /\ q' = [q EXCEPT ![u] = n] /\ info' = [info EXCEPT ![n] = "run"] /\ UNCHANGED lost
               \/ to(u, "out") /\ lost' = lost \cup {n} /\ UNCHANGED <<q, info>>
       \/ to(u, "out") /\ UNCHANGED <<created, alive, info, q, lost>>
    /\ UNCHANGED <<poolVars, monitor, i, old, drops, again>>

(* Mutant: the connection is not put into the vector. *)
addElement_not(u) ==
    /\ pc[u] = "add" /\ monitor = None
    /\ to(u, "use")
    /\ UNCHANGED <<connections, shut, q, old, lost, again, monitor, i, created, alive, info, drops>>

(* synchronized(connections) addElement(q); null after close(): exception *)
addElement(u) ==
    /\ pc[u] = "add" /\ monitor = None
    /\ \/ /\ shut # "null"
          /\ connections' = Append(connections, q[u])
          /\ to(u, "use") /\ UNCHANGED <<q, lost>>
       \/ /\ shut = "null"
          /\ to(u, "out") /\ q' = [q EXCEPT ![u] = None] /\ lost' = lost \cup {q[u]}
          /\ UNCHANGED connections
    /\ UNCHANGED <<shut, monitor, i, old, created, alive, info, drops, again>>

(* query.info.stop(), which has no effect on a cleared query *)
stop(n) == info' = [info EXCEPT ![n] = IF @ = "empty" THEN @ ELSE "stop"]

(* close(q), synchronized with close() *)
close_q(u) ==
    /\ pc[u] = "use" /\ shut # "closed"
    /\ stop(q[u])
    /\ q' = [q EXCEPT ![u] = None] /\ to(u, "out")
    /\ old' = [old EXCEPT ![u] = IF u \in Keepers THEN q[u] ELSE None]
    /\ UNCHANGED <<poolVars, monitor, i, created, alive, drops, lost, again>>

(* close(q) once more, of a query that may by now be in use elsewhere *)
close_again(u) ==
    /\ u \in Keepers /\ pc[u] = "out" /\ old[u] # None /\ shut # "closed"
    /\ stop(old[u])
    /\ again' = IF info[old[u]] = "run" THEN again \cup {old[u]} ELSE again
    /\ UNCHANGED <<poolVars, monitor, pc, i, q, old, created, alive, drops, lost>>

(* close() under the monitor of the vector: every connection is closed. *)
close ==
    /\ shut = "no" /\ monitor = None
    /\ shut' = "closed" /\ alive' = alive \ ToSet(connections)
    /\ UNCHANGED <<connections, monitor, pc, i, q, old, created, info, drops, lost, again>>

(* connections=null, after the monitor was released *)
close_null ==
    /\ shut = "closed"
    /\ shut' = "null"
    /\ UNCHANGED <<connections, monitor, pc, i, q, old, created, alive, info, drops, lost, again>>

(* The database or the network closes a connection. *)
db_drop(n) ==
    /\ n \in alive /\ drops < MaxDrops
    /\ alive' = alive \ {n} /\ drops' = drops + 1
    /\ UNCHANGED <<poolVars, monitor, pc, i, q, old, created, info, lost, again>>

Next ==
    \/ \E u \in Users : open(u) \/ scan(u) \/ connect(u) \/ addElement(u) \/ close_q(u) \/ close_again(u)
    \/ close \/ close_null
    \/ \E n \in Queries : db_drop(n)

(* A thread that holds the monitor, or makes a connection, goes on. *)
Spec == Init /\ [][Next]_vars /\ \A u \in Users : WF_vars(scan(u)) /\ WF_vars(connect(u))
-----------------------------------------------------------------------------
(***************************************************************************)
(* Two users have the same query only if a former user of it closed it     *)
(* once more while it was in use, as keepDB does when its open() fails:    *)
(* nothing else makes open() hand out a query twice, although open() and   *)
(* close(q) take different monitors.                                       *)
(***************************************************************************)
NotShared == \A u, v \in Users : u # v /\ q[u] # None /\ q[u] = q[v] => q[u] \in again

(***************************************************************************)
(* The vector never holds more queries than there are users, counting the  *)
(* users about to add one, although connections are made outside the       *)
(* monitor and the restarted scan may overlook an idle query.              *)
(***************************************************************************)
PoolIsBounded ==
    Len(connections) + Cardinality({u \in Users : pc[u] \in {"connect", "add"}}) <= Cardinality(Users)

(***************************************************************************)
(* While the pool is open the vector knows every open connection, except   *)
(* those in the hands of add() and those whose open() failed in creatSt.   *)
(***************************************************************************)
OpenIsKnown ==
    shut = "no" => alive \subseteq ToSet(connections) \cup lost \cup {q[u] : u \in {v \in Users : pc[v] = "add"}}

(* The scan ends although it starts over: open() returns, fails or makes a *)
(* new connection.                                                         *)
OpenEnds == \A u \in Users : pc[u] = "scan" ~> pc[u] \in {"out", "use", "add"}
=============================================================================
