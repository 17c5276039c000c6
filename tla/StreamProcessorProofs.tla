------------------------ MODULE StreamProcessorProofs ------------------------
(***************************************************************************)
(* Proofs about StreamProcessor, for every set of processors, interfaces,  *)
(* queues and messages.                                                    *)
(***************************************************************************)
EXTENDS StreamProcessor, FiniteSetTheorems, TLAPS

-----------------------------------------------------------------------------
(***************************************************************************)
(* The inductive invariant.                                                *)
(***************************************************************************)
Busy == {"route", "put", "dead"}

(* A processor that was initialised has an interface; a busy one works on  *)
(* a message it holds.                                                     *)
Owner ==
    \A p \in Procs :
        /\ pc[p] # "new" => iface[p] \in Ifaces
        /\ pc[p] \in Busy => cur[p] \in held[p]

(* Messages are locked by one processor and pending; a processor has put   *)
(* copies of messages it holds only.                                       *)
Locks ==
    /\ \A p \in Procs : held[p] \subseteq Pending
    /\ \A p, r \in Procs : p # r => held[p] \cap held[r] = {}
    /\ \A p \in Procs, q \in Queues, m \in Msgs :
          m \notin held[p] => puts[p][q][m] = 0
    /\ Pending \subseteq arrived

(* Of the messages a processor holds, all but the current one had a failed *)
(* put; the copies of the current one are those put so far.                *)
Progress ==
    \A p \in Procs :
        /\ pc[p] \notin Busy => held[p] \subseteq putFailed
        /\ pc[p] \in Busy => held[p] \subseteq putFailed \cup {cur[p]}
        /\ pc[p] = "route" => idx[p] = 0
        /\ pc[p] = "put" => idx[p] <= Len(Dest(iface[p], cur[p]))
        /\ pc[p] \in {"route", "put"} =>
              \A q \in Queues :
                  puts[p][q][cur[p]] = Occurs(Dest(iface[p], cur[p]), idx[p], q)

(* What has not arrived is nowhere. *)
Nowhere == \A m \in Msgs \ arrived, q \in Queues : out[q][m] = 0

IInv ==
    /\ TypeOK
    /\ Owner
    /\ Locks
    /\ Progress
    /\ Nowhere
    /\ PendingIsUndelivered
    /\ ConsumedIsDelivered

-----------------------------------------------------------------------------
(***************************************************************************)
(* Counting.                                                               *)
(***************************************************************************)

(* Nothing occurs among the first 0 entries of a list. *)
LEMMA OccursZero == ASSUME NEW to, NEW q PROVE Occurs(to, 0, q) = 0
<1>1. {k \in 1 .. 0 : to[k] = q} = {}
  OBVIOUS
<1> QED
  BY <1>1, FS_EmptySet DEF Occurs

(* Entry n + 1 adds one occurrence of itself and none of another queue. *)
LEMMA OccursStep ==
    ASSUME NEW to, NEW q, NEW n \in Nat
    PROVE  Occurs(to, n + 1, q) =
              IF to[n + 1] = q THEN Occurs(to, n, q) + 1 ELSE Occurs(to, n, q)
<1> DEFINE S(k) == {j \in 1 .. k : to[j] = q}
<1>1. IsFiniteSet(S(n))
  BY FS_Interval, FS_Subset, S(n) \subseteq 1 .. n, 1 \in Int, n \in Int, Zenon
<1>2. CASE to[n + 1] = q
  <2>1. S(n + 1) = S(n) \cup {n + 1} /\ n + 1 \notin S(n)
    BY <1>2
  <2> QED
    BY <1>1, <1>2, <2>1, FS_AddElement, Zenon DEF Occurs
<1>3. CASE to[n + 1] # q
  <2>1. S(n + 1) = S(n)
    BY <1>3
  <2> QED
    BY <1>3, <2>1 DEF Occurs
<1> QED
  BY <1>2, <1>3

(* The number of occurrences is a natural number. *)
LEMMA OccursNat == ASSUME NEW to, NEW q, NEW n \in Nat PROVE Occurs(to, n, q) \in Nat
<1>1. IsFiniteSet({k \in 1 .. n : to[k] = q})
  BY FS_Interval, FS_Subset, {k \in 1 .. n : to[k] = q} \subseteq 1 .. n, 1 \in Int, n \in Int, Zenon
<1> QED
  BY <1>1, FS_CardinalityType DEF Occurs

(* A message has at least one destination, and all of them are queues. *)
LEMMA DestType ==
    ASSUME NEW i \in Ifaces, NEW m \in Msgs
    PROVE  Dest(i, m) \in Seq(Queues)
  BY RouteAssumption, QueueAssumption DEF Dest

-----------------------------------------------------------------------------
(***************************************************************************)
(* The effects of the queue manager on the parts of the invariant that     *)
(* speak of its state only.                                                *)
(***************************************************************************)

(* A commit or backout leaves the state well typed. *)
LEMMA UnitType ==
    ASSUME NEW p \in Procs, TypeOK, CommitUnit(p) \/ BackoutUnit(p)
    PROVE  /\ in' \in [Sources -> SUBSET Msgs]
           /\ arrived' \in SUBSET Msgs
           /\ out' \in [Queues -> [Msgs -> Nat]]
           /\ held' \in [Procs -> SUBSET Msgs]
           /\ puts' \in [Procs -> [Queues -> [Msgs -> Nat]]]
           /\ putFailed' \in SUBSET Msgs
<1>1. NoPuts \in [Queues -> [Msgs -> Nat]]
  BY DEF NoPuts
<1>2. CASE CommitUnit(p)
  <2>1. out' \in [Queues -> [Msgs -> Nat]]
    BY <1>2 DEF CommitUnit, TypeOK
  <2> QED
    BY <1>1, <1>2, <2>1 DEF CommitUnit, TypeOK
<1>3. CASE BackoutUnit(p)
  BY <1>1, <1>3 DEF BackoutUnit, TypeOK
<1> QED
  BY <1>2, <1>3

(* Every step keeps the state well typed. *)
LEMMA TypeStep == ASSUME IInv, [Next]_vars PROVE TypeOK'
<1> USE DEF IInv, procVars, goto
<1>a. NoPuts \in [Queues -> [Msgs -> Nat]]
  BY DEF NoPuts
<1>1. ASSUME NEW s \in Sources, NEW m \in Msgs, arrive(s, m) PROVE TypeOK'
  BY <1>1 DEF arrive, TypeOK
<1>2. ASSUME NEW p \in Procs, NEW i \in Ifaces, init(p, i) PROVE TypeOK'
  BY <1>2 DEF init, TypeOK, mqVars, Locations, CMD_RUN, CMD_STOP, CMD_INIT
<1>3. ASSUME NEW p \in Procs, NEW i \in Ifaces, init_error(p, i) PROVE TypeOK'
  BY <1>3, SizeAssumption DEF init_error, Fault, TypeOK, mqVars, Locations, CMD_RUN, CMD_STOP, CMD_INIT
<1>4. ASSUME NEW p \in Procs, cmd_close(p) PROVE TypeOK'
  BY <1>4 DEF cmd_close, TypeOK, mqVars, CMD_RUN, CMD_STOP, CMD_INIT
<1>5. ASSUME NEW p \in Procs, run_enter(p) PROVE TypeOK'
  BY <1>5 DEF run_enter, TypeOK, mqVars, Locations
<1>6. ASSUME NEW p \in Procs, close(p) PROVE TypeOK'
  <2>1. CommitUnit(p) \/ BackoutUnit(p)
    BY <1>6 DEF close
  <2>2. faults' \in 0 .. MaxFaults
    BY <1>6, SizeAssumption DEF close, Fault, TypeOK
  <2> QED
    BY <1>6, <2>1, <2>2, UnitType, Zenon DEF close, TypeOK, Locations
<1>7. ASSUME NEW p \in Procs, get(p) PROVE TypeOK'
  <2>1. source[iface[p]] \in Sources
    BY <1>7, QueueAssumption DEF get, Owner
  <2> QED
    BY <1>7, <2>1, SizeAssumption DEF get, TypeOK, Locations
<1>8. ASSUME NEW p \in Procs, get_none(p) PROVE TypeOK'
  BY <1>8 DEF get_none, TypeOK, mqVars, Locations
<1>9. ASSUME NEW p \in Procs, get_resize(p) PROVE TypeOK'
  <2>1. source[iface[p]] \in Sources
    BY <1>9, QueueAssumption DEF get_resize, Owner
  <2>2. PICK m \in in[source[iface[p]]] \ Locked :
            \E n \in getLen(p, m) : max_size_msg' = [max_size_msg EXCEPT ![p] = n]
    BY <1>9 DEF get_resize
  <2>3. max_size_msg[p] \in Nat /\ size[m] \in Nat
    BY <2>1, <2>2, SizeAssumption DEF TypeOK
  <2>4. getLen(p, m) \subseteq Nat
    BY <2>3 DEF getLen
  <2>5. max_size_msg' \in [Procs -> Nat]
    BY <2>2, <2>4 DEF TypeOK
  <2> QED
    BY <1>9, <2>5
    DEF get_resize, goto, TypeOK, mqVars, Locations, CMD_RUN, CMD_STOP, CMD_INIT
<1>10. ASSUME NEW p \in Procs, get_error(p) PROVE TypeOK'
  BY <1>10, SizeAssumption DEF get_error, Fault, TypeOK, mqVars, Locations, CMD_RUN, CMD_STOP, CMD_INIT
<1>11. ASSUME NEW p \in Procs, do_route(p) PROVE TypeOK'
  BY ZenonT(60), <1>11 DEF do_route, TypeOK, mqVars, Locations
<1>12. ASSUME NEW p \in Procs, put(p) PROVE TypeOK'
  <2>1. iface[p] \in Ifaces /\ cur[p] \in Msgs
    BY <1>12 DEF put, Owner, Busy, TypeOK
  <2>2. Dest(iface[p], cur[p]) \in Seq(Queues)
    BY <2>1, DestType
  <2>3. Dest(iface[p], cur[p])[idx[p] + 1] \in Queues
    BY <1>12, <2>2 DEF put, TypeOK
  <2> QED
    BY SMTT(30), <1>12, <2>1, <2>3 DEF put, TypeOK
<1>13. ASSUME NEW p \in Procs, put_error(p) PROVE TypeOK'
  <2>1. cur[p] \in Msgs
    BY <1>13 DEF put_error, Owner, Busy, TypeOK
  <2> QED
    BY <1>13, <2>1, SizeAssumption DEF put_error, Fault, TypeOK, Locations
<1>14. ASSUME NEW p \in Procs, commit(p) PROVE TypeOK'
  BY <1>14, UnitType, Zenon DEF commit, TypeOK, Locations
<1>15. ASSUME NEW p \in Procs, commit_error(p) PROVE TypeOK'
  <2>1. BackoutUnit(p)
    BY <1>15 DEF commit_error
  <2>2. faults' \in 0 .. MaxFaults
    BY <1>15, SizeAssumption DEF commit_error, Fault, TypeOK
  <2> QED
    BY <1>15, <2>1, <2>2, UnitType, Zenon DEF commit_error, TypeOK, Locations
<1>16. ASSUME NEW p \in Procs, kill(p) PROVE TypeOK'
  BY <1>16, UnitType, Zenon DEF kill, TypeOK, Locations
<1>17. CASE UNCHANGED vars
  BY <1>17 DEF vars, mqVars, TypeOK
<1> QED
  BY ZenonT(60), <1>1, <1>2, <1>3, <1>4, <1>5, <1>6, <1>7, <1>8, <1>9, <1>10, <1>11,
     <1>12, <1>13, <1>14, <1>15, <1>16, <1>17 DEF Next, run

-----------------------------------------------------------------------------
(***************************************************************************)
(* The parts of the invariant that speak of the queues.                    *)
(***************************************************************************)
QueueInv == Locks /\ Nowhere /\ PendingIsUndelivered /\ ConsumedIsDelivered

(* Committing a unit of work whose messages were all put completely or had *)
(* a failed put keeps the queues right.                                    *)
LEMMA CommitQueues ==
    ASSUME IInv, NEW p \in Procs, CommitUnit(p),
           \A m \in held[p] \ putFailed : \E i \in Ifaces : \A q \in Queues :
               puts[p][q][m] = Occurs(Dest(i, m), Len(Dest(i, m)), q)
    PROVE  QueueInv'
<1> USE DEF IInv
<1>1. \A m \in Msgs, q \in Queues : out'[q][m] = out[q][m] + puts[p][q][m]
  BY DEF CommitUnit
<1>2. \A m \in Msgs \ held[p], q \in Queues : out'[q][m] = out[q][m]
  BY <1>1 DEF Locks, TypeOK
<1>3. Pending' = Pending \ held[p] /\ Pending \subseteq Msgs
  BY DEF CommitUnit, Pending, TypeOK
<1>4. Locks'
  <2>1. \A r \in Procs : held'[r] = IF r = p THEN {} ELSE held[r]
    BY DEF CommitUnit, TypeOK
  <2>2. \A r \in Procs : puts'[r] = IF r = p THEN NoPuts ELSE puts[r]
    BY DEF CommitUnit, TypeOK
  <2>3. \A r \in Procs : held'[r] \subseteq Pending'
    BY <1>3, <2>1 DEF Locks
  <2>4. \A r, t \in Procs : r # t => held'[r] \cap held'[t] = {}
    BY <2>1 DEF Locks
  <2>5. \A r \in Procs, q \in Queues, m \in Msgs :
            m \notin held'[r] => puts'[r][q][m] = 0
    BY <2>1, <2>2 DEF Locks, NoPuts
  <2>6. Pending' \subseteq arrived'
    BY <1>3 DEF Locks, CommitUnit
  <2> QED
    BY <2>3, <2>4, <2>5, <2>6 DEF Locks
<1>5. Nowhere'
  BY <1>2 DEF Nowhere, Locks, CommitUnit
<1>6. PendingIsUndelivered'
  <2>1. \A m \in Pending' : m \in Pending /\ m \in Msgs \ held[p]
    BY <1>3
  <2>2. \A m \in Pending', q \in Queues : out'[q][m] = 0
    BY <1>2, <2>1 DEF PendingIsUndelivered
  <2> QED
    BY <2>2 DEF PendingIsUndelivered
<1>7. ConsumedIsDelivered'
  <2> SUFFICES ASSUME NEW m \in arrived \ (Pending' \cup putFailed)
               PROVE  \E i \in Ifaces : Whole(i, m)'
    BY DEF ConsumedIsDelivered, CommitUnit
  <2>0. m \in Msgs
    BY DEF TypeOK
  <2>1. CASE m \in held[p]
    <3>1. PICK i \in Ifaces : \A q \in Queues :
               puts[p][q][m] = Occurs(Dest(i, m), Len(Dest(i, m)), q)
      BY <2>1
    <3>2. \A q \in Queues : out[q][m] = 0
      BY <2>1 DEF Locks, PendingIsUndelivered
    <3>3. \A q \in Queues : puts[p][q][m] \in Nat
      BY <2>0 DEF TypeOK
    <3>4. \A q \in Queues : out'[q][m] = puts[p][q][m]
      BY <1>1, <2>0, <3>2, <3>3
    <3> QED
      BY <3>1, <3>4 DEF Whole, Dest
  <2>2. CASE m \notin held[p]
    <3>1. PICK i \in Ifaces : Whole(i, m)
      BY <1>3, <2>2 DEF ConsumedIsDelivered
    <3> QED
      BY <1>2, <2>0, <2>2, <3>1 DEF Whole, Dest
  <2> QED
    BY <2>1, <2>2
<1> QED
  BY <1>4, <1>5, <1>6, <1>7 DEF QueueInv

(* A backout keeps the queues right. *)
LEMMA BackoutQueues ==
    ASSUME IInv, NEW p \in Procs, BackoutUnit(p)
    PROVE  QueueInv'
<1> USE DEF IInv
<1>1. Pending' = Pending
  BY DEF BackoutUnit, Pending
<1>2. Locks'
  <2>1. \A r \in Procs : held'[r] = IF r = p THEN {} ELSE held[r]
    BY DEF BackoutUnit, TypeOK
  <2>2. \A r \in Procs : puts'[r] = IF r = p THEN NoPuts ELSE puts[r]
    BY DEF BackoutUnit, TypeOK
  <2>3. \A r \in Procs, q \in Queues, m \in Msgs :
            m \notin held'[r] => puts'[r][q][m] = 0
    BY <2>1, <2>2 DEF Locks, NoPuts
  <2>4. Pending' \subseteq arrived'
    BY <1>1 DEF Locks, BackoutUnit
  <2>5. \A r, t \in Procs : r # t => held'[r] \cap held'[t] = {}
    BY <2>1 DEF Locks
  <2> QED
    BY <1>1, <2>1, <2>3, <2>4, <2>5 DEF Locks
<1>3. Nowhere' /\ PendingIsUndelivered'
  BY <1>1 DEF Nowhere, PendingIsUndelivered, BackoutUnit
<1>4. ConsumedIsDelivered'
  <2>1. held[p] \subseteq Pending
    BY DEF Locks
  <2> QED
    BY <1>1, <2>1 DEF ConsumedIsDelivered, BackoutUnit, Whole
<1> QED
  BY <1>2, <1>3, <1>4 DEF QueueInv

(* Steps that leave the queues and the units of work alone. *)
LEMMA SameQueues ==
    ASSUME IInv, UNCHANGED <<in, arrived, out, held, puts>>, putFailed \subseteq putFailed'
    PROVE  QueueInv'
  BY DEF IInv, QueueInv, Locks, Nowhere, PendingIsUndelivered, ConsumedIsDelivered,
         Pending, Whole

-----------------------------------------------------------------------------
(***************************************************************************)
(* The parts of the invariant that speak of the threads.                   *)
(***************************************************************************)
ThreadInv == Owner /\ Progress

(* A step of p changes nothing that the invariant says of another thread.  *)
OthersSame(p) ==
    \A r \in Procs \ {p} :
        /\ pc'[r] = pc[r] /\ iface'[r] = iface[r] /\ cur'[r] = cur[r]
        /\ idx'[r] = idx[r] /\ held'[r] = held[r] /\ puts'[r] = puts[r]

(* What the invariant says of one thread. *)
ThreadOK(r) ==
    /\ pc[r] # "new" => iface[r] \in Ifaces
    /\ pc[r] \in Busy => cur[r] \in held[r]
    /\ pc[r] \notin Busy => held[r] \subseteq putFailed
    /\ pc[r] \in Busy => held[r] \subseteq putFailed \cup {cur[r]}
    /\ pc[r] = "route" => idx[r] = 0
    /\ pc[r] = "put" => idx[r] <= Len(Dest(iface[r], cur[r]))
    /\ pc[r] \in {"route", "put"} =>
          \A q \in Queues :
              puts[r][q][cur[r]] = Occurs(Dest(iface[r], cur[r]), idx[r], q)

(* A step of p that keeps the failed puts of other threads' messages keeps *)
(* the thread invariant when it does so for p.                             *)
LEMMA ThreadStep ==
    ASSUME IInv, NEW p \in Procs, OthersSame(p), ThreadOK(p)',
           \A r \in Procs \ {p} : putFailed \cap held[r] \subseteq putFailed'
    PROVE  ThreadInv'
<1> SUFFICES ASSUME NEW r \in Procs PROVE ThreadOK(r)'
  BY DEF ThreadInv, ThreadOK, Owner, Progress
<1>1. CASE r = p
  BY <1>1, ZenonT(60)
<1>2. CASE r # p
  <2>1. ThreadOK(r)
    BY DEF IInv, ThreadOK, Owner, Progress
  <2>2. putFailed \cap held[r] \subseteq putFailed'
    BY <1>2
  <2>3. /\ pc'[r] = pc[r] /\ iface'[r] = iface[r] /\ cur'[r] = cur[r]
        /\ idx'[r] = idx[r] /\ held'[r] = held[r] /\ puts'[r] = puts[r]
    BY <1>2 DEF OthersSame
  <2> QED
    BY ZenonT(60), <2>1, <2>2, <2>3 DEF ThreadOK, Dest
<1> QED
  BY ZenonT(60), <1>1, <1>2

(* Every step of the system preserves the invariant. *)
LEMMA InvStep == ASSUME IInv, [Next]_vars PROVE IInv'
<1> USE DEF procVars, goto
<1>0. TypeOK'
  BY TypeStep
<1> SUFFICES QueueInv' /\ ThreadInv'
  BY ZenonT(60), <1>0 DEF IInv, QueueInv, ThreadInv
<1>t. TypeOK /\ (\A p \in Procs : ThreadOK(p))
  BY DEF IInv, ThreadOK, Owner, Progress
<1>1. ASSUME NEW s \in Sources, NEW m \in Msgs, arrive(s, m) PROVE QueueInv' /\ ThreadInv'
  <2>1. Pending' = Pending \cup {m} /\ m \notin Pending
    BY <1>1 DEF arrive, Pending, TypeOK, IInv, Locks
  <2>2. Locks'
    BY ZenonT(60), <1>1, <2>1 DEF arrive, IInv, Locks
  <2>3. Nowhere'
    BY <1>1 DEF arrive, IInv, Nowhere
  <2>4. PendingIsUndelivered'
    BY <1>1, <2>1 DEF arrive, IInv, Nowhere, PendingIsUndelivered
  <2>5. ConsumedIsDelivered'
    BY <1>1, <2>1 DEF arrive, IInv, ConsumedIsDelivered, Whole
  <2>6. ThreadInv'
    BY <1>1, <1>t, ZenonT(60) DEF arrive, ThreadInv, Owner, Progress, ThreadOK
  <2> QED
    BY <2>2, <2>3, <2>4, <2>5, <2>6 DEF QueueInv
<1>2. ASSUME NEW p \in Procs, NEW i \in Ifaces, init(p, i) \/ init_error(p, i)
      PROVE  QueueInv' /\ ThreadInv'
  <2>1. QueueInv'
    BY <1>2, SameQueues DEF init, init_error, mqVars
  <2>2. OthersSame(p)
    BY <1>2 DEF init, init_error, mqVars, OthersSame, IInv, TypeOK
  <2>3. ThreadOK(p)'
    BY <1>2, <1>t, Zenon DEF init, init_error, mqVars, ThreadOK, TypeOK, Busy
  <2> QED
    BY <1>2, <2>1, <2>2, <2>3, ThreadStep DEF init, init_error, mqVars
<1>3. ASSUME NEW p \in Procs,
             cmd_close(p) \/ run_enter(p) \/ get_none(p) \/ get_resize(p) \/ get_error(p)
      PROVE  QueueInv' /\ ThreadInv'
  <2> USE DEF cmd_close, run_enter, get_none, get_resize, get_error, mqVars
  <2>1. QueueInv'
    BY <1>3, SameQueues, Zenon
  <2>2. OthersSame(p)
    BY <1>3 DEF OthersSame, IInv, TypeOK
  <2>3. ThreadOK(p)'
    BY <1>3, <1>t, ZenonT(60) DEF ThreadOK, TypeOK, Busy, Dest
  <2> QED
    BY <1>3, <2>1, <2>2, <2>3, ThreadStep, Zenon
<1>4. ASSUME NEW p \in Procs, get(p) PROVE QueueInv' /\ ThreadInv'
  <2>0. source[iface[p]] \in Sources
    BY <1>4, <1>t, QueueAssumption, Zenon DEF get, ThreadOK
  <2>1. PICK m \in in[source[iface[p]]] \ Locked :
            /\ held' = [held EXCEPT ![p] = @ \cup {m}]
            /\ cur' = [cur EXCEPT ![p] = m]
    BY <1>4, Zenon DEF get
  <2>2. m \in Msgs /\ m \in Pending /\ \A r \in Procs : m \notin held[r]
    BY <2>0, <2>1, <1>t DEF TypeOK, Pending, Locked
  <2>3. UNCHANGED <<in, arrived, out, puts, putFailed, iface>>
    BY ZenonT(60), <1>4 DEF get
  <2>4. Pending' = Pending
    BY <2>3, SMTT(30) DEF Pending
  <2>l. Locks
    BY DEF IInv
  <2>h. \A r \in Procs : held'[r] = IF r = p THEN held[p] \cup {m} ELSE held[r]
    BY <2>1, <1>t DEF TypeOK
  <2>5. Locks'
    <3>1. \A r \in Procs : held'[r] \subseteq Pending
      BY <2>2, <2>h, <2>l DEF Locks
    <3>2. \A r, t \in Procs : r # t => held'[r] \cap held'[t] = {}
      BY <2>2, <2>h, <2>l DEF Locks
    <3>3. \A r \in Procs, q \in Queues, n \in Msgs : n \notin held'[r] => puts[r][q][n] = 0
      BY SMTT(30), <2>h, <2>l DEF Locks
    <3>4. puts' = puts /\ arrived' = arrived /\ Pending \subseteq arrived
      BY ZenonT(60), <2>3, <2>l DEF Locks
    <3> QED
      BY ZenonT(60), <3>1, <3>2, <3>3, <3>4, <2>4 DEF Locks
  <2>6. Nowhere' /\ PendingIsUndelivered' /\ ConsumedIsDelivered'
    BY ZenonT(60), <2>3, <2>4 DEF IInv, Nowhere, PendingIsUndelivered, ConsumedIsDelivered, Whole
  <2>7. OthersSame(p)
    BY ZenonT(60), <1>4, <2>1 DEF get, OthersSame, IInv, TypeOK
  <2>8. ThreadOK(p)'
    <3>1. pc'[p] = "route" /\ cur'[p] = m /\ held'[p] = held[p] \cup {m} /\ idx'[p] = 0
      BY SMTT(30), <1>4, <2>1, <1>t DEF get, TypeOK
    <3>2. iface'[p] \in Ifaces /\ held[p] \subseteq putFailed
      BY ZenonT(60), <1>4, <2>3, <1>t DEF get, ThreadOK, Busy
    <3>3. \A q \in Queues : puts'[p][q][m] = 0
      BY SMTT(30), <2>2, <2>3 DEF IInv, Locks
    <3> QED
      BY ZenonT(60), <2>3, <3>1, <3>2, <3>3, OccursZero DEF ThreadOK, Busy
  <2> QED
    BY <2>3, <2>5, <2>6, <2>7, <2>8, ThreadStep, Zenon DEF QueueInv
<1>5. ASSUME NEW p \in Procs, do_route(p) PROVE QueueInv' /\ ThreadInv'
  <2>1. QueueInv'
    BY <1>5, SameQueues DEF do_route, mqVars
  <2>2. OthersSame(p)
    BY ZenonT(60), <1>5 DEF do_route, mqVars, OthersSame, IInv, TypeOK
  <2>3. ThreadOK(p)'
    <3>1. iface[p] \in Ifaces /\ cur[p] \in Msgs
      BY <1>5, <1>t DEF do_route, ThreadOK, TypeOK, Busy
    <3>2. Len(Dest(iface[p], cur[p])) \in Nat
      BY <3>1, DestType
    <3>3. pc[p] = "route" /\ pc'[p] \in {"dead", "put"}
      BY ZenonT(60), <1>5, <1>t DEF do_route, TypeOK
    <3>4. UNCHANGED <<held, puts, putFailed, iface, cur, idx>>
      BY ZenonT(60), <1>5 DEF do_route, mqVars
    <3>5. /\ cur[p] \in held[p] /\ held[p] \subseteq putFailed \cup {cur[p]}
          /\ idx[p] = 0
          /\ \A q \in Queues : puts[p][q][cur[p]] = Occurs(Dest(iface[p], cur[p]), idx[p], q)
      BY <3>3, <1>t DEF ThreadOK, Busy
    <3> QED
      BY <3>1, <3>2, <3>3, <3>4, <3>5 DEF ThreadOK, Busy
  <2> QED
    BY ZenonT(60), <1>5, <2>1, <2>2, <2>3, ThreadStep DEF do_route, mqVars
<1>6. ASSUME NEW p \in Procs, put(p) PROVE QueueInv' /\ ThreadInv'
  <2> DEFINE to == Dest(iface[p], cur[p])
             n  == idx[p]
  <2>0. /\ iface[p] \in Ifaces /\ cur[p] \in Msgs /\ cur[p] \in held[p]
        /\ n \in Nat /\ pc[p] = "put"
    BY <1>6, <1>t, ZenonT(60) DEF put, ThreadOK, TypeOK, Busy
  <2>1. to \in Seq(Queues) /\ n < Len(to) /\ to[n + 1] \in Queues
    BY <1>6, <2>0, DestType, SMTT(30) DEF put
  <2>2. /\ puts' = [puts EXCEPT ![p][to[n + 1]][cur[p]] = @ + 1]
        /\ UNCHANGED <<in, arrived, out, held, putFailed, pc, iface, cur>>
        /\ idx' = [idx EXCEPT ![p] = n + 1]
    BY <1>6 DEF put
  <2> HIDE DEF to, n
  <2>3. \A r \in Procs, q \in Queues, m \in Msgs :
            puts'[r][q][m] = IF r = p /\ q = to[n + 1] /\ m = cur[p]
                             THEN puts[r][q][m] + 1 ELSE puts[r][q][m]
    BY <2>0, <2>1, <2>2, <1>t, ZenonT(30) DEF TypeOK
  <2>4. Pending' = Pending
    BY <2>2 DEF Pending
  <2>5. Locks'
    BY <2>0, <2>2, <2>3, <2>4 DEF Locks, IInv
  <2>6. Nowhere' /\ PendingIsUndelivered' /\ ConsumedIsDelivered'
    BY <2>2, <2>4 DEF IInv, Nowhere, PendingIsUndelivered, ConsumedIsDelivered, Whole
  <2>7. OthersSame(p)
    BY ZenonT(60), <2>1, <2>2, <1>t DEF OthersSame, TypeOK
  <2>8. ThreadOK(p)'
    <3>1. \A q \in Queues : puts'[p][q][cur[p]] = Occurs(to, n + 1, q)
      <4> TAKE q \in Queues
      <4>1. puts[p][q][cur[p]] = Occurs(to, n, q) /\ Occurs(to, n, q) \in Nat
        BY <2>0, <1>t, OccursNat DEF ThreadOK, to, n
      <4> QED
        BY SMTT(30), <2>0, <2>3, <4>1, OccursStep
    <3>2. n + 1 <= Len(to)
      BY <2>0, <2>1
    <3>3. idx'[p] = n + 1 /\ Dest(iface[p], cur[p])' = to
      BY <2>2, <1>t, Zenon DEF TypeOK, to, Dest
    <3> QED
      BY <2>0, <2>2, <3>1, <3>2, <3>3, <1>t, ZenonT(60) DEF ThreadOK, Busy
  <2> QED
    BY <2>2, <2>5, <2>6, <2>7, <2>8, ThreadStep, ZenonT(60) DEF QueueInv
<1>7. ASSUME NEW p \in Procs, put_error(p) PROVE QueueInv' /\ ThreadInv'
  <2>1. QueueInv'
    BY <1>7, SameQueues DEF put_error
  <2>2. OthersSame(p)
    BY ZenonT(60), <1>7 DEF put_error, OthersSame, IInv, TypeOK
  <2>3. ThreadOK(p)'
    BY <1>7, <1>t, ZenonT(60) DEF put_error, ThreadOK, TypeOK, Busy
  <2> QED
    BY SMTT(30), <1>7, <2>1, <2>2, <2>3, ThreadStep DEF put_error
<1>8. ASSUME NEW p \in Procs, CommitUnit(p), pc'[p] \notin Busy,
             iface'[p] \in Ifaces, OthersSame(p)
      PROVE  ThreadInv'
  <2>1. held'[p] = {}
    BY ZenonT(60), <1>8, <1>t DEF CommitUnit, TypeOK
  <2>2. ThreadOK(p)'
    BY ZenonT(60), <1>8, <2>1 DEF ThreadOK, Busy
  <2> QED
    BY <1>8, <2>2, ThreadStep, SMTT(30) DEF CommitUnit
<1>9. ASSUME NEW p \in Procs, BackoutUnit(p), pc'[p] \notin Busy,
             iface'[p] \in Ifaces, OthersSame(p)
      PROVE  ThreadInv'
  <2>1. held'[p] = {}
    BY ZenonT(60), <1>9, <1>t DEF BackoutUnit, TypeOK
  <2>2. ThreadOK(p)'
    BY ZenonT(60), <1>9, <2>1 DEF ThreadOK, Busy
  <2>3. \A r \in Procs \ {p} : putFailed \cap held[r] \subseteq putFailed'
    BY <1>9 DEF BackoutUnit, IInv, Locks
  <2> QED
    BY ZenonT(60), <1>9, <2>2, <2>3, ThreadStep
<1>10. ASSUME NEW p \in Procs, close(p) PROVE QueueInv' /\ ThreadInv'
  <2>1. pc'[p] \notin Busy /\ iface'[p] \in Ifaces /\ held[p] \subseteq putFailed
    BY <1>10, <1>t, Zenon DEF close, ThreadOK, Busy, TypeOK
  <2>2. CASE CommitUnit(p)
    <3>1. OthersSame(p)
      BY <1>10, <2>2, <1>t DEF close, CommitUnit, OthersSame, TypeOK
    <3> QED
      BY ZenonT(60), <1>8, <2>1, <2>2, <3>1, CommitQueues
  <2>3. CASE BackoutUnit(p)
    <3>1. OthersSame(p)
      BY <1>10, <2>3, <1>t DEF close, BackoutUnit, OthersSame, TypeOK
    <3> QED
      BY ZenonT(60), <1>9, <2>1, <2>3, <3>1, BackoutQueues
  <2> QED
    BY <1>10, <2>2, <2>3 DEF close
<1>11. ASSUME NEW p \in Procs, commit(p) PROVE QueueInv' /\ ThreadInv'
  <2>1. pc'[p] \notin Busy /\ iface'[p] \in Ifaces /\ CommitUnit(p)
    BY SMTT(30), <1>11, <1>t DEF commit, ThreadOK, Busy, TypeOK
  <2>2. OthersSame(p)
    BY <1>11, <1>t DEF commit, CommitUnit, OthersSame, TypeOK
  <2>3. \A m \in held[p] \ putFailed : \E i \in Ifaces : \A q \in Queues :
            puts[p][q][m] = Occurs(Dest(i, m), Len(Dest(i, m)), q)
    <3>1. /\ held[p] \ putFailed \subseteq {cur[p]}
          /\ iface[p] \in Ifaces
          /\ \A q \in Queues : puts[p][q][cur[p]] =
                Occurs(Dest(iface[p], cur[p]), Len(Dest(iface[p], cur[p])), q)
      BY SMTT(30), <1>11, <1>t DEF commit, ThreadOK, Busy
    <3> QED
      BY ZenonT(60), <3>1
  <2> QED
    BY ZenonT(60), <1>8, <2>1, <2>2, <2>3, CommitQueues
<1>12. ASSUME NEW p \in Procs, commit_error(p) \/ kill(p) PROVE QueueInv' /\ ThreadInv'
  <2>1. pc'[p] \notin Busy /\ iface'[p] \in Ifaces /\ BackoutUnit(p)
    BY ZenonT(60), <1>12, <1>t DEF commit_error, kill, ThreadOK, Busy, TypeOK
  <2>2. OthersSame(p)
    BY <1>12, <1>t DEF commit_error, kill, BackoutUnit, OthersSame, TypeOK
  <2> QED
    BY ZenonT(60), <1>9, <2>1, <2>2, BackoutQueues
<1>13. CASE UNCHANGED vars
  <2>1. QueueInv'
    BY ZenonT(60), <1>13, SameQueues DEF vars, mqVars
  <2>2. ThreadInv'
    BY <1>13, <1>t DEF vars, mqVars, ThreadInv, Owner, Progress, ThreadOK
  <2> QED
    BY <2>1, <2>2
<1> QED
  BY ZenonT(60), <1>1, <1>2, <1>3, <1>4, <1>5, <1>6, <1>7, <1>10, <1>11, <1>12, <1>13
  DEF Next, run

(* The initial state satisfies the invariant. *)
LEMMA InvInit == Init => IInv
<1> SUFFICES ASSUME Init PROVE IInv
  OBVIOUS
<1>1. TypeOK
  BY SizeAssumption DEF Init, TypeOK, NoPuts, Locations, CMD_RUN, CMD_STOP, CMD_INIT
<1>2. Pending = {}
  BY ZenonT(60) DEF Init, Pending
<1>3. Owner /\ Progress
  BY DEF Init, Owner, Progress, Busy
<1>4. Locks
  BY <1>2 DEF Init, Locks, NoPuts
<1>5. Nowhere /\ PendingIsUndelivered /\ ConsumedIsDelivered
  BY <1>2 DEF Init, Nowhere, PendingIsUndelivered, ConsumedIsDelivered, NoPuts
<1> QED
  BY <1>1, <1>3, <1>4, <1>5 DEF IInv

(***************************************************************************)
(* The inductive invariant holds in every reachable state.                 *)
(***************************************************************************)
THEOREM Invariance == Spec => []IInv
  BY InvInit, InvStep, PTL DEF Spec

(***************************************************************************)
(* Type correctness of the processors and the queues.                      *)
(***************************************************************************)
THEOREM TypeCorrect == Spec => []TypeOK
<1>1. IInv => TypeOK
  BY DEF IInv
<1> QED
  BY <1>1, Invariance, PTL

(***************************************************************************)
(* A message on its source queue has no copy on a target queue: the gets   *)
(* and the puts of Processor.run take effect together.                     *)
(***************************************************************************)
THEOREM NoEarlyDelivery == Spec => []PendingIsUndelivered
<1>1. IInv => PendingIsUndelivered
  BY DEF IInv
<1> QED
  BY <1>1, Invariance, PTL

(***************************************************************************)
(* A message that left its source queue is on exactly its destinations,    *)
(* unless one of its own puts failed.                                      *)
(***************************************************************************)
THEOREM ExactDelivery == Spec => []ConsumedIsDelivered
<1>1. IInv => ConsumedIsDelivered
  BY SMTT(30) DEF IInv
<1> QED
  BY <1>1, Invariance, PTL

(***************************************************************************)
(* Between two messages a processor holds only messages whose put failed.  *)
(***************************************************************************)
THEOREM IdleUnit == Spec => []IdleHoldsFailedOnly
<1>1. IInv => IdleHoldsFailedOnly
  BY DEF IInv, Progress, Busy, IdleHoldsFailedOnly
<1> QED
  BY <1>1, Invariance, PTL

(* A processor that is not initialised has not been stopped either. *)
Fresh == \A p \in Procs : pc[p] = "new" => flag_state[p] = CMD_INIT

(* No step stops or initialises a processor and leaves it new. *)
LEMMA FreshInv == Spec => []Fresh
<1>1. Init => Fresh
  BY DEF Init, Fresh
<1>2. ASSUME TypeOK, Fresh, [Next]_vars PROVE Fresh'
  <2> USE <1>2 DEF procVars, goto, TypeOK, Fresh
  <2>1. CASE UNCHANGED vars
    BY <2>1 DEF vars
  <2>2. ASSUME NEW s \in Sources, NEW m \in Msgs, arrive(s, m) PROVE Fresh'
    BY <2>2 DEF arrive
  <2>3. ASSUME NEW r \in Procs, NEW i \in Ifaces, init(r, i) \/ init_error(r, i) PROVE Fresh'
    BY ZenonT(60), <2>3 DEF init, init_error
  <2>4. ASSUME NEW r \in Procs, cmd_close(r) PROVE Fresh'
    BY <2>4 DEF cmd_close
  <2>5. ASSUME NEW r \in Procs, run(r) \/ kill(r) PROVE Fresh'
    BY <2>5, Zenon DEF run, run_enter, close, get, get_none, get_resize, get_error,
                do_route, put, put_error, commit, commit_error, kill
  <2> QED
    BY <2>1, <2>2, <2>3, <2>4, <2>5, Zenon DEF Next
<1> QED
  BY <1>1, <1>2, TypeCorrect, PTL DEF Spec

(***************************************************************************)
(* The stop flag is final and a processor that has seen it takes no more   *)
(* messages.                                                               *)
(***************************************************************************)
THEOREM StopFinal == Spec => StopIsFinal
<1> DEFINE Kept(p) == flag_state[p] = CMD_STOP =>
                         /\ flag_state'[p] = CMD_STOP
                         /\ pc[p] = "top" => pc'[p] # "get"
<1>1. ASSUME TypeOK, Fresh, [Next]_vars PROVE [\A p \in Procs : Kept(p)]_vars
  <2> SUFFICES ASSUME NEW p \in Procs, flag_state[p] = CMD_STOP, Next
               PROVE  /\ flag_state'[p] = CMD_STOP
                      /\ pc[p] = "top" => pc'[p] # "get"
    BY <1>1
  <2> USE <1>1 DEF procVars, goto, TypeOK, CMD_STOP, CMD_INIT, CMD_RUN
  <2>1. ASSUME NEW s \in Sources, NEW m \in Msgs, arrive(s, m) PROVE Kept(p)
    BY SMTT(30), <2>1 DEF arrive
  <2>2. ASSUME NEW r \in Procs, NEW i \in Ifaces, init(r, i) \/ init_error(r, i) PROVE Kept(p)
    BY <2>2 DEF init, init_error, mqVars, Fresh
  <2>3. ASSUME NEW r \in Procs, cmd_close(r) PROVE Kept(p)
    BY <2>3 DEF cmd_close, mqVars
  <2>4. ASSUME NEW r \in Procs, close(r) \/ commit(r) \/ commit_error(r) \/ kill(r) PROVE Kept(p)
    BY <2>4, Zenon DEF close, commit, commit_error, kill, CommitUnit, BackoutUnit
  <2>5. ASSUME NEW r \in Procs, get(r) PROVE Kept(p)
    BY <2>5 DEF get
  <2>6. ASSUME NEW r \in Procs,
               \/ get_none(r) \/ get_resize(r) \/ get_error(r)
               \/ do_route(r) \/ put(r) \/ put_error(r)
        PROVE  Kept(p)
    BY <2>6, Zenon DEF get_none, get_resize, get_error, do_route, put, put_error, mqVars
  <2>7. ASSUME NEW r \in Procs, run_enter(r) PROVE Kept(p)
    BY <2>7 DEF run_enter, isStop
  <2> QED
    BY <2>1, <2>2, <2>3, <2>4, <2>5, <2>6, <2>7, Zenon DEF Next, run
<1> QED
  BY <1>1, TypeCorrect, FreshInv, PTL DEF Spec, StopIsFinal

-----------------------------------------------------------------------------
(***************************************************************************)
(* The processors implement MessageMove, for every set of processors,      *)
(* interfaces, queues and messages.  The refinement mapping is the one of  *)
(* StreamProcessor: what waits is what is on a source queue, and a message *)
(* failed when it left with a refused put.                                 *)
(***************************************************************************)
All(i, m, q) == Occurs(Dest(i, m), Len(Dest(i, m)), q)

(* A unit of work never has more copies of a message than one of the       *)
(* interfaces asks for, refused puts or not.                               *)
AtMostAll(p, m) == \E i \in Ifaces : \A q \in Queues : puts[p][q][m] <= All(i, m, q)

Partial == \A p \in Procs : \A m \in held[p] : AtMostAll(p, m)

(* A queue occurs at most as often among the first entries as in all.      *)
LEMMA OccursMono ==
    ASSUME NEW to, NEW q, NEW n \in Nat, NEW k \in Nat, n <= k
    PROVE  Occurs(to, n, q) <= Occurs(to, k, q)
<1> DEFINE S(j) == {x \in 1 .. j : to[x] = q}
<1>1. IsFiniteSet(S(k))
  BY FS_Interval, FS_Subset, S(k) \subseteq 1 .. k, 1 \in Int, k \in Int, Zenon
<1>2. S(n) \subseteq S(k)
  OBVIOUS
<1> QED
  BY <1>1, <1>2, FS_Subset DEF Occurs

(* The copies put so far are at most all of them, while a message is being *)
(* put.                                                                    *)
PutSoFar == \A p \in Procs : pc[p] \in {"route", "put"} => AtMostAll(p, cur[p])

(* It follows from the invariant of the processors. *)
LEMMA PutAtMost == IInv => PutSoFar
<1> SUFFICES ASSUME IInv, NEW p \in Procs, pc[p] \in {"route", "put"}
             PROVE  AtMostAll(p, cur[p])
  BY DEF PutSoFar
<1>1. iface[p] \in Ifaces /\ cur[p] \in Msgs /\ idx[p] \in Nat
  <2>1. pc[p] # "new" /\ pc[p] \in Busy
    BY DEF Busy
  <2> QED
    BY <2>1 DEF IInv, TypeOK, Owner
<1> DEFINE to == Dest(iface[p], cur[p])
<1>2. Len(to) \in Nat
  BY <1>1, DestType
<1>3. idx[p] <= Len(to)
  BY <1>2 DEF IInv, Progress
<1>4. \A q \in Queues : puts[p][q][cur[p]] = Occurs(to, idx[p], q)
  BY ZenonT(60) DEF IInv, Progress
<1>5. \A q \in Queues : puts[p][q][cur[p]] <= All(iface[p], cur[p], q)
  BY <1>1, <1>2, <1>3, <1>4, OccursMono DEF All
<1> QED
  BY <1>1, <1>5 DEF AtMostAll

(* Partial is an invariant. *)
LEMMA PartialStep == ASSUME IInv, IInv', Partial, [Next]_vars PROVE Partial'
<1> USE DEF procVars, mqVars, goto
<1>0. PutSoFar'
  BY PutAtMost, PTL
<1>1. ASSUME UNCHANGED <<held, puts>> PROVE Partial'
  BY <1>1 DEF Partial, AtMostAll, All, Dest
<1>2. ASSUME NEW p \in Procs, CommitUnit(p) \/ BackoutUnit(p) PROVE Partial'
  <2>1. held' = [held EXCEPT ![p] = {}] /\ puts' = [puts EXCEPT ![p] = NoPuts]
    BY ZenonT(60), <1>2 DEF CommitUnit, BackoutUnit
  <2>2. \A r \in Procs : \A m \in held'[r] : r # p /\ m \in held[r] /\ puts'[r] = puts[r]
    BY ZenonT(60), <2>1 DEF IInv, TypeOK
  <2> QED
    BY <2>2 DEF Partial, AtMostAll, All, Dest
<1>3. ASSUME NEW p \in Procs, get(p) \/ put(p) PROVE Partial'
  <2>1. pc'[p] \in {"route", "put"}
    BY <1>3 DEF get, put, IInv, TypeOK
  <2>2. AtMostAll(p, cur[p])'
    BY ZenonT(60), <1>0, <2>1 DEF PutSoFar
  <2>3. \A r \in Procs : \A m \in held'[r] :
            (r = p /\ m = cur'[p]) \/ (m \in held[r] /\ \A q \in Queues : puts'[r][q][m] = puts[r][q][m])
    <3>1. CASE get(p)
      <4>1. PICK n : /\ held' = [held EXCEPT ![p] = @ \cup {n}] /\ cur' = [cur EXCEPT ![p] = n]
                     /\ puts' = puts
        BY ZenonT(60), <3>1 DEF get
      <4>2. cur'[p] = n /\ \A r \in Procs : held'[r] = IF r = p THEN held[p] \cup {n} ELSE held[r]
        BY <4>1 DEF IInv, TypeOK
      <4> QED
        BY <4>1, <4>2
    <3>2. CASE put(p)
      <4> DEFINE d == Dest(iface[p], cur[p])[idx[p] + 1]
      <4>1. /\ puts' = [puts EXCEPT ![p][d][cur[p]] = @ + 1]
            /\ held' = held /\ cur' = cur
        BY <3>2 DEF put
      <4>2. held \in [Procs -> SUBSET Msgs] /\ puts \in [Procs -> [Queues -> [Msgs -> Nat]]]
        BY DEF IInv, TypeOK
      <4> HIDE DEF d
      <4>3. \A r \in Procs, q \in Queues, m \in Msgs :
                r # p \/ m # cur[p] => puts'[r][q][m] = puts[r][q][m]
        BY <4>1, <4>2
      <4> QED
        BY ZenonT(60), <4>1, <4>2, <4>3
    <3> QED
      BY ZenonT(60), <1>3, <3>1, <3>2
  <2> SUFFICES ASSUME NEW r \in Procs, NEW m \in held'[r] PROVE AtMostAll(r, m)'
    BY DEF Partial
  <2>4. CASE r = p /\ m = cur'[p]
    BY ZenonT(60), <2>2, <2>4
  <2>5. CASE m \in held[r] /\ \A q \in Queues : puts'[r][q][m] = puts[r][q][m]
    <3>1. AtMostAll(r, m)
      BY <2>5 DEF Partial
    <3> QED
      BY ZenonT(60), <2>5, <3>1 DEF AtMostAll, All, Dest
  <2> QED
    BY ZenonT(60), <2>3, <2>4, <2>5
<1>4. CASE UNCHANGED vars
  BY <1>1, <1>4 DEF vars
<1>5. ASSUME NEW s \in Sources, NEW m \in Msgs, arrive(s, m) PROVE Partial'
  BY <1>1, <1>5 DEF arrive
<1>6. ASSUME NEW p \in Procs, NEW i \in Ifaces, init(p, i) \/ init_error(p, i) PROVE Partial'
  BY <1>1, <1>6 DEF init, init_error
<1>7. ASSUME NEW p \in Procs, cmd_close(p) \/ run(p) \/ kill(p) PROVE Partial'
  BY <1>1, <1>2, <1>3, <1>7, Zenon DEF cmd_close, run, kill, run_enter, close, get_none,
     get_resize, get_error, do_route, put_error, commit, commit_error
<1> QED
  BY <1>4, <1>5, <1>6, <1>7 DEF Next

(* Only a message that has arrived can have a refused put. *)
FailedArrived == putFailed \subseteq arrived

(* No step marks a message that has not arrived. *)
LEMMA FailedStep == ASSUME IInv, FailedArrived, [Next]_vars PROVE FailedArrived'
<1> USE DEF procVars, mqVars, goto, FailedArrived
<1>1. ASSUME UNCHANGED <<arrived, putFailed>> PROVE FailedArrived'
  BY <1>1
<1>2. ASSUME NEW p \in Procs, CommitUnit(p) \/ BackoutUnit(p) PROVE FailedArrived'
  BY <1>2 DEF CommitUnit, BackoutUnit
<1>3. ASSUME NEW p \in Procs, put_error(p) PROVE FailedArrived'
  <2>1. cur[p] \in arrived
    BY <1>3 DEF put_error, IInv, Owner, Locks, Busy
  <2> QED
    BY ZenonT(60), <1>3, <2>1 DEF put_error
<1>4. CASE UNCHANGED vars
  BY <1>4 DEF vars
<1>5. ASSUME NEW s \in Sources, NEW m \in Msgs, arrive(s, m) PROVE FailedArrived'
  BY <1>5 DEF arrive
<1>6. ASSUME NEW p \in Procs, NEW i \in Ifaces, init(p, i) \/ init_error(p, i) PROVE FailedArrived'
  BY <1>6 DEF init, init_error
<1>7. ASSUME NEW p \in Procs, cmd_close(p) \/ run(p) \/ kill(p) PROVE FailedArrived'
  BY <1>1, <1>2, <1>3, <1>7, Zenon DEF cmd_close, run, kill, run_enter, close, get, get_none,
     get_resize, get_error, do_route, put, commit, commit_error
<1> QED
  BY <1>4, <1>5, <1>6, <1>7 DEF Next

-----------------------------------------------------------------------------
(***************************************************************************)
(* The steps.  failedGone is what "failed" is mapped to.                   *)
(***************************************************************************)
failedGone == putFailed \ Pending

(* A commit is one Move: what was held leaves, and what was put appears.   *)
LEMMA CommitMoves ==
    ASSUME IInv, Partial, NEW p \in Procs, CommitUnit(p),
           \A m \in held[p] \ putFailed : \E i \in Ifaces : \A q \in Queues :
               puts[p][q][m] = All(i, m, q)
    PROVE  Mover!Move(held[p], held[p] \cap putFailed)
<1> USE DEF IInv
<1>1. held[p] \subseteq Msgs /\ held[p] \subseteq Pending
  BY ZenonT(60) DEF TypeOK, Locks
<1>2. \A m \in Msgs, q \in Queues : out'[q][m] = out[q][m] + puts[p][q][m]
  BY ZenonT(60) DEF CommitUnit
<1>3. \A m \in held[p], q \in Queues : out'[q][m] = puts[p][q][m]
  <2> TAKE m \in held[p], q \in Queues
  <2>1. out[q][m] = 0 /\ puts[p][q][m] \in Nat
    BY SMTT(30), <1>1 DEF PendingIsUndelivered, TypeOK
  <2> QED
    BY <1>1, <1>2, <2>1
<1>4. \A m \in Msgs \ held[p], q \in Queues : out'[q][m] = out[q][m]
  BY <1>2 DEF Locks, TypeOK
<1>5. Pending' = Pending \ held[p]
  BY DEF CommitUnit, Pending
<1>6. failedGone' = failedGone \cup (held[p] \cap putFailed)
  BY ZenonT(60), <1>1, <1>5 DEF failedGone, CommitUnit
<1>7. \A m \in Msgs, i \in Ifaces : [q \in Queues |-> All(i, m, q)] \in deliveries[m]
  BY ZenonT(60) DEF deliveries, All
<1>8. ASSUME NEW m \in held[p] \ (held[p] \cap putFailed)
      PROVE  \E plan \in deliveries[m] : \A q \in Queues : out'[q][m] = plan[q]
  <2>1. PICK i \in Ifaces : \A q \in Queues : puts[p][q][m] = All(i, m, q)
    BY ZenonT(60)
  <2>2. \A q \in Queues : out'[q][m] = [r \in Queues |-> All(i, m, r)][q]
    BY <1>3, <2>1
  <2> QED
    BY ZenonT(60), <1>1, <1>7, <2>2
<1>9. ASSUME NEW m \in held[p] \cap putFailed
      PROVE  \E plan \in deliveries[m] : \A q \in Queues : out'[q][m] <= plan[q]
  <2>1. PICK i \in Ifaces : \A q \in Queues : puts[p][q][m] <= All(i, m, q)
    BY ZenonT(60) DEF Partial, AtMostAll
  <2>2. \A q \in Queues : out'[q][m] <= [r \in Queues |-> All(i, m, r)][q]
    BY <1>3, <2>1
  <2> QED
    BY ZenonT(60), <1>1, <1>7, <2>2
<1> QED
  BY ZenonT(60), <1>4, <1>5, <1>6, <1>8, <1>9
  DEF Mover!Move, Mover!Delivered, Mover!AtMost, failedGone, CommitUnit

(* A step that leaves the queues alone, and fails or gives back only       *)
(* messages that still wait, is no step of the mover.                      *)
LEMMA StutterStep ==
    ASSUME UNCHANGED <<in, arrived, out>>, failedGone' = failedGone
    PROVE  UNCHANGED Mover!vars
  BY DEF Mover!vars, Pending, failedGone

(* Every step of the processors is a step of the mover or none. *)
LEMMA MoveStep ==
    ASSUME IInv, Partial, FailedArrived, [Next]_vars
    PROVE  [Mover!Next]_(Mover!vars)
<1> USE DEF procVars, mqVars, goto
<1>1. ASSUME UNCHANGED <<in, arrived, out, putFailed>> PROVE UNCHANGED Mover!vars
  BY <1>1, StutterStep DEF failedGone, Pending
<1>2. ASSUME NEW p \in Procs, BackoutUnit(p) PROVE UNCHANGED Mover!vars
  <2>1. held[p] \subseteq Pending
    BY DEF IInv, Locks
  <2>2. failedGone' = failedGone
    BY <1>2, <2>1 DEF BackoutUnit, failedGone, Pending
  <2> QED
    BY <1>2, <2>2, StutterStep DEF BackoutUnit
<1>3. ASSUME NEW p \in Procs, commit(p) \/ (close(p) /\ CommitUnit(p)) PROVE Mover!Next
  <2>1. CommitUnit(p) /\ held[p] \in SUBSET Pending
    BY ZenonT(60), <1>3 DEF commit, IInv, Locks
  <2>2. \A m \in held[p] \ putFailed : \E i \in Ifaces : \A q \in Queues :
            puts[p][q][m] = All(i, m, q)
    <3>1. CASE close(p)
      <4>1. pc[p] = "top"
        BY ZenonT(60), <3>1 DEF close
      <4> QED
        BY <4>1 DEF IInv, Progress, Busy
    <3>2. CASE commit(p)
      <4>1. pc[p] = "put" /\ idx[p] = Len(Dest(iface[p], cur[p]))
        BY ZenonT(60), <3>2 DEF commit
      <4>2. /\ held[p] \ putFailed \subseteq {cur[p]}
            /\ iface[p] \in Ifaces
            /\ \A q \in Queues : puts[p][q][cur[p]] = All(iface[p], cur[p], q)
        BY ZenonT(60), <4>1 DEF IInv, Progress, Owner, Busy, All
      <4> QED
        BY <4>2
    <3> QED
      BY ZenonT(60), <1>3, <3>1, <3>2
  <2>3. Mover!Move(held[p], held[p] \cap putFailed)
    BY <2>1, <2>2, CommitMoves
  <2> QED
    BY <2>1, <2>3, Zenon DEF Mover!Next
<1>4. ASSUME NEW s \in Sources, NEW m \in Msgs, arrive(s, m) PROVE Mover!Next
  <2>1. Pending' = Pending \cup {m}
    BY <1>4 DEF arrive, Pending, IInv, TypeOK
  <2>2. m \notin putFailed
    BY <1>4 DEF arrive, FailedArrived
  <2> QED
    BY ZenonT(60), <1>4, <2>1, <2>2 DEF arrive, Mover!Next, Mover!Arrive
<1>5. ASSUME NEW p \in Procs, put_error(p) PROVE UNCHANGED Mover!vars
  <2>1. cur[p] \in Pending
    BY <1>5 DEF put_error, IInv, Owner, Locks, Busy
  <2>2. failedGone' = failedGone
    BY <1>5, <2>1 DEF put_error, failedGone, Pending
  <2> QED
    BY ZenonT(60), <1>5, <2>2, StutterStep DEF put_error
<1>6. ASSUME NEW p \in Procs, NEW i \in Ifaces, init(p, i) \/ init_error(p, i)
      PROVE  UNCHANGED Mover!vars
  BY <1>1, <1>6 DEF init, init_error
<1>7. ASSUME NEW p \in Procs, cmd_close(p) \/ run(p) \/ kill(p) PROVE [Mover!Next]_(Mover!vars)
  <2>1. CASE \/ cmd_close(p) \/ run_enter(p) \/ get(p) \/ get_none(p) \/ get_resize(p)
             \/ get_error(p) \/ do_route(p) \/ put(p)
    BY <1>1, <2>1, Zenon DEF cmd_close, run_enter, get, get_none, get_resize, get_error,
       do_route, put
  <2>2. CASE commit_error(p) \/ kill(p) \/ (close(p) /\ BackoutUnit(p))
    BY <1>2, <2>2, Zenon DEF commit_error, kill
  <2> QED
    BY <1>3, <1>5, <1>7, <2>1, <2>2, Zenon DEF run, close
<1>8. CASE UNCHANGED vars
  BY <1>1, <1>8 DEF vars
<1> QED
  BY <1>4, <1>6, <1>7, <1>8, Zenon DEF Next

(***************************************************************************)
(* The processors implement MessageMove: seen from the queues, whatever    *)
(* the threads do, messages move in single steps, each with exactly the    *)
(* copies that Processor.route decided on.                                 *)
(***************************************************************************)
THEOREM Refinement == Spec => MovesExactlyOnce
<1>1. Init => Mover!Init
  BY DEF Init, Mover!Init, Pending, NoPuts
<1>2. Init => Partial /\ FailedArrived
  BY DEF Init, Partial, FailedArrived
<1>3. IInv /\ IInv' /\ Partial /\ [Next]_vars => Partial'
  BY PartialStep
<1>4. IInv /\ FailedArrived /\ [Next]_vars => FailedArrived'
  BY FailedStep
<1>5. IInv /\ Partial /\ FailedArrived /\ [Next]_vars => [Mover!Next]_(Mover!vars)
  BY MoveStep
<1>6. Spec => [](Partial /\ FailedArrived)
  BY <1>2, <1>3, <1>4, Invariance, PTL DEF Spec
<1> QED
  BY <1>1, <1>5, <1>6, Invariance, PTL DEF Spec, MovesExactlyOnce, Mover!Spec
=============================================================================
