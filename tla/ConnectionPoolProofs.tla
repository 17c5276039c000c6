------------------------ MODULE ConnectionPoolProofs ------------------------
(***************************************************************************)
(* The pool hands a query to two users only after a close(q) by a former   *)
(* user, knows its open connections, and is bounded by the number of its   *)
(* users, for every number of users and connections.                       *)
(*                                                                         *)
(* NotShared is not inductive: take() must know that a stopped query is in *)
(* nobody's hands.  IInv adds that a query in use is not stopped unless it *)
(* was closed once more, that whatever is in use or in the vector was      *)
(* made, so that a new connection differs from all of them, and that a     *)
(* connection that is not yet in the vector is known to its user alone.    *)
(***************************************************************************)
EXTENDS ConnectionPool, SequenceTheorems, FiniteSetTheorems, TLAPS

(* The types the argument needs. *)
Types ==
    /\ connections \in Seq(Queries) /\ i \in [Users -> Nat \ {0}]
    /\ pc \in [Users -> {"out", "scan", "connect", "add", "use"}]
    /\ q \in [Users -> Queries \cup {None}]
    /\ info \in [Queries -> {"empty", "run", "stop"}]
    /\ created \subseteq Queries /\ old \in [Users -> Queries \cup {None}]

(* What a user has is made, and not stopped but by a former user. *)
InUse ==
    /\ \A u \in Users : pc[u] \in {"add", "use"} => q[u] # None
    /\ \A u \in Users : q[u] # None => q[u] \in created /\ (info[q[u]] # "stop" \/ q[u] \in again)
    /\ \A k \in 1..Len(connections) : connections[k] \in created
    /\ \A u \in Users : old[u] # None => old[u] \in created

(* A query that is still to be added runs, and nobody else knows it. *)
Fresh ==
    \A u \in Users : pc[u] = "add" =>
        /\ info[q[u]] = "run"
        /\ \A k \in 1..Len(connections) : connections[k] # q[u]
        /\ \A v \in Users : old[v] # q[u] /\ (v # u => q[v] # q[u])

Adding == {q[u] : u \in {v \in Users : pc[v] = "add"}}

IInv == Types /\ InUse /\ Fresh /\ NotShared /\ OpenIsKnown

(* Removing one element of a sequence leaves the others. *)
LEMMA Removed ==
    ASSUME NEW S, NEW s \in Seq(S), NEW k \in 1..Len(s)
    PROVE  /\ RemoveAt(s, k) \in Seq(S)
           /\ \A j \in 1..Len(RemoveAt(s, k)) : \E l \in 1..Len(s) : RemoveAt(s, k)[j] = s[l]
           /\ ToSet(s) \ {s[k]} \subseteq ToSet(RemoveAt(s, k))
           /\ Len(RemoveAt(s, k)) = Len(s) - 1
           /\ \A j \in 1..Len(RemoveAt(s, k)) : RemoveAt(s, k)[j] = s[IF j < k THEN j ELSE j + 1]
  <1> DEFINE a == SubSeq(s, 1, k-1)
             b == SubSeq(s, k+1, Len(s))
             c == a \o b
  <1>0. Len(s) \in Nat /\ k \in Nat /\ k >= 1 /\ k <= Len(s) /\ 1 \in 1..Len(s)+1
    OBVIOUS
  <1>1. a \in Seq(S) /\ Len(a) = k - 1 /\ \A j \in 1..k-1 : a[j] = s[j]
    BY <1>0, SubSeqProperties
  <1>2. b \in Seq(S) /\ Len(b) = Len(s) - k /\ \A j \in 1..Len(s)-k : b[j] = s[k+j]
    BY <1>0, SubSeqProperties
  <1>3. /\ c \in Seq(S) /\ Len(c) = Len(a) + Len(b)
        /\ \A j \in 1..Len(a) + Len(b) : c[j] = IF j <= Len(a) THEN a[j] ELSE b[j - Len(a)]
    BY ZenonT(60), <1>1, <1>2, ConcatProperties
  <1>4. RemoveAt(s, k) = c
    BY DEF RemoveAt
  <1> HIDE DEF a, b, c
  <1>5. c \in Seq(S) /\ Len(c) = Len(s) - 1 /\ Len(c) \in Nat
    BY <1>0, <1>1, <1>2, <1>3
  <1>6. \A j \in 1..Len(c) : c[j] = s[IF j < k THEN j ELSE j + 1]
    <2> SUFFICES ASSUME NEW j \in 1..Len(c) PROVE c[j] = s[IF j < k THEN j ELSE j + 1]
      OBVIOUS
    <2>0. j \in Nat /\ j >= 1 /\ j <= Len(s) - 1 /\ j \in 1..Len(a) + Len(b)
      BY <1>0, <1>3, <1>5
    <2>1. CASE j < k
      <3>1. j <= Len(a) /\ j \in 1..k-1
        BY <1>0, <1>1, <2>0, <2>1
      <3> QED
        BY ZenonT(60), <1>1, <1>3, <2>0, <2>1, <3>1
    <2>2. CASE ~(j < k)
      <3>1. ~(j <= Len(a)) /\ j - Len(a) \in 1..Len(s)-k /\ k + (j - Len(a)) = j + 1
        BY <1>0, <1>1, <2>0, <2>2
      <3>2. c[j] = b[j - Len(a)]
        BY ZenonT(60), <1>3, <2>0, <3>1
      <3> QED
        BY ZenonT(60), <1>2, <2>2, <3>1, <3>2
    <2> QED
      BY <2>1, <2>2
  <1>7. ASSUME NEW l \in 1..Len(s), s[l] # s[k] PROVE \E j \in 1..Len(c) : c[j] = s[l]
    <2>1. CASE l < k
      <3>1. l \in 1..Len(c) /\ c[l] = s[l]
        BY <1>0, <1>5, <1>6, <2>1
      <3> QED BY <3>1
    <2>2. CASE l > k
      <3>1. l - 1 \in 1..Len(c) /\ ~(l - 1 < k) /\ l - 1 + 1 = l
        BY <1>0, <1>5, <2>2
      <3>2. c[l - 1] = s[l]
        BY <1>6, <3>1
      <3> QED BY <3>1, <3>2
    <2> QED BY <1>0, <1>7, <2>1, <2>2
  <1>8. ASSUME NEW j \in 1..Len(c) PROVE \E l \in 1..Len(s) : c[j] = s[l]
    BY SMTT(30), <1>0, <1>5, <1>6
  <1>9. DOMAIN s = 1..Len(s) /\ DOMAIN c = 1..Len(c)
    BY <1>5
  <1>10. ToSet(s) \ {s[k]} \subseteq ToSet(c)
    BY <1>7, <1>9, Zenon DEF ToSet
  <1> QED BY ZenonT(60), <1>4, <1>5, <1>6, <1>8, <1>10

(* What is left of the sequence was there before. *)
LEMMA LeftOver ==
    ASSUME NEW S, NEW s \in Seq(S), NEW k \in 1..Len(s)
    PROVE  /\ RemoveAt(s, k) \in Seq(S)
           /\ \A j \in 1..Len(RemoveAt(s, k)) : \E l \in 1..Len(s) : RemoveAt(s, k)[j] = s[l]
  BY Removed

(* What a step of the scan reads is an element of the vector. *)
LEMMA Scanned ==
    ASSUME IInv, NEW u \in Users, i[u] <= Len(connections)
    PROVE  i[u] \in 1..Len(connections) /\ connections[i[u]] \in created /\ connections[i[u]] \in Queries
  <1>1. Len(connections) \in Nat /\ i[u] \in Nat \ {0}
    BY DEF IInv, Types
  <1>2. i[u] \in 1..Len(connections)
    BY <1>1
  <1> QED BY <1>2 DEF IInv, Types, InUse

(* query.clear() and the removal touch no query in use but the removed one. *)
LEMMA discardKeeps ==
    ASSUME IInv, NEW u \in Users, i[u] <= Len(connections), discard(i[u]),
           i' \in [Users -> Nat \ {0}], UNCHANGED <<shut, pc, q, old, created, lost, again>>
    PROVE  IInv'
  <1> DEFINE n == connections[i[u]]
  <1>1. i[u] \in 1..Len(connections) /\ n \in created /\ n \in Queries
    BY Scanned
  <1>2. /\ connections' \in Seq(Queries)
        /\ \A k \in 1..Len(connections') : \E l \in 1..Len(connections) : connections'[k] = connections[l]
        /\ ToSet(connections) \ {n} \subseteq ToSet(connections')
    <2>1. connections' = RemoveAt(connections, i[u]) /\ connections \in Seq(Queries)
      BY DEF IInv, Types, discard
    <2>2. PICK k \in 1..Len(connections) : k = i[u] /\ n = connections[k]
      BY <1>1
    <2>r. /\ RemoveAt(connections, k) \in Seq(Queries)
          /\ \A j \in 1..Len(RemoveAt(connections, k)) :
                \E l \in 1..Len(connections) : RemoveAt(connections, k)[j] = connections[l]
      BY <2>1, <2>2, LeftOver
    <2>3. connections' \in Seq(Queries)
      BY ZenonT(60), <2>1, <2>2, <2>r
    <2>4. \A j \in 1..Len(connections') : \E l \in 1..Len(connections) : connections'[j] = connections[l]
      BY ZenonT(60), <2>1, <2>2, <2>r
    <2>5. ToSet(connections) \ {n} \subseteq ToSet(connections')
      BY ZenonT(60), <2>1, <2>2, Removed
    <2> QED BY <2>3, <2>4, <2>5
  <1>3. Types'
    BY <1>1, <1>2 DEF IInv, Types, discard
  <1>4. InUse'
    <2>1. \A k \in 1..Len(connections') : connections'[k] \in created'
      BY <1>2 DEF IInv, InUse
    <2>2. \A v \in Users : q[v] # None => info'[q[v]] # "stop" \/ q[v] \in again
      BY <1>1 DEF IInv, Types, InUse, discard
    <2> QED BY <2>1, <2>2 DEF IInv, InUse
  <1>f. Fresh'
    <2> SUFFICES ASSUME NEW v \in Users, pc[v] = "add"
                 PROVE  /\ info'[q[v]] = "run"
                        /\ \A k \in 1..Len(connections') : connections'[k] # q[v]
      BY ZenonT(60) DEF IInv, Fresh
    <2>1. q[v] \in Queries /\ q[v] # n
      BY <1>1 DEF IInv, Types, InUse, Fresh
    <2>2. info'[q[v]] = info[q[v]]
      BY ZenonT(60), <1>1, <2>1 DEF IInv, Types, discard
    <2> QED BY <1>2, <2>2 DEF IInv, Fresh
  <1>5. OpenIsKnown'
    <2>1. alive' = alive \ {n}
      BY DEF discard
    <2> QED BY <1>2, <2>1 DEF IInv, OpenIsKnown
  <1> QED BY <1>3, <1>4, <1>f, <1>5 DEF IInv, NotShared

(* A stopped query is in nobody's hands unless a former user stopped it. *)
LEMMA takeKeeps ==
    ASSUME IInv, NEW u \in Users, i[u] <= Len(connections), pc[u] = "scan", take(u),
           UNCHANGED <<shut, pc, old, created, lost, again>>
    PROVE  IInv'
  <1> DEFINE n == connections[i[u]]
  <1>1. n \in created /\ n \in Queries /\ n # None
    BY Scanned, PoolAssumption
  <1>2. /\ info[n] = "stop" /\ info' = [info EXCEPT ![n] = "run"] /\ q' = [q EXCEPT ![u] = n]
        /\ i' = [i EXCEPT ![u] = @ + 1] /\ connections' = connections /\ alive' = alive
    BY DEF take
  <1> HIDE DEF n
  <1>3. Types'
    BY <1>1, <1>2 DEF IInv, Types
  <1>4. \A v \in Users : q[v] = n => n \in again
    BY ZenonT(60), <1>1, <1>2 DEF IInv, InUse
  <1>f. Fresh'
    <2> SUFFICES ASSUME NEW v \in Users, pc[v] = "add"
                 PROVE  /\ info'[q'[v]] = "run"
                        /\ \A k \in 1..Len(connections) : connections[k] # q'[v]
                        /\ \A w \in Users : old[w] # q'[v] /\ (w # v => q'[w] # q'[v])
      BY ZenonT(60), <1>2 DEF Fresh
    <2>1. v # u /\ q'[v] = q[v] /\ q[v] # n /\ q[v] \in Queries
      BY ZenonT(60), <1>1, <1>2 DEF IInv, Types, InUse, Fresh
    <2>2. info'[q[v]] = "run"
      BY ZenonT(60), <1>1, <1>2, <2>1 DEF IInv, Types, Fresh
    <2>3. \A w \in Users : w # v => q'[w] # q[v]
      BY ZenonT(60), <1>2, <2>1 DEF IInv, Types, Fresh
    <2> QED BY ZenonT(60), <2>1, <2>2, <2>3 DEF IInv, Fresh
  <1>5. InUse'
    BY ZenonT(60), <1>1, <1>2, <1>4 DEF IInv, Types, InUse
  <1>6. NotShared'
    BY ZenonT(60), <1>1, <1>2, <1>4 DEF IInv, Types, NotShared
  <1>7. OpenIsKnown'
    BY <1>2 DEF IInv, Types, OpenIsKnown
  <1> QED BY ZenonT(60), <1>3, <1>f, <1>5, <1>6, <1>7 DEF IInv

(* open() enters or leaves its scan. *)
LEMMA openKeeps == ASSUME IInv, NEW u \in Users, open(u) PROVE IInv'
  <1>1. /\ pc[u] = "out" /\ UNCHANGED <<connections, shut, q, old, created, alive, info, lost, again>>
        /\ \/ pc' = [pc EXCEPT ![u] = "scan"] /\ i' = [i EXCEPT ![u] = 1]
           \/ pc' = pc /\ i' = i
    BY DEF open, to, poolVars
  <1>2. Types'
    <2>0. 1 \in Nat \ {0}
      OBVIOUS
    <2>1. i' \in [Users -> Nat \ {0}]
      BY ZenonT(60), <1>1, <2>0 DEF IInv, Types
    <2>2. pc' \in [Users -> {"out", "scan", "connect", "add", "use"}]
      BY ZenonT(60), <1>1 DEF IInv, Types
    <2> QED BY ZenonT(60), <1>1, <2>1, <2>2 DEF IInv, Types
  <1>3. InUse'
    BY <1>1 DEF IInv, Types, InUse
  <1>4. OpenIsKnown'
    BY <1>1 DEF IInv, Types, OpenIsKnown
  <1>5. Fresh'
    <2>1. \A v \in Users : pc'[v] = "add" => pc[v] = "add"
      BY ZenonT(60), <1>1 DEF IInv, Types
    <2> QED BY ZenonT(60), <1>1, <2>1 DEF IInv, Fresh
  <1> QED BY ZenonT(60), <1>1, <1>2, <1>3, <1>4, <1>5 DEF IInv, NotShared

(* A user that lets its query go leaves the others theirs. *)
LEMMA LetGo ==
    ASSUME Types, InUse, Fresh, NEW u \in Users, pc' = [pc EXCEPT ![u] = "out"], q' = [q EXCEPT ![u] = None],
           UNCHANGED <<connections, old, info>>
    PROVE  Fresh'
  <1> SUFFICES ASSUME NEW v \in Users, pc'[v] = "add"
               PROVE  /\ info[q'[v]] = "run"
                      /\ \A k \in 1..Len(connections) : connections[k] # q'[v]
                      /\ \A w \in Users : old[w] # q'[v] /\ (w # v => q'[w] # q'[v])
    BY ZenonT(60) DEF Fresh
  <1>1. v # u /\ pc[v] = "add" /\ q'[v] = q[v] /\ q[v] # None
    BY ZenonT(60) DEF Types, InUse
  <1>2. \A w \in Users : w # v => q'[w] # q[v]
    BY ZenonT(60), <1>1 DEF Types, Fresh
  <1> QED BY ZenonT(60), <1>1, <1>2 DEF Fresh

(* One element of the scan, or its end. *)
LEMMA scanKeeps == ASSUME IInv, NEW u \in Users, scan(u) PROVE IInv'
  <1>0. pc[u] = "scan" /\ UNCHANGED <<shut, old, created, lost, again>>
    BY DEF scan
  <1>1. CASE i[u] <= Len(connections) /\ (drop_closed(u) \/ drop_old(u)) /\ pc' = pc
    <2>1. discard(i[u]) /\ q' = q /\ i' \in [Users -> Nat \ {0}]
      BY <1>1 DEF drop_closed, drop_old, IInv, Types
    <2> QED BY ZenonT(60), <1>0, <1>1, <2>1, discardKeeps
  <1>2. CASE i[u] <= Len(connections) /\ take(u) /\ pc' = pc
    BY ZenonT(60), <1>0, <1>2, takeKeeps
  <1>3. CASE pass(u) /\ pc' = pc
    <2>1. Types'
      BY <1>0, <1>3 DEF pass, IInv, Types
    <2> QED BY ZenonT(60), <1>0, <1>3, <2>1 DEF pass, IInv, InUse, Fresh, NotShared, OpenIsKnown
  <1>4. CASE /\ pc' = [pc EXCEPT ![u] = IF q[u] = None THEN "connect" ELSE "use"]
             /\ i' = [i EXCEPT ![u] = 1] /\ UNCHANGED <<connections, alive, info, q>>
    <2>1. Types'
      BY <1>0, <1>4 DEF IInv, Types
    <2>2. InUse'
      BY <1>0, <1>4 DEF IInv, Types, InUse
    <2>3. OpenIsKnown'
      BY <1>0, <1>4 DEF IInv, Types, OpenIsKnown
    <2>4. \A v \in Users : pc'[v] = "add" => pc[v] = "add"
      BY <1>0, <1>4 DEF IInv, Types
    <2>5. Fresh'
      BY ZenonT(60), <1>0, <1>4, <2>4 DEF IInv, Fresh
    <2> QED BY ZenonT(60), <1>0, <1>4, <2>1, <2>2, <2>3, <2>5 DEF IInv, NotShared
  <1>5. CASE /\ shut = "null" /\ pc' = [pc EXCEPT ![u] = "out"] /\ q' = [q EXCEPT ![u] = None]
             /\ i' = [i EXCEPT ![u] = 1] /\ UNCHANGED <<connections, alive, info>>
    <2>1. Types'
      BY <1>0, <1>5 DEF IInv, Types
    <2>2. InUse'
      BY ZenonT(60), <1>0, <1>5 DEF IInv, Types, InUse
    <2>3. NotShared'
      BY <1>0, <1>5 DEF IInv, Types, NotShared
    <2>4. Fresh'
      BY ZenonT(60), <1>0, <1>5, LetGo DEF IInv
    <2> QED BY ZenonT(60), <1>0, <1>5, <2>1, <2>2, <2>3, <2>4 DEF IInv, OpenIsKnown
  <1> QED BY ZenonT(60), <1>1, <1>2, <1>3, <1>4, <1>5 DEF scan, to

(* A connection is made: nobody has it yet. *)
LEMMA connectKeeps == ASSUME IInv, NEW u \in Users, connect(u) PROVE IInv'
  <1>0. pc[u] = "connect" /\ UNCHANGED <<connections, shut, i, old, again>>
    BY DEF connect, poolVars
  <1>1. CASE pc' = [pc EXCEPT ![u] = "out"] /\ UNCHANGED <<created, alive, info, q, lost>>
    <2>1. Types'
      BY ZenonT(60), <1>0, <1>1 DEF IInv, Types
    <2>2. InUse'
      BY <1>0, <1>1 DEF IInv, Types, InUse
    <2>3. OpenIsKnown'
      BY <1>0, <1>1 DEF IInv, Types, OpenIsKnown
    <2>4. \A v \in Users : pc'[v] = "add" => pc[v] = "add"
      BY <1>0, <1>1 DEF IInv, Types
    <2>5. Fresh'
      BY ZenonT(60), <1>0, <1>1, <2>4 DEF IInv, Fresh
    <2> QED BY ZenonT(60), <1>0, <1>1, <2>1, <2>2, <2>3, <2>5 DEF IInv, NotShared
  <1>2. ASSUME NEW n \in Queries \ created, created' = created \cup {n}, alive' = alive \cup {n},
               \/ /\ pc' = [pc EXCEPT ![u] = "add"] /\ q' = [q EXCEPT ![u] = n]
                  /\ info' = [info EXCEPT ![n] = "run"] /\ lost' = lost
               \/ pc' = [pc EXCEPT ![u] = "out"] /\ lost' = lost \cup {n} /\ UNCHANGED <<q, info>>
        PROVE  IInv'
    <2>0. /\ n # None /\ (\A v \in Users : q[v] # n) /\ (\A v \in Users : old[v] # n)
          /\ \A k \in 1..Len(connections) : connections[k] # n
      BY ZenonT(60), <1>2, PoolAssumption DEF IInv, InUse
    <2>1. Types'
      <3>1. pc' \in [Users -> {"out", "scan", "connect", "add", "use"}]
        <4>1. \E l \in {"add", "out"} : pc' = [pc EXCEPT ![u] = l]
          BY <1>2
        <4> QED BY <4>1 DEF IInv, Types
      <3>2. q' \in [Users -> Queries \cup {None}] /\ info' \in [Queries -> {"empty", "run", "stop"}]
        <4>1. CASE q' = [q EXCEPT ![u] = n] /\ info' = [info EXCEPT ![n] = "run"]
          BY <1>2, <4>1 DEF IInv, Types
        <4>2. CASE q' = q /\ info' = info
          BY <4>2 DEF IInv, Types
        <4> QED BY ZenonT(60), <1>2, <4>1, <4>2
      <3> QED BY ZenonT(60), <1>0, <1>2, <3>1, <3>2 DEF IInv, Types
    <2>2. InUse'
      <3>1. \A v \in Users : pc'[v] \in {"add", "use"} => q'[v] # None
        BY ZenonT(60), <1>0, <1>2, <2>0 DEF IInv, Types, InUse
      <3>2. \A v \in Users : q'[v] # None => q'[v] \in created' /\ (info'[q'[v]] # "stop" \/ q'[v] \in again')
        BY SMTT(30), <1>0, <1>2, <2>0 DEF IInv, Types, InUse
      <3> QED BY ZenonT(60), <1>0, <1>2, <3>1, <3>2 DEF IInv, InUse
    <2>3. NotShared'
      BY <1>0, <1>2, <2>0 DEF IInv, Types, NotShared
    <2>f. Fresh'
      <3> SUFFICES ASSUME NEW v \in Users, pc'[v] = "add"
                   PROVE  /\ info'[q'[v]] = "run"
                          /\ \A k \in 1..Len(connections) : connections[k] # q'[v]
                          /\ \A w \in Users : old[w] # q'[v] /\ (w # v => q'[w] # q'[v])
        BY ZenonT(60), <1>0 DEF Fresh
      <3>1. CASE v = u
        <4>1. q' = [q EXCEPT ![u] = n] /\ info' = [info EXCEPT ![n] = "run"]
          BY <1>2, <3>1 DEF IInv, Types
        <4>2. q'[u] = n /\ info'[n] = "run" /\ \A w \in Users \ {u} : q'[w] = q[w]
          BY ZenonT(60), <1>2, <4>1 DEF IInv, Types
        <4> QED BY ZenonT(60), <2>0, <3>1, <4>2
      <3>2. CASE v # u
        <4>1. pc[v] = "add" /\ q'[v] = q[v] /\ q[v] \in Queries /\ q[v] # n
          BY <1>2, <2>0, <3>2 DEF IInv, Types, InUse
        <4>2. info'[q[v]] = info[q[v]]
          BY <1>2, <4>1 DEF IInv, Types
        <4>3. \A w \in Users : q'[w] = q[w] \/ q'[w] = n
          BY <1>2 DEF IInv, Types
        <4> QED BY ZenonT(60), <4>1, <4>2, <4>3 DEF IInv, Fresh
      <3> QED BY ZenonT(60), <3>1, <3>2
    <2>4. OpenIsKnown'
      <3>1. Adding \subseteq Adding' /\ n \in lost' \cup Adding' /\ lost \subseteq lost'
        BY <1>0, <1>2 DEF IInv, Types, Adding
      <3> QED BY ZenonT(60), <1>0, <1>2, <3>1 DEF IInv, OpenIsKnown, Adding
    <2> QED BY ZenonT(60), <2>1, <2>2, <2>f, <2>3, <2>4 DEF IInv
  <1> QED BY ZenonT(60), <1>1, <1>2 DEF connect, to

(* The new query comes into the vector, or its user loses it. *)
LEMMA addElementKeeps == ASSUME IInv, NEW u \in Users, addElement(u) PROVE IInv'
  <1>0. /\ pc[u] = "add" /\ q[u] \in created /\ q[u] \in Queries
        /\ UNCHANGED <<shut, i, old, created, alive, info, again>>
    BY DEF addElement, IInv, Types, InUse
  <1>1. CASE connections' = Append(connections, q[u]) /\ pc' = [pc EXCEPT ![u] = "use"] /\ UNCHANGED <<q, lost>>
    <2>1. /\ connections' \in Seq(Queries) /\ Len(connections') = Len(connections) + 1
          /\ Len(connections) \in Nat
          /\ connections'[Len(connections) + 1] = q[u]
          /\ \A k \in 1..Len(connections) : connections'[k] = connections[k]
      BY <1>0, <1>1 DEF IInv, Types
    <2>2. Types'
      BY ZenonT(60), <1>0, <1>1, <2>1 DEF IInv, Types
    <2>3. InUse'
      <3>1. \A v \in Users : pc'[v] \in {"add", "use"} => q'[v] # None
        BY ZenonT(60), <1>0, <1>1 DEF IInv, Types, InUse
      <3>2. \A k \in 1..Len(connections') : connections'[k] \in created'
        <4>1. \A k \in 1..Len(connections') : k \in 1..Len(connections) \/ k = Len(connections) + 1
          BY <2>1
        <4> QED BY ZenonT(60), <1>0, <2>1, <4>1 DEF IInv, InUse
      <3> QED BY ZenonT(60), <1>0, <1>1, <3>1, <3>2 DEF IInv, InUse
    <2>4. OpenIsKnown'
      <3>1. Adding \subseteq Adding' \cup {q[u]}
        BY <1>1 DEF IInv, Types, Adding
      <3>2. /\ DOMAIN connections = 1..Len(connections) /\ DOMAIN connections' = 1..Len(connections')
            /\ 1..Len(connections) \subseteq 1..Len(connections') /\ Len(connections) + 1 \in 1..Len(connections')
        BY <2>1 DEF IInv, Types
      <3>3. ToSet(connections) \cup {q[u]} \subseteq ToSet(connections')
        BY <2>1, <3>2, Zenon DEF ToSet
      <3> QED BY ZenonT(60), <1>0, <1>1, <3>1, <3>3 DEF IInv, OpenIsKnown, Adding
    <2>f. Fresh'
      <3> SUFFICES ASSUME NEW v \in Users, pc'[v] = "add"
                   PROVE  /\ info[q[v]] = "run"
                          /\ \A k \in 1..Len(connections') : connections'[k] # q[v]
                          /\ \A w \in Users : old[w] # q[v] /\ (w # v => q[w] # q[v])
        BY ZenonT(60), <1>0, <1>1 DEF Fresh
      <3>1. v # u /\ pc[v] = "add"
        BY ZenonT(60), <1>1 DEF IInv, Types
      <3>2. q[u] # q[v]
        BY ZenonT(60), <3>1 DEF IInv, Fresh
      <3>3. \A k \in 1..Len(connections') : k \in 1..Len(connections) \/ k = Len(connections) + 1
        BY <2>1
      <3>4. \A k \in 1..Len(connections') : connections'[k] # q[v]
        BY ZenonT(60), <2>1, <3>1, <3>2, <3>3 DEF IInv, Fresh
      <3> QED BY ZenonT(60), <3>1, <3>4 DEF IInv, Fresh
    <2> QED BY ZenonT(60), <1>0, <1>1, <2>2, <2>3, <2>f, <2>4 DEF IInv, NotShared
  <1>2. CASE /\ shut = "null" /\ pc' = [pc EXCEPT ![u] = "out"] /\ q' = [q EXCEPT ![u] = None]
             /\ UNCHANGED connections
    <2>1. Types'
      BY ZenonT(60), <1>0, <1>2 DEF IInv, Types
    <2>2. InUse'
      BY ZenonT(60), <1>0, <1>2 DEF IInv, Types, InUse
    <2>3. NotShared'
      BY <1>0, <1>2 DEF IInv, Types, NotShared
    <2>4. Fresh'
      BY ZenonT(60), <1>0, <1>2, LetGo DEF IInv
    <2> QED BY ZenonT(60), <1>0, <1>2, <2>1, <2>2, <2>3, <2>4 DEF IInv, OpenIsKnown
  <1> QED BY <1>1, <1>2 DEF addElement, to

(* A query is stopped by its user: who else has it had it closed again before. *)
LEMMA close_qKeeps == ASSUME IInv, NEW u \in Users, close_q(u) PROVE IInv'
  <1>1. /\ pc[u] = "use" /\ pc' = [pc EXCEPT ![u] = "out"] /\ q' = [q EXCEPT ![u] = None]
        /\ UNCHANGED <<connections, shut, i, created, alive, lost, again>>
    BY DEF close_q, to, poolVars
  <1>2. PICK n \in Queries, l \in {"empty", "stop"} : n = q[u] /\ info' = [info EXCEPT ![n] = l]
    BY ZenonT(60), <1>1 DEF close_q, stop, IInv, Types, InUse
  <1>o. PICK m \in {n, None} : old' = [old EXCEPT ![u] = m]
    BY ZenonT(60), <1>2 DEF close_q
  <1>3. n # None /\ n \in created /\ \A v \in Users \ {u} : q[v] = n => n \in again
    BY ZenonT(60), <1>1, <1>2, PoolAssumption DEF IInv, NotShared, InUse
  <1>4. Types'
    BY ZenonT(60), <1>1, <1>2, <1>o DEF IInv, Types
  <1>5. InUse'
    <2>1. \A v \in Users : pc'[v] \in {"add", "use"} => q'[v] # None
      BY ZenonT(60), <1>1 DEF IInv, Types, InUse
    <2>2. \A v \in Users : q'[v] # None => q'[v] \in created /\ (info'[q'[v]] # "stop" \/ q'[v] \in again)
      BY ZenonT(60), <1>1, <1>2, <1>3 DEF IInv, Types, InUse
    <2>3. \A v \in Users : old'[v] # None => old'[v] \in created
      BY ZenonT(60), <1>3, <1>o DEF IInv, Types, InUse
    <2> QED BY ZenonT(60), <1>1, <2>1, <2>2, <2>3 DEF IInv, InUse
  <1>6. NotShared'
    BY <1>1 DEF IInv, Types, NotShared
  <1>7. OpenIsKnown'
    BY <1>1 DEF IInv, Types, OpenIsKnown
  <1>f. Fresh'
    <2> SUFFICES ASSUME NEW v \in Users, pc'[v] = "add"
                 PROVE  /\ info'[q'[v]] = "run"
                        /\ \A k \in 1..Len(connections) : connections[k] # q'[v]
                        /\ \A w \in Users : old'[w] # q'[v] /\ (w # v => q'[w] # q'[v])
      BY ZenonT(60), <1>1 DEF Fresh
    <2>1. v # u /\ pc[v] = "add" /\ q'[v] = q[v] /\ q[v] # None /\ q[v] \in Queries
      BY ZenonT(60), <1>1 DEF IInv, Types, InUse
    <2>2. q[v] # n
      BY ZenonT(60), <1>2, <2>1 DEF IInv, Fresh
    <2>3. info'[q[v]] = info[q[v]]
      BY ZenonT(60), <1>2, <2>1, <2>2 DEF IInv, Types
    <2>4. \A w \in Users : w # v => q'[w] # q[v]
      BY ZenonT(60), <1>1, <2>1 DEF IInv, Types, Fresh
    <2>5. \A w \in Users : old'[w] # q[v]
      BY ZenonT(60), <1>o, <2>1, <2>2 DEF IInv, Types, Fresh
    <2> QED BY ZenonT(60), <2>1, <2>3, <2>4, <2>5 DEF IInv, Fresh
  <1> QED BY ZenonT(60), <1>4, <1>5, <1>6, <1>7, <1>f DEF IInv

(* A former user closes once more: a query it stops in use is recorded. *)
LEMMA close_againKeeps == ASSUME IInv, NEW u \in Users, close_again(u) PROVE IInv'
  <1>1. UNCHANGED <<connections, shut, pc, i, q, old, created, alive, lost>>
    BY DEF close_again, poolVars
  <1>2. PICK n \in Queries : n = old[u] /\ n # None
    BY ZenonT(60) DEF close_again, IInv, Types
  <1>3. /\ info' = [info EXCEPT ![n] = IF @ = "empty" THEN @ ELSE "stop"]
        /\ again' = IF info[n] = "run" THEN again \cup {n} ELSE again
    BY ZenonT(60), <1>2 DEF close_again, stop
  <1>4. Types'
    <2>1. info' \in [Queries -> {"empty", "run", "stop"}]
      BY <1>3 DEF IInv, Types
    <2> QED BY ZenonT(60), <1>1, <2>1 DEF IInv, Types
  <1>5. again \subseteq again' /\ (info[n] = "run" => n \in again')
    BY <1>3
  <1>6. \A m \in Queries \ {n} : info'[m] = info[m]
    BY ZenonT(60), <1>3 DEF IInv, Types
  <1>7. InUse'
    <2>1. ASSUME NEW v \in Users, q[v] # None PROVE info'[q[v]] # "stop" \/ q[v] \in again'
      <3>1. CASE q[v] = n
        <4>1. CASE info[n] = "empty"
          <5>1. info'[n] = "empty"
            BY <1>3, <4>1 DEF IInv, Types
          <5> QED BY ZenonT(60), <3>1, <5>1
        <4>2. CASE info[n] = "run"
          BY ZenonT(60), <1>5, <3>1, <4>2
        <4>3. CASE info[n] = "stop"
          BY ZenonT(60), <1>2, <1>5, <3>1, <4>3 DEF IInv, InUse
        <4> QED BY ZenonT(60), <4>1, <4>2, <4>3 DEF IInv, Types
      <3>2. CASE q[v] # n
        <4>1. info'[q[v]] = info[q[v]]
          BY ZenonT(60), <1>6, <2>1, <3>2 DEF IInv, Types
        <4> QED BY ZenonT(60), <1>5, <2>1, <4>1 DEF IInv, InUse
      <3> QED BY ZenonT(60), <3>1, <3>2
    <2> QED BY ZenonT(60), <1>1, <2>1 DEF IInv, InUse
  <1>8. NotShared'
    BY ZenonT(60), <1>1, <1>5 DEF IInv, NotShared
  <1>9. OpenIsKnown'
    BY ZenonT(60), <1>1 DEF IInv, OpenIsKnown
  <1>10. Fresh'
    <2>1. ASSUME NEW v \in Users, pc[v] = "add" PROVE info'[q[v]] = "run"
      <3>1. q[v] # n /\ q[v] \in Queries
        BY ZenonT(60), <1>2, <2>1 DEF IInv, Types, InUse, Fresh
      <3> QED BY ZenonT(60), <1>6, <2>1, <3>1 DEF IInv, Fresh
    <2> QED BY ZenonT(60), <1>1, <2>1 DEF IInv, Fresh
  <1> QED BY ZenonT(60), <1>4, <1>7, <1>8, <1>9, <1>10 DEF IInv

(* close(), the database, and steps of nobody. *)
LEMMA OthersKeep ==
    ASSUME IInv, close \/ close_null \/ (\E n \in Queries : db_drop(n)) \/ UNCHANGED vars
    PROVE  IInv'
  <1>1. UNCHANGED <<connections, pc, i, q, old, created, info, lost, again>> /\ alive' \subseteq alive
        /\ (shut' = "no" => shut = "no")
    BY DEF close, close_null, db_drop, vars, poolVars
  <1>2. Types' /\ InUse' /\ Fresh' /\ NotShared'
    BY ZenonT(60), <1>1 DEF IInv, Types, InUse, Fresh, NotShared
  <1>3. OpenIsKnown'
    BY <1>1 DEF IInv, OpenIsKnown
  <1> QED BY <1>2, <1>3 DEF IInv

(* The pool starts empty. *)
LEMMA InitHolds == ASSUME Init PROVE IInv
  <1>1. connections \in Seq(Queries) /\ Len(connections) = 0
    BY DEF Init
  <1>2. Types
    BY <1>1 DEF Init, Types
  <1>3. InUse /\ Fresh /\ NotShared /\ OpenIsKnown
    BY <1>1 DEF Init, InUse, Fresh, NotShared, OpenIsKnown
  <1> QED BY <1>2, <1>3 DEF IInv

(* Every step keeps the invariant. *)
LEMMA NextKeeps == ASSUME IInv, [Next]_vars PROVE IInv'
  BY ZenonT(60), openKeeps, scanKeeps, connectKeeps, addElementKeeps, close_qKeeps, close_againKeeps, OthersKeep DEF Next

(* The inductive invariant holds in every reachable state of the pool. *)
THEOREM Invariance == Spec => []IInv
  BY InitHolds, NextKeeps, PTL DEF Spec

(* open() hands a query to a second user only if a former user closed it    *)
(* once more while it was in use: though open() and close(q) take different *)
(* monitors and connections are made under none, there is no other way.     *)
THEOREM HandedOutOnce == Spec => []NotShared
  <1>1. IInv => NotShared
    BY ZenonT(60) DEF IInv
  <1> QED BY <1>1, Invariance, PTL

(* Until close() an open connection is in the vector, in the hands of      *)
(* add(), or was given up by an open() that failed after making it.        *)
THEOREM OpenKnown == Spec => []OpenIsKnown
  <1>1. IInv => OpenIsKnown
    BY DEF IInv
  <1> QED BY <1>1, Invariance, PTL

-----------------------------------------------------------------------------
(* The bound of the vector.  A scan that ends without a query has passed    *)
(* only queries that others had when it passed them; they have them still   *)
(* or are out, as they cannot come back while the monitor is held.  A scan  *)
(* that has removed a query may overlook others, but then the vector has    *)
(* become shorter, and there is room for a new one.                         *)
Idle(u) == {v \in Users \ {u} : pc[v] \in {"out", "use"}}
Later(u) == {v \in Users : pc[v] = "use" /\ \E k \in i[u]..Len(connections) : q[v] = connections[k]}
Making == {u \in Users : pc[u] \in {"connect", "add"}}

Room(u) ==
    pc[u] = "scan" /\ q[u] = None /\ shut # "null" =>
        \/ Len(connections) <= Cardinality(Idle(u))
        \/ i[u] - 1 + Cardinality(Later(u)) <= Cardinality(Idle(u))

(* Who scans has the monitor. *)
Monitor == monitor \in Users \cup {None} /\ \A u \in Users : pc[u] = "scan" <=> monitor = u

(* The vector: no query twice, none cleared, and one that is not stopped   *)
(* is in the hands of a user.                                              *)
Vector ==
    /\ \A k, l \in 1..Len(connections) : connections[k] = connections[l] => k = l
    /\ \A k \in 1..Len(connections) : info[connections[k]] # "empty"
    /\ shut # "null" =>
          \A k \in 1..Len(connections) : info[connections[k]] # "stop" =>
              \E v \in Users : pc[v] \in {"use", "scan"} /\ q[v] = connections[k]

BInv == IInv /\ Monitor /\ Vector /\ PoolIsBounded /\ \A u \in Users : Room(u)

(* The sets of users are finite. *)
LEMMA Counted ==
    ASSUME NEW S, S \subseteq Users
    PROVE  IsFiniteSet(S) /\ Cardinality(S) \in Nat
  BY ZenonT(60), FS_Subset, FS_CardinalityType, PoolAssumption

(* A larger set of users has no fewer of them. *)
LEMMA Fewer ==
    ASSUME NEW S, NEW T, T \subseteq Users, S \subseteq T
    PROVE  Cardinality(S) <= Cardinality(T) /\ Cardinality(S) \in Nat /\ Cardinality(T) \in Nat
  BY ZenonT(60), Counted, FS_Subset

(* While a user scans, the others are making a connection or idle. *)
LEMMA WhileScanning ==
    ASSUME BInv, NEW u \in Users, pc[u] = "scan"
    PROVE  Cardinality(Users) = 1 + Cardinality(Making) + Cardinality(Idle(u))
  <1>1. Users = {u} \cup (Making \cup Idle(u)) /\ u \notin Making \cup Idle(u) /\ Making \cap Idle(u) = {}
    <2>1. \A v \in Users \ {u} : pc[v] \in {"out", "use", "connect", "add"}
      BY DEF BInv, IInv, Types, Monitor
    <2> QED BY ZenonT(60), <2>1 DEF Making, Idle
  <1>2. /\ IsFiniteSet(Making) /\ IsFiniteSet(Idle(u)) /\ Cardinality(Making) \in Nat
        /\ Cardinality(Idle(u)) \in Nat
    BY ZenonT(60), Counted DEF Making, Idle
  <1>3. /\ IsFiniteSet(Making \cup Idle(u))
        /\ Cardinality(Making \cup Idle(u)) = Cardinality(Making) + Cardinality(Idle(u)) - Cardinality(Making \cap Idle(u))
    BY ZenonT(60), <1>2, FS_Union
  <1>4. Cardinality(Making \cap Idle(u)) = 0
    BY ZenonT(60), <1>1, FS_EmptySet
  <1>5. Cardinality((Making \cup Idle(u)) \cup {u}) = Cardinality(Making \cup Idle(u)) + 1
    BY ZenonT(60), <1>1, <1>3, FS_AddElement
  <1>6. Users = (Making \cup Idle(u)) \cup {u}
    BY <1>1
  <1> QED BY SMTT(30), <1>2, <1>3, <1>4, <1>5, <1>6

(* The bound in terms of Making. *)
LEMMA BoundIs == PoolIsBounded <=> Len(connections) + Cardinality(Making) <= Cardinality(Users)
  BY DEF PoolIsBounded, Making

(* The same after a step. *)
LEMMA BoundNext == PoolIsBounded' <=> Len(connections') + Cardinality(Making') <= Cardinality(Users)
  BY DEF PoolIsBounded, Making

(* There stays room while others only give back, fail or go on. *)
LEMMA RoomStays ==
    ASSUME BInv, NEW u \in Users, Len(connections') = Len(connections), i'[u] = i[u], q'[u] = q[u],
           pc'[u] = "scan" => pc[u] = "scan", shut = "null" => shut' = "null",
           Idle(u) \subseteq Idle(u)', Later(u)' \subseteq Later(u)
    PROVE  Room(u)'
  <1>1. Cardinality(Idle(u)) <= Cardinality(Idle(u)') /\ Cardinality(Idle(u)) \in Nat /\ Cardinality(Idle(u)') \in Nat
    BY ZenonT(60), Fewer DEF Idle
  <1>2. Cardinality(Later(u)') <= Cardinality(Later(u)) /\ Cardinality(Later(u)) \in Nat /\ Cardinality(Later(u)') \in Nat
    BY ZenonT(60), Fewer DEF Later
  <1>3. Room(u) /\ Len(connections) \in Nat /\ i[u] \in Nat
    BY DEF BInv, IInv, Types
  <1>4. /\ Cardinality(Idle(u))' = Cardinality(Idle(u)') /\ Cardinality(Later(u))' = Cardinality(Later(u)')
    OBVIOUS
  <1> QED BY <1>1, <1>2, <1>3, <1>4 DEF Room

(* What the steps preserve besides IInv. *)
Bounded == Monitor /\ Vector /\ PoolIsBounded /\ \A u \in Users : Room(u)

(* A user without the monitor does not scan. *)
LEMMA NoScan ==
    ASSUME BInv, NEW u \in Users, monitor = None \/ (monitor \in Users /\ monitor # u)
    PROVE  pc[u] # "scan"
  BY PoolAssumption DEF BInv, Monitor

(* open() begins to scan: whoever has a query of the vector is idle. *)
LEMMA openBounds == ASSUME BInv, NEW u \in Users, open(u) PROVE Bounded'
  <1>1. pc[u] = "out" /\ monitor = None /\ UNCHANGED <<connections, shut, q, info>>
    BY DEF open, poolVars
  <1>2. CASE UNCHANGED <<monitor, pc, i>>
    <2>1. Monitor' /\ Vector' /\ PoolIsBounded'
      BY <1>1, <1>2 DEF BInv, Monitor, Vector, PoolIsBounded
    <2>2. \A v \in Users : pc'[v] # "scan"
      BY ZenonT(60), <1>1, <1>2, NoScan
    <2> QED BY ZenonT(60), <2>1, <2>2 DEF Bounded, Room
  <1>3. CASE monitor' = u /\ pc' = [pc EXCEPT ![u] = "scan"] /\ i' = [i EXCEPT ![u] = 1]
    <2>1. pc'[u] = "scan" /\ i'[u] = 1 /\ \A v \in Users \ {u} : pc'[v] = pc[v]
      BY ZenonT(60), <1>3 DEF BInv, IInv, Types
    <2>2. \A v \in Users \ {u} : pc'[v] # "scan"
      BY ZenonT(60), <1>1, <2>1, NoScan
    <2>3. Monitor'
      BY ZenonT(60), <1>3, <2>1, <2>2 DEF Monitor
    <2>4. Vector'
      <3>1. \A v \in Users : pc[v] \in {"use", "scan"} => pc'[v] \in {"use", "scan"}
        BY <2>1
      <3> QED BY ZenonT(60), <1>1, <3>1 DEF BInv, Vector
    <2>5. Making' = Making
      BY ZenonT(60), <1>1, <2>1 DEF Making
    <2>6. PoolIsBounded'
      BY ZenonT(60), <1>1, <2>5, BoundIs, BoundNext DEF BInv
    <2>7. Room(u)'
      <3>1. Later(u)' \subseteq Idle(u)' /\ Idle(u)' \subseteq Users
        BY ZenonT(60), <2>1 DEF Later, Idle
      <3>2. Cardinality(Later(u)') <= Cardinality(Idle(u)') /\ Cardinality(Later(u)') \in Nat /\ Cardinality(Idle(u)') \in Nat
        BY ZenonT(60), <3>1, Fewer
      <3>3. i'[u] - 1 + Cardinality(Later(u)') <= Cardinality(Idle(u)')
        BY <2>1, <3>2
      <3> QED BY ZenonT(60), <3>3 DEF Room
    <2> QED BY ZenonT(60), <2>2, <2>3, <2>4, <2>6, <2>7 DEF Bounded, Room
  <1> QED BY ZenonT(60), <1>2, <1>3 DEF open, to

(* A removed query makes room for a new one. *)
LEMMA discardBounds ==
    ASSUME BInv, NEW u \in Users, pc[u] = "scan", i[u] <= Len(connections), discard(i[u]),
           UNCHANGED <<shut, pc, q, monitor>>
    PROVE  Bounded'
  <1>1. PICK k \in 1..Len(connections) : k = i[u]
    BY ZenonT(60), Scanned DEF BInv
  <1>2. PICK n \in Queries : n = connections[k]
    BY ZenonT(60), <1>1, Scanned DEF BInv
  <1>3. /\ connections \in Seq(Queries) /\ Len(connections) \in Nat
        /\ connections' = RemoveAt(connections, k) /\ info' = [info EXCEPT ![n] = "empty"]
    BY SMTT(30), <1>1, <1>2 DEF discard, BInv, IInv, Types
  <1>4. /\ Len(connections') = Len(connections) - 1
        /\ \A j \in 1..Len(connections') : connections'[j] = connections[IF j < k THEN j ELSE j + 1]
    BY ZenonT(60), <1>3, Removed
  <1>5. \A j \in 1..Len(connections') : \E l \in 1..Len(connections) :
            l = (IF j < k THEN j ELSE j + 1) /\ l # k /\ connections'[j] = connections[l]
    BY SMTT(30), <1>3, <1>4
  <1>6. \A j \in 1..Len(connections') : connections'[j] # n
    BY SMTT(30), <1>2, <1>5 DEF BInv, Vector
  <1>7. Vector'
    <2>1. \A j, l \in 1..Len(connections') : connections'[j] = connections'[l] => j = l
      <3> SUFFICES ASSUME NEW j \in 1..Len(connections'), NEW l \in 1..Len(connections'),
                          connections'[j] = connections'[l]
                   PROVE  j = l
        OBVIOUS
      <3> DEFINE a == IF j < k THEN j ELSE j + 1
                 b == IF l < k THEN l ELSE l + 1
      <3>1. a \in 1..Len(connections) /\ b \in 1..Len(connections)
        BY <1>3, <1>4
      <3>2. connections[a] = connections[b]
        BY ZenonT(60), <1>4
      <3>3. a = b
        BY ZenonT(60), <3>1, <3>2 DEF BInv, Vector
      <3> QED BY SMTT(30), <1>3, <1>4, <3>3
    <2>2. \A m \in Queries \ {n} : info'[m] = info[m]
      BY ZenonT(60), <1>3 DEF BInv, IInv, Types
    <2>3. \A j \in 1..Len(connections') : connections'[j] \in Queries \ {n}
      BY SMTT(30), <1>3, <1>5, <1>6
    <2>4. \A j \in 1..Len(connections') : info'[connections'[j]] # "empty"
      BY SMTT(30), <1>5, <2>2, <2>3 DEF BInv, Vector
    <2>6. ASSUME shut # "null", NEW j \in 1..Len(connections'), info'[connections'[j]] # "stop"
          PROVE  \E v \in Users : pc[v] \in {"use", "scan"} /\ q[v] = connections'[j]
      <3>1. info[connections'[j]] # "stop"
        BY ZenonT(60), <2>2, <2>3, <2>6
      <3> QED BY SMTT(30), <1>5, <2>6, <3>1 DEF BInv, Vector
    <2> QED BY ZenonT(60), <2>1, <2>4, <2>6 DEF Vector
  <1>8. Cardinality(Making) \in Nat /\ Cardinality(Idle(u)) \in Nat /\ Cardinality(Users) \in Nat
    BY ZenonT(60), Counted DEF Making, Idle
  <1>9. Len(connections) + Cardinality(Making) <= Cardinality(Users)
    BY ZenonT(60), BoundIs DEF BInv
  <1>10. PoolIsBounded'
    <2>1. Making' = Making
      BY DEF Making
    <2> QED BY SMTT(30), <1>3, <1>4, <1>8, <1>9, <2>1, BoundNext
  <1>11. Room(u)'
    <2>1. Idle(u)' = Idle(u)
      BY DEF Idle
    <2>2. Len(connections') <= Cardinality(Idle(u))
      BY SMTT(30), <1>3, <1>4, <1>8, <1>9, WhileScanning
    <2> QED BY ZenonT(60), <2>1, <2>2 DEF Room
  <1>12. \A v \in Users \ {u} : Room(v)'
    BY ZenonT(60) DEF BInv, Monitor, Room
  <1> QED BY ZenonT(60), <1>7, <1>10, <1>11, <1>12 DEF Bounded, BInv, Monitor

(* A query is handed out: its user has it from now on. *)
LEMMA takeBounds ==
    ASSUME BInv, NEW u \in Users, pc[u] = "scan", i[u] <= Len(connections), take(u),
           UNCHANGED <<shut, pc, monitor>>
    PROVE  Bounded'
  <1>1. PICK k \in 1..Len(connections) : k = i[u]
    BY ZenonT(60), Scanned DEF BInv
  <1>2. PICK n \in Queries : n = connections[k] /\ n # None
    BY ZenonT(60), <1>1, Scanned, PoolAssumption DEF BInv
  <1>3. /\ info[n] = "stop" /\ q[u] = None /\ connections' = connections
        /\ info' = [info EXCEPT ![n] = "run"] /\ q' = [q EXCEPT ![u] = n]
    BY ZenonT(60), <1>1, <1>2 DEF take
  <1>4. q'[u] = n /\ \A v \in Users \ {u} : q'[v] = q[v]
    BY ZenonT(60), <1>3 DEF BInv, IInv, Types
  <1>5. info'[n] = "run" /\ \A m \in Queries \ {n} : info'[m] = info[m]
    BY ZenonT(60), <1>3 DEF BInv, IInv, Types
  <1>6. \A j \in 1..Len(connections) : connections[j] \in Queries
    BY DEF BInv, IInv, Types
  <1>7. Vector'
    <2>1. \A j \in 1..Len(connections) : info'[connections[j]] # "empty"
      BY SMTT(30), <1>5, <1>6 DEF BInv, Vector
    <2>3. ASSUME shut # "null", NEW j \in 1..Len(connections), info'[connections[j]] # "stop"
          PROVE  \E v \in Users : pc[v] \in {"use", "scan"} /\ q'[v] = connections[j]
      <3>1. CASE connections[j] = n
        BY ZenonT(60), <1>4, <3>1
      <3>2. CASE connections[j] # n
        <4>1. PICK v \in Users : pc[v] \in {"use", "scan"} /\ q[v] = connections[j]
          BY ZenonT(60), <1>5, <1>6, <2>3, <3>2 DEF BInv, Vector
        <4>2. v # u
          BY ZenonT(60), <1>3, <1>6, <4>1, PoolAssumption
        <4> QED BY ZenonT(60), <1>4, <4>1, <4>2
      <3> QED BY ZenonT(60), <3>1, <3>2
    <2> QED BY SMTT(30), <1>3, <2>1, <2>3 DEF BInv, Vector
  <1>8. PoolIsBounded'
    BY ZenonT(60), <1>3 DEF BInv, PoolIsBounded
  <1>9. \A v \in Users : Room(v)'
    BY ZenonT(60), <1>2, <1>4 DEF BInv, Monitor, Room
  <1> QED BY ZenonT(60), <1>7, <1>8, <1>9 DEF Bounded, BInv, Monitor

(* A query that is passed is in the hands of a user that is not counted yet. *)
LEMMA passBounds ==
    ASSUME BInv, NEW u \in Users, pc[u] = "scan", shut # "null", i[u] <= Len(connections), pass(u),
           UNCHANGED <<shut, pc, monitor>>
    PROVE  Bounded'
  <1>1. PICK k \in 1..Len(connections) : k = i[u]
    BY ZenonT(60), Scanned DEF BInv
  <1>2. UNCHANGED <<connections, info, q>> /\ i' = [i EXCEPT ![u] = @ + 1]
    BY DEF pass
  <1>3. i'[u] = k + 1 /\ k \in Nat /\ Len(connections) \in Nat
    BY SMTT(30), <1>1, <1>2 DEF BInv, IInv, Types
  <1>4. Monitor' /\ Vector' /\ PoolIsBounded'
    BY <1>2 DEF BInv, Monitor, Vector, PoolIsBounded
  <1>5. ASSUME q[u] = None PROVE Room(u)'
    <2>1. info[connections[k]] # "stop"
      BY ZenonT(60), <1>1, <1>5 DEF pass
    <2>2. PICK v \in Users : pc[v] \in {"use", "scan"} /\ q[v] = connections[k]
      BY ZenonT(60), <2>1 DEF BInv, Vector
    <2>3. connections[k] # None
      BY PoolAssumption DEF BInv, IInv, Types
    <2>4. pc[v] = "use"
      BY ZenonT(60), <1>5, <2>2, <2>3 DEF BInv, Monitor
    <2>5. v \in Later(u)
      BY SMTT(30), <1>1, <1>3, <2>2, <2>4 DEF Later
    <2>6. Later(u)' \subseteq Later(u) \ {v}
      <3> SUFFICES ASSUME NEW w \in Later(u)' PROVE w \in Later(u) /\ w # v
        BY ZenonT(60)
      <3>1. PICK l \in k+1..Len(connections) : w \in Users /\ pc[w] = "use" /\ q[w] = connections[l]
        BY ZenonT(60), <1>2, <1>3 DEF Later
      <3>2. l \in 1..Len(connections) /\ l \in k..Len(connections) /\ l # k
        BY SMTT(30), <1>3
      <3>3. connections[l] # connections[k]
        BY ZenonT(60), <3>2 DEF BInv, Vector
      <3> QED BY ZenonT(60), <1>1, <2>2, <3>1, <3>2, <3>3 DEF Later
    <2>7. /\ IsFiniteSet(Later(u)) /\ Cardinality(Later(u)) \in Nat
          /\ Cardinality(Later(u) \ {v}) = Cardinality(Later(u)) - 1
      <3>1. Later(u) \subseteq Users
        BY DEF Later
      <3>2. IsFiniteSet(Later(u)) /\ Cardinality(Later(u)) \in Nat
        BY ZenonT(60), <3>1, Counted
      <3> QED BY ZenonT(60), <2>5, <3>2, FS_RemoveElement
    <2>8. /\ Cardinality(Later(u)') <= Cardinality(Later(u) \ {v}) /\ Cardinality(Later(u)') \in Nat
          /\ Cardinality(Later(u) \ {v}) \in Nat
      <3>1. Later(u) \ {v} \subseteq Users
        BY DEF Later
      <3> QED BY ZenonT(60), <2>6, <3>1, Fewer
    <2>9. Idle(u)' = Idle(u) /\ Cardinality(Idle(u)) \in Nat
      BY ZenonT(60), Counted DEF Idle
    <2>10. \/ Len(connections) <= Cardinality(Idle(u))
           \/ k - 1 + Cardinality(Later(u)) <= Cardinality(Idle(u))
      BY ZenonT(60), <1>1, <1>5 DEF BInv, Room
    <2>11. \/ Len(connections) <= Cardinality(Idle(u))
           \/ i'[u] - 1 + Cardinality(Later(u)') <= Cardinality(Idle(u))
      BY SMTT(30), <1>3, <2>7, <2>8, <2>9, <2>10
    <2> QED BY ZenonT(60), <1>2, <2>9, <2>11 DEF Room
  <1>6. \A v \in Users : Room(v)'
    <2>1. \A v \in Users \ {u} : Room(v)'
      BY ZenonT(60) DEF BInv, Monitor, Room
    <2>2. q[u] # None => Room(u)'
      BY ZenonT(60), <1>2 DEF Room
    <2> QED BY ZenonT(60), <1>5, <2>1, <2>2
  <1> QED BY ZenonT(60), <1>4, <1>6 DEF Bounded

(* The scan ends: with a query, without one, or by the exception after close(). *)
LEMMA scanEndBounds ==
    ASSUME BInv, NEW u \in Users, pc[u] = "scan", monitor' = None, UNCHANGED <<connections, info, shut>>,
           \/ /\ shut # "null" /\ i[u] > Len(connections) /\ UNCHANGED q
              /\ to(u, IF q[u] = None THEN "connect" ELSE "use")
           \/ shut = "null" /\ to(u, "out") /\ q' = [q EXCEPT ![u] = None]
    PROVE  Bounded'
  <1>1. \A v \in Users \ {u} : pc'[v] = pc[v] /\ q'[v] = q[v] /\ pc[v] # "scan"
    BY DEF to, BInv, IInv, Types, Monitor
  <1>2. pc'[u] \in {"connect", "use", "out"}
    BY DEF to, BInv, IInv, Types
  <1>3. \A v \in Users : pc'[v] # "scan"
    BY ZenonT(60), <1>1, <1>2
  <1>4. Monitor'
    BY ZenonT(60), <1>3, PoolAssumption DEF Monitor
  <1>5. Vector'
    <2>2. ASSUME shut # "null", NEW k \in 1..Len(connections), info[connections[k]] # "stop"
          PROVE  \E v \in Users : pc'[v] \in {"use", "scan"} /\ q'[v] = connections[k]
      <3>1. PICK v \in Users : pc[v] \in {"use", "scan"} /\ q[v] = connections[k]
        BY ZenonT(60), <2>2 DEF BInv, Vector
      <3>2. connections[k] # None
        BY PoolAssumption DEF BInv, IInv, Types
      <3>3. CASE v = u
        <4>1. pc'[u] = "use" /\ q'[u] = q[u]
          BY ZenonT(60), <2>2, <3>1, <3>2, <3>3 DEF to, BInv, IInv, Types
        <4> QED BY ZenonT(60), <3>1, <3>3, <4>1
      <3>4. CASE v # u
        BY ZenonT(60), <1>1, <3>1, <3>4
      <3> QED BY ZenonT(60), <3>3, <3>4
    <2> QED BY SMTT(30), <2>2 DEF BInv, Vector
  <1>6. /\ Cardinality(Making) \in Nat /\ Cardinality(Users) \in Nat /\ Len(connections) \in Nat
        /\ Cardinality(Idle(u)) \in Nat /\ IsFiniteSet(Making)
    BY Counted DEF Making, Idle, BInv, IInv, Types
  <1>7. Len(connections) + Cardinality(Making) <= Cardinality(Users)
    BY ZenonT(60), BoundIs DEF BInv
  <1>8. CASE pc'[u] = "connect"
    <2>1. shut # "null" /\ q[u] = None /\ i[u] > Len(connections)
      BY ZenonT(60), <1>8 DEF to, BInv, IInv, Types
    <2>2. Len(connections) <= Cardinality(Idle(u))
      <3>1. Cardinality(Later(u)) \in Nat /\ i[u] \in Nat
        BY ZenonT(60), Counted DEF Later, BInv, IInv, Types
      <3> QED BY SMTT(30), <1>6, <2>1, <3>1 DEF BInv, Room
    <2>3. Making' = Making \cup {u} /\ u \notin Making
      BY ZenonT(60), <1>1, <1>8 DEF Making
    <2>4. Cardinality(Making') = Cardinality(Making) + 1
      BY ZenonT(60), <1>6, <2>3, FS_AddElement
    <2> QED BY SMTT(30), <1>3, <1>4, <1>5, <1>6, <2>2, <2>4, WhileScanning, BoundNext DEF Bounded, Room
  <1>9. CASE pc'[u] # "connect"
    <2>1. Making' = Making
      BY ZenonT(60), <1>1, <1>2, <1>9 DEF Making
    <2> QED BY ZenonT(60), <1>3, <1>4, <1>5, <1>7, <2>1, BoundNext DEF Bounded, Room
  <1> QED BY ZenonT(60), <1>8, <1>9

(* Every step of the scan. *)
LEMMA scanBounds == ASSUME BInv, NEW u \in Users, scan(u) PROVE Bounded'
  <1>1. pc[u] = "scan" /\ UNCHANGED shut
    BY DEF scan
  <1>2. CASE /\ shut # "null" /\ i[u] <= Len(connections)
             /\ drop_closed(u) \/ drop_old(u) \/ pass(u) \/ (connections[i[u]] \in alive /\ take(u))
             /\ UNCHANGED <<monitor, pc>>
    <2>1. CASE drop_closed(u)
      BY ZenonT(60), <1>1, <1>2, <2>1, discardBounds DEF drop_closed
    <2>2. CASE drop_old(u)
      BY ZenonT(60), <1>1, <1>2, <2>2, discardBounds DEF drop_old
    <2>3. CASE pass(u)
      BY ZenonT(60), <1>1, <1>2, <2>3, passBounds
    <2>4. CASE take(u)
      BY ZenonT(60), <1>1, <1>2, <2>4, takeBounds
    <2> QED BY ZenonT(60), <1>2, <2>1, <2>2, <2>3, <2>4
  <1>3. CASE /\ shut # "null" /\ i[u] > Len(connections)
             /\ monitor' = None /\ i' = [i EXCEPT ![u] = 1]
             /\ to(u, IF q[u] = None THEN "connect" ELSE "use")
             /\ UNCHANGED <<connections, alive, info, q>>
    BY ZenonT(60), <1>1, <1>3, scanEndBounds
  <1>4. CASE /\ shut = "null"
             /\ monitor' = None /\ i' = [i EXCEPT ![u] = 1]
             /\ to(u, "out") /\ q' = [q EXCEPT ![u] = None]
             /\ UNCHANGED <<connections, alive, info>>
    BY ZenonT(60), <1>1, <1>4, scanEndBounds
  <1> QED BY ZenonT(60), <1>2, <1>3, <1>4 DEF scan

(* A user outside the scan moves, and the vector stays as it is: others     *)
(* that scan have as much room as before.                                   *)
LEMMA AsideBounds ==
    ASSUME BInv, NEW u \in Users, pc[u] # "scan", pc'[u] # "scan", pc'[u] = "use" => pc[u] = "use" /\ q'[u] = q[u],
           pc[u] = "use" => pc'[u] \in {"use", "out"}, UNCHANGED <<connections, shut, monitor, i>>,
           \A v \in Users \ {u} : pc'[v] = pc[v] /\ q'[v] = q[v],
           pc'[u] \in {"connect", "add"} => pc[u] \in {"connect", "add"}, pc[u] = "out" => pc'[u] = "out"
    PROVE  Monitor' /\ PoolIsBounded' /\ \A v \in Users : Room(v)'
  <1>1. Monitor'
    BY ZenonT(60) DEF BInv, Monitor
  <1>2. PoolIsBounded'
    <2>1. Making' \subseteq Making /\ Making \subseteq Users
      BY ZenonT(60) DEF Making
    <2>2. Cardinality(Making') <= Cardinality(Making) /\ Cardinality(Making') \in Nat /\ Cardinality(Making) \in Nat
      BY ZenonT(60), <2>1, Fewer
    <2>3. Len(connections) \in Nat /\ Cardinality(Users) \in Nat
      BY SMTT(30), Counted DEF BInv, IInv, Types
    <2> QED BY <2>2, <2>3, BoundIs, BoundNext DEF BInv
  <1>3. ASSUME NEW v \in Users \ {u} PROVE Room(v)'
    <2>1. Idle(v) \subseteq Idle(v)'
      BY ZenonT(60), <1>3 DEF Idle
    <2>2. Later(v)' \subseteq Later(v)
      BY <1>3 DEF Later
    <2> QED BY ZenonT(60), <1>3, <2>1, <2>2, RoomStays
  <1>4. Room(u)'
    BY DEF Room
  <1> QED BY ZenonT(60), <1>1, <1>2, <1>3, <1>4

(* A connection that is made is new: it is in no element of the vector. *)
LEMMA connectBounds == ASSUME BInv, NEW u \in Users, connect(u) PROVE Bounded'
  <1>1. /\ pc[u] = "connect" /\ UNCHANGED <<connections, shut, monitor, i>>
        /\ \/ \E n \in Queries \ created :
                 \/ to(u, "add") /\ q' = [q EXCEPT ![u] = n] /\ info' = [info EXCEPT ![n] = "run"]
                 \/ to(u, "out") /\ UNCHANGED <<q, info>>
           \/ to(u, "out") /\ UNCHANGED <<info, q>>
    BY ZenonT(60) DEF connect, poolVars
  <1>2. pc'[u] \in {"add", "out"} /\ \A v \in Users \ {u} : pc'[v] = pc[v] /\ q'[v] = q[v]
    BY ZenonT(60), <1>1 DEF to, BInv, IInv, Types
  <1>3. Monitor' /\ PoolIsBounded' /\ \A v \in Users : Room(v)'
    BY ZenonT(60), <1>1, <1>2, AsideBounds
  <1>4. CASE pc'[u] = "out"
    <2>1. UNCHANGED <<q, info>>
      BY ZenonT(60), <1>1, <1>4 DEF to, BInv, IInv, Types
    <2>2. \A v \in Users : pc[v] \in {"use", "scan"} => pc'[v] \in {"use", "scan"}
      BY ZenonT(60), <1>1, <1>2, <1>4
    <2>3. Vector'
      BY SMTT(30), <1>1, <2>1, <2>2 DEF BInv, Vector
    <2> QED BY ZenonT(60), <1>3, <2>3 DEF Bounded
  <1>5. CASE pc'[u] = "add"
    <2>1. PICK n \in Queries \ created : q' = [q EXCEPT ![u] = n] /\ info' = [info EXCEPT ![n] = "run"]
      BY ZenonT(60), <1>1, <1>5 DEF to, BInv, IInv, Types
    <2>2. q'[u] = n /\ info'[n] = "run" /\ \A m \in Queries \ {n} : info'[m] = info[m]
      BY ZenonT(60), <2>1 DEF BInv, IInv, Types
    <2>3. \A k \in 1..Len(connections) : connections[k] \in Queries \ {n}
      BY ZenonT(60), <2>1 DEF BInv, IInv, Types, InUse
    <2>5. \A v \in Users : pc[v] \in {"use", "scan"} => pc'[v] \in {"use", "scan"} /\ q'[v] = q[v]
      BY ZenonT(60), <1>1, <1>2
    <2>6. \A k \in 1..Len(connections) : info'[connections[k]] = info[connections[k]]
      BY ZenonT(60), <2>2, <2>3
    <2>7. Vector'
      BY SMTT(30), <1>1, <2>5, <2>6 DEF BInv, Vector
    <2> QED BY ZenonT(60), <1>3, <2>7 DEF Bounded
  <1> QED BY ZenonT(60), <1>2, <1>4, <1>5

(* addElement puts into the vector what its user was counted for. *)
LEMMA addElementBounds == ASSUME BInv, NEW u \in Users, addElement(u) PROVE Bounded'
  <1>1. pc[u] = "add" /\ monitor = None /\ UNCHANGED <<shut, monitor, i, info>>
    BY DEF addElement
  <1>2. \A v \in Users : pc[v] # "scan"
    BY ZenonT(60), <1>1, NoScan
  <1>3. CASE shut # "null" /\ connections' = Append(connections, q[u]) /\ to(u, "use") /\ UNCHANGED q
    <2>1. pc'[u] = "use" /\ \A v \in Users \ {u} : pc'[v] = pc[v]
      BY ZenonT(60), <1>3 DEF to, BInv, IInv, Types
    <2>2. q[u] \in Queries /\ q[u] # None /\ connections \in Seq(Queries) /\ Len(connections) \in Nat
      BY SMTT(30), <1>1, PoolAssumption DEF BInv, IInv, Types, InUse
    <2>3. /\ Len(connections') = Len(connections) + 1 /\ connections'[Len(connections) + 1] = q[u]
          /\ \A k \in 1..Len(connections) : connections'[k] = connections[k]
      BY SMTT(30), <1>3, <2>2, AppendProperties
    <2>4. \A k \in 1..Len(connections') : k = Len(connections) + 1 \/ k \in 1..Len(connections)
      BY SMTT(30), <2>2, <2>3
    <2>5. info[q[u]] = "run" /\ \A k \in 1..Len(connections) : connections[k] # q[u]
      BY ZenonT(60), <1>1 DEF BInv, IInv, Fresh
    <2>6. \A k, l \in 1..Len(connections') : connections'[k] = connections'[l] => k = l
      BY SMTT(30), <2>3, <2>4, <2>5 DEF BInv, Vector
    <2>7. \A k \in 1..Len(connections') : info[connections'[k]] # "empty"
      BY SMTT(30), <2>3, <2>4, <2>5 DEF BInv, Vector
    <2>9. ASSUME NEW k \in 1..Len(connections'), info[connections'[k]] # "stop"
          PROVE  \E v \in Users : pc'[v] \in {"use", "scan"} /\ q[v] = connections'[k]
      <3>1. CASE k = Len(connections) + 1
        BY ZenonT(60), <2>1, <2>3, <3>1
      <3>2. CASE k \in 1..Len(connections)
        <4>1. PICK v \in Users : pc[v] \in {"use", "scan"} /\ q[v] = connections[k]
          BY ZenonT(60), <1>3, <2>3, <2>9, <3>2 DEF BInv, Vector
        <4> QED BY ZenonT(60), <1>1, <2>1, <2>3, <3>2, <4>1
      <3> QED BY ZenonT(60), <2>4, <3>1, <3>2
    <2>10. Vector'
      BY ZenonT(60), <1>1, <1>3, <2>6, <2>7, <2>9 DEF Vector
    <2>11. Making' = Making \ {u} /\ u \in Making /\ IsFiniteSet(Making) /\ Cardinality(Making) \in Nat
      BY ZenonT(60), <1>1, <2>1, Counted DEF Making
    <2>12. Cardinality(Making') = Cardinality(Making) - 1
      BY ZenonT(60), <2>11, FS_RemoveElement
    <2>13. PoolIsBounded'
      <3>1. Cardinality(Users) \in Nat /\ Len(connections) + Cardinality(Making) <= Cardinality(Users)
        BY ZenonT(60), BoundIs, Counted DEF BInv
      <3> QED BY SMTT(30), <2>2, <2>3, <2>11, <2>12, <3>1, BoundNext
    <2>14. \A v \in Users : pc'[v] # "scan"
      BY ZenonT(60), <1>2, <2>1
    <2>15. Monitor'
      BY ZenonT(60), <1>1, <2>14, PoolAssumption DEF Monitor
    <2> QED BY ZenonT(60), <2>10, <2>13, <2>14, <2>15 DEF Bounded, Room
  <1>4. CASE shut = "null" /\ to(u, "out") /\ q' = [q EXCEPT ![u] = None] /\ UNCHANGED connections
    <2>1. pc'[u] = "out" /\ \A v \in Users \ {u} : pc'[v] = pc[v] /\ q'[v] = q[v]
      BY ZenonT(60), <1>4 DEF to, BInv, IInv, Types
    <2>2. Monitor' /\ PoolIsBounded' /\ \A v \in Users : Room(v)'
      BY ZenonT(60), <1>1, <1>4, <2>1, AsideBounds
    <2>3. Vector'
      BY ZenonT(60), <1>1, <1>4 DEF BInv, Vector
    <2> QED BY ZenonT(60), <2>2, <2>3 DEF Bounded
  <1> QED BY ZenonT(60), <1>3, <1>4 DEF addElement

(* close(q) stops a query: its user had it, and has it no more. *)
LEMMA close_qBounds == ASSUME BInv, NEW u \in Users, close_q(u) PROVE Bounded'
  <1>1. /\ pc[u] = "use" /\ UNCHANGED <<connections, shut, monitor, i>> /\ q' = [q EXCEPT ![u] = None]
        /\ to(u, "out") /\ info' = [info EXCEPT ![q[u]] = IF @ = "empty" THEN @ ELSE "stop"]
    BY ZenonT(60) DEF close_q, stop, poolVars
  <1>2. pc'[u] = "out" /\ \A v \in Users \ {u} : pc'[v] = pc[v] /\ q'[v] = q[v]
    BY ZenonT(60), <1>1 DEF to, BInv, IInv, Types
  <1>3. Monitor' /\ PoolIsBounded' /\ \A v \in Users : Room(v)'
    BY ZenonT(60), <1>1, <1>2, AsideBounds
  <1>4. q[u] \in Queries /\ q[u] # None
    BY ZenonT(60), <1>1 DEF BInv, IInv, Types, InUse
  <1>5. /\ info'[q[u]] = (IF info[q[u]] = "empty" THEN "empty" ELSE "stop")
        /\ \A m \in Queries \ {q[u]} : info'[m] = info[m]
    BY ZenonT(60), <1>1, <1>4 DEF BInv, IInv, Types
  <1>6. \A k \in 1..Len(connections) : connections[k] \in Queries
    BY DEF BInv, IInv, Types
  <1>7. \A k \in 1..Len(connections) : info'[connections[k]] # "empty"
    BY SMTT(30), <1>5, <1>6 DEF BInv, Vector
  <1>9. ASSUME shut # "null", NEW k \in 1..Len(connections), info'[connections[k]] # "stop"
        PROVE  \E v \in Users : pc'[v] \in {"use", "scan"} /\ q'[v] = connections[k]
    <2>1. connections[k] # q[u]
      BY ZenonT(60), <1>5, <1>7, <1>9
    <2>2. info[connections[k]] # "stop"
      BY ZenonT(60), <1>5, <1>6, <1>9, <2>1
    <2>3. PICK v \in Users : pc[v] \in {"use", "scan"} /\ q[v] = connections[k]
      BY ZenonT(60), <1>9, <2>2 DEF BInv, Vector
    <2> QED BY ZenonT(60), <1>2, <2>1, <2>3
  <1>10. Vector'
    BY SMTT(30), <1>1, <1>7, <1>9 DEF BInv, Vector
  <1> QED BY <1>3, <1>10 DEF Bounded

(* close(q) by a former user stops a query, which stays where it is. *)
LEMMA close_againBounds == ASSUME BInv, NEW u \in Users, close_again(u) PROVE Bounded'
  <1>1. UNCHANGED <<connections, shut, monitor, pc, i, q>>
    BY DEF close_again, poolVars
  <1>2. PICK n \in Queries : n = old[u]
    BY ZenonT(60) DEF close_again, BInv, IInv, Types
  <1>3. info' = [info EXCEPT ![n] = IF @ = "empty" THEN @ ELSE "stop"]
    BY ZenonT(60), <1>2 DEF close_again, stop
  <1>4. \A m \in Queries : info'[m] = info[m] \/ (info[m] # "empty" /\ info'[m] = "stop")
    BY ZenonT(60), <1>3 DEF BInv, IInv, Types
  <1>5. \A k \in 1..Len(connections) : connections[k] \in Queries
    BY DEF BInv, IInv, Types
  <1>6. \A k \in 1..Len(connections) : info'[connections[k]] # "empty"
    BY ZenonT(60), <1>4, <1>5 DEF BInv, Vector
  <1>7. \A k \in 1..Len(connections) : info'[connections[k]] # "stop" => info[connections[k]] # "stop"
    BY ZenonT(60), <1>4, <1>5
  <1>8. Vector'
    BY ZenonT(60), <1>1, <1>6, <1>7 DEF BInv, Vector
  <1>9. Monitor' /\ PoolIsBounded'
    BY ZenonT(60), <1>1 DEF BInv, Monitor, PoolIsBounded
  <1>10. ASSUME NEW v \in Users PROVE Room(v)'
    <2>1. Idle(v)' = Idle(v) /\ Later(v)' = Later(v)
      BY ZenonT(60), <1>1 DEF Idle, Later
    <2> QED BY ZenonT(60), <1>1, <2>1, RoomStays
  <1> QED BY ZenonT(60), <1>8, <1>9, <1>10 DEF Bounded

(* Steps that close connections touch neither the vector nor a user. *)
LEMMA OthersBound ==
    ASSUME BInv, UNCHANGED <<connections, monitor, pc, i, q, info>>, shut = "null" => shut' = "null"
    PROVE  Bounded'
  <1>1. Monitor' /\ Vector' /\ PoolIsBounded'
    BY SMTT(30) DEF BInv, Monitor, Vector, PoolIsBounded
  <1>2. ASSUME NEW u \in Users PROVE Room(u)'
    <2>1. Idle(u)' = Idle(u) /\ Later(u)' = Later(u)
      BY DEF Idle, Later
    <2> QED BY ZenonT(60), <2>1, RoomStays
  <1> QED BY ZenonT(60), <1>1, <1>2 DEF Bounded

(* Every step keeps the bound. *)
LEMMA NextBounds == ASSUME BInv, [Next]_vars PROVE BInv'
  <1>1. IInv'
    BY ZenonT(60), NextKeeps DEF BInv
  <1>2. ASSUME NEW u \in Users, open(u) \/ scan(u) \/ connect(u) \/ addElement(u) \/ close_q(u) \/ close_again(u)
        PROVE  Bounded'
    BY ZenonT(60), <1>2, openBounds, scanBounds, connectBounds, addElementBounds, close_qBounds, close_againBounds
  <1>3. ASSUME close PROVE Bounded'
    BY ZenonT(60), <1>3, OthersBound DEF close
  <1>4. ASSUME close_null PROVE Bounded'
    BY ZenonT(60), <1>4, OthersBound DEF close_null
  <1>5. ASSUME NEW n \in Queries, db_drop(n) PROVE Bounded'
    BY ZenonT(60), <1>5, OthersBound DEF db_drop, poolVars
  <1>6. ASSUME UNCHANGED vars PROVE Bounded'
    BY ZenonT(60), <1>6, OthersBound DEF vars, poolVars
  <1>7. Bounded'
    BY ZenonT(60), <1>2, <1>3, <1>4, <1>5, <1>6 DEF Next
  <1> QED BY ZenonT(60), <1>1, <1>7 DEF BInv, Bounded

(* The pool begins empty, and every user is out. *)
LEMMA InitBounds == Init => BInv
  <1> SUFFICES ASSUME Init PROVE BInv
    OBVIOUS
  <1>1. IInv
    BY ZenonT(60), InitHolds
  <1>2. connections = << >> /\ Len(connections) = 0 /\ monitor = None /\ \A u \in Users : pc[u] = "out"
    BY ZenonT(60) DEF Init
  <1>3. Monitor /\ Vector
    BY <1>2, PoolAssumption DEF Monitor, Vector
  <1>4. Making = {}
    BY ZenonT(60), <1>2 DEF Making
  <1>5. PoolIsBounded
    <2>1. Cardinality(Making) = 0
      BY ZenonT(60), <1>4, FS_EmptySet
    <2>2. Cardinality(Users) \in Nat
      BY ZenonT(60), Counted
    <2> QED BY SMTT(30), <1>2, <2>1, <2>2, BoundIs
  <1>6. \A u \in Users : Room(u)
    BY <1>2 DEF Room
  <1> QED BY ZenonT(60), <1>1, <1>3, <1>5, <1>6 DEF BInv

(* The vector and the connections being made are never more than there are *)
(* users, for any number of users and however often connections close.     *)
THEOREM PoolBound == Spec => []PoolIsBounded
  <1>1. Init => BInv
    BY ZenonT(60), InitBounds
  <1>2. BInv /\ [Next]_vars => BInv'
    BY NextBounds
  <1>3. BInv => PoolIsBounded
    BY DEF BInv
  <1> QED BY <1>1, <1>2, <1>3, PTL DEF Spec
=============================================================================
