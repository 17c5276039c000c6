---------------------------- MODULE StatListProofs ----------------------------
(***************************************************************************)
(* Lemmas about the list of statistics of NullProxy: each of its           *)
(* operations keeps the list well formed and the other handlers' entries.  *)
(***************************************************************************)
EXTENDS NullProxy, WellFoundedInduction, TLAPS

-----------------------------------------------------------------------------
(***************************************************************************)
(* A list that is well formed.                                             *)
(***************************************************************************)
Ref(n) == 1 .. n \cup {Null}

Stats == [id : (Conns \X Sides) \cup {Null}, empty : BOOLEAN, front : BOOLEAN,
          in : Nat, out : Nat, nb : Nat \cup {Null}]

Listed(ls, o) == \E i \in 1 .. Len(ls.list) : ls.list[i] = o

ListType(ls) ==
    /\ ls \in [stat : [Conns -> [Sides -> Nat \cup {Null}]], heap : Seq(Stats), list : Seq(Nat)]
    /\ \A c \in Conns, s \in Sides : ls.stat[c][s] \in Ref(Len(ls.heap))
    /\ \A o \in 1 .. Len(ls.heap) : ls.heap[o].nb \in Ref(Len(ls.heap))
    /\ \A i \in 1 .. Len(ls.list) : ls.list[i] \in 1 .. Len(ls.heap)

(* Every slot has an object of its own. *)
OwnSlots(ls) == \A i, j \in 1 .. Len(ls.list) : ls.list[i] = ls.list[j] => i = j

(* An object in use is in a slot and is the one its handler refers to. *)
UsedListed(ls) ==
    \A o \in 1 .. Len(ls.heap) : ~ls.heap[o].empty =>
        /\ Listed(ls, o)
        /\ \E c \in Conns, s \in Sides : ls.heap[o].id = <<c, s>> /\ ls.stat[c][s] = o

(* An object in a slot that is not in use is new. *)
FreeIsNew(ls) ==
    \A o \in 1 .. Len(ls.heap) : Listed(ls, o) /\ ls.heap[o].empty => ls.heap[o] = newStat

(* An object that a handler refers to is its own or is in no slot; its     *)
(* neighbour is that of the other handler or is in no slot.                *)
OwnStat(ls) ==
    \A c \in Conns, s \in Sides : ls.stat[c][s] # Null =>
        /\ Listed(ls, ls.stat[c][s]) =>
              ~ls.heap[ls.stat[c][s]].empty /\ ls.heap[ls.stat[c][s]].id = <<c, s>>
        /\ Listed(ls, ls.heap[ls.stat[c][s]].nb) =>
              ls.heap[ls.stat[c][s]].nb = ls.stat[c][Opp(s)]

WF(ls) == ListType(ls) /\ OwnSlots(ls) /\ UsedListed(ls) /\ FreeIsNew(ls) /\ OwnStat(ls)

(* The handler of c at s is in the list. *)
Reg(ls, c, s) == ls.stat[c][s] # Null /\ ~ls.heap[ls.stat[c][s]].empty

Entry(c, s, in, out, nb) ==
    [id |-> <<c, s>>, empty |-> FALSE, front |-> s = "front", in |-> in, out |-> out, nb |-> nb]

(* A connection has two sides. *)
LEMMA Opposite ==
    ASSUME NEW s \in Sides
    PROVE  /\ Opp(s) \in Sides /\ Opp(s) # s /\ Opp(Opp(s)) = s
           /\ \A t \in Sides : t = s \/ t = Opp(s)
           /\ s = "front" => Opp(s) = "back"
           /\ s = "back" => Opp(s) = "front"
  BY DEF Sides, Opp

-----------------------------------------------------------------------------
(***************************************************************************)
(* The list of statistics.                                                 *)
(***************************************************************************)

(* A set of slots that is not empty has a first one. *)
LEMMA First == ASSUME NEW S \in SUBSET Nat, S # {} PROVE FirstOf(S) \in S
<1>1. PICK x \in S : \A y \in S : ~(<<y, x>> \in OpToRel(<, Nat))
  BY ZenonT(60), NatLessThanWellFounded, WFMin
<1>2. ASSUME NEW y \in S PROVE x <= y
  <2>1. ~(y < x)
    BY ZenonT(60), <1>1 DEF OpToRel
  <2> QED
    BY <2>1
<1> QED
  BY ZenonT(60), <1>2 DEF FirstOf

(* No slot is null. *)
LEMMA NullUnlisted == ASSUME NEW ls, ListType(ls) PROVE ~Listed(ls, Null)
  BY NullAssumption DEF ListType, Listed

(* What clearSlot changes. *)
LEMMA ClearPoints ==
    ASSUME NEW ls, ListType(ls), NEW i \in 1 .. Len(ls.list), NEW r, r = clearSlot(ls, i)
    PROVE  /\ r \in [stat : [Conns -> [Sides -> Nat \cup {Null}]], heap : Seq(Stats), list : Seq(Nat)]
           /\ r.stat = ls.stat
           /\ Len(r.heap) = Len(ls.heap) + 1
           /\ \A x \in 1 .. Len(ls.heap) :
                 r.heap[x] = IF x = ls.list[i] THEN newStat ELSE ls.heap[x]
           /\ r.heap[Len(ls.heap) + 1] = newStat
           /\ Len(r.list) = Len(ls.list)
           /\ \A j \in 1 .. Len(ls.list) :
                 r.list[j] = IF j = i THEN Len(ls.heap) + 1 ELSE ls.list[j]
<1> DEFINE h == [ls.heap EXCEPT ![ls.list[i]] = newStat]
           l == [ls.list EXCEPT ![i] = Len(ls.heap) + 1]
<1>0. /\ ls.stat \in [Conns -> [Sides -> Nat \cup {Null}]] /\ ls.heap \in Seq(Stats)
      /\ ls.list \in Seq(Nat) /\ ls.list[i] \in 1 .. Len(ls.heap)
  BY DEF ListType
<1>1. newStat \in Stats
  BY DEF newStat, Stats
<1>2. /\ h \in Seq(Stats) /\ Len(h) = Len(ls.heap)
      /\ \A x \in 1 .. Len(ls.heap) : h[x] = IF x = ls.list[i] THEN newStat ELSE ls.heap[x]
  BY <1>0, <1>1
<1>3. /\ l \in Seq(Nat) /\ Len(l) = Len(ls.list)
      /\ \A j \in 1 .. Len(ls.list) : l[j] = IF j = i THEN Len(ls.heap) + 1 ELSE ls.list[j]
  BY <1>0
<1>4. r = [stat |-> ls.stat, heap |-> Append(h, newStat), list |-> l]
  BY ZenonT(60) DEF clearSlot, ListType
<1> HIDE DEF h, l
<1>5. /\ Append(h, newStat) \in Seq(Stats) /\ Len(Append(h, newStat)) = Len(h) + 1
      /\ \A x \in 1 .. Len(h) : Append(h, newStat)[x] = h[x]
      /\ Append(h, newStat)[Len(h) + 1] = newStat
  BY <1>1, <1>2
<1>6. r.stat = ls.stat /\ r.heap = Append(h, newStat) /\ r.list = l
  BY <1>4
<1>7. r \in [stat : [Conns -> [Sides -> Nat \cup {Null}]], heap : Seq(Stats), list : Seq(Nat)]
  BY <1>0, <1>3, <1>4, <1>5
<1> QED
  BY ZenonT(60), <1>2, <1>3, <1>5, <1>6, <1>7

(* A slot may be cleared at any time. *)
LEMMA ClearKeeps ==
    ASSUME NEW ls, WF(ls), NEW i \in 1 .. Len(ls.list), NEW r, r = clearSlot(ls, i)
    PROVE  WF(r)
<1>t. ListType(ls)
  BY DEF WF
<1> DEFINE n == Len(ls.heap)
           k == Len(ls.list)
           o == ls.list[i]
<1>r. r \in [stat : [Conns -> [Sides -> Nat \cup {Null}]], heap : Seq(Stats), list : Seq(Nat)]
  BY <1>t, ClearPoints
<1>p. /\ r.stat = ls.stat
      /\ Len(r.heap) = n + 1
      /\ \A x \in 1 .. n : x # o => r.heap[x] = ls.heap[x]
      /\ r.heap[o] = newStat
      /\ r.heap[n + 1] = newStat
  <2>1. o \in 1 .. Len(ls.heap)
    BY <1>t DEF ListType
  <2> QED
    BY SMTT(30), <1>t, <2>1, ClearPoints
<1>q. /\ Len(r.list) = k
      /\ \A j \in 1 .. k : j # i => r.list[j] = ls.list[j]
      /\ r.list[i] = n + 1
  BY <1>t, ClearPoints
<1>n. n \in Nat /\ k \in Nat /\ n = Len(ls.heap) /\ k = Len(ls.list) /\ o = ls.list[i] /\ i \in 1 .. k
  BY <1>t DEF ListType
<1>l. /\ \A j \in 1 .. k : ls.list[j] \in 1 .. n
      /\ \A x \in 1 .. n : ls.heap[x].nb \in Ref(n)
      /\ \A c \in Conns, s \in Sides : ls.stat[c][s] \in Ref(n)
  BY <1>t DEF ListType
<1> HIDE DEF n, k, o
<1>o. o \in 1 .. n
  BY <1>n, <1>l
<1>1. ListType(r)
  <2>1. \A c \in Conns, s \in Sides : r.stat[c][s] \in Ref(n + 1)
    BY <1>p, <1>n, <1>l DEF Ref
  <2>2. \A x \in 1 .. n + 1 : r.heap[x].nb \in Ref(n + 1)
    <3> SUFFICES ASSUME NEW x \in 1 .. n + 1 PROVE r.heap[x].nb \in Ref(n + 1)
      OBVIOUS
    <3>1. newStat.nb = Null
      BY DEF newStat
    <3>2. r.heap[x] = newStat \/ (x \in 1 .. n /\ r.heap[x] = ls.heap[x])
      BY <1>p, <1>n
    <3> QED
      BY <3>1, <3>2, <1>n, <1>l DEF Ref
  <2>3. \A j \in 1 .. k : r.list[j] \in 1 .. n + 1
    <3> SUFFICES ASSUME NEW j \in 1 .. k PROVE r.list[j] \in 1 .. n + 1
      OBVIOUS
    <3>1. r.list[j] = n + 1 \/ r.list[j] = ls.list[j]
      BY <1>q
    <3>2. ls.list[j] \in 1 .. n
      BY <1>l
    <3> QED
      BY <3>1, <3>2, <1>n
  <2>4. Len(r.heap) = n + 1 /\ Len(r.list) = k
    BY <1>p, <1>q
  <2> QED
    BY ZenonT(60), <1>r, <2>1, <2>2, <2>3, <2>4 DEF ListType
<1>own. \A j \in 1 .. k : ls.list[j] = o => j = i
  BY <1>n DEF WF, OwnSlots
<1>2. OwnSlots(r)
  <2>1. \A j, m \in 1 .. k : ls.list[j] = ls.list[m] => j = m
    BY <1>n DEF WF, OwnSlots
  <2>2. \A j \in 1 .. k : r.list[j] = n + 1 => j = i
    BY SMTT(30), <1>q, <1>n, <1>l
  <2> SUFFICES ASSUME NEW j \in 1 .. k, NEW m \in 1 .. k, r.list[j] = r.list[m] PROVE j = m
    BY <1>q DEF OwnSlots
  <2> QED
    BY <1>q, <2>1, <2>2
<1>e. /\ \A x \in 1 .. n : Listed(r, x) <=> x # o /\ Listed(ls, x)
      /\ ~Listed(r, Null)
  <2>1. ~Listed(r, Null)
    BY <1>1, NullUnlisted
  <2> SUFFICES ASSUME NEW x \in 1 .. n PROVE Listed(r, x) <=> x # o /\ Listed(ls, x)
    BY <2>1
  <2>2. Listed(r, x) => x # o /\ Listed(ls, x)
    BY <1>q, <1>n, <1>own DEF Listed
  <2>3. x # o /\ Listed(ls, x) => Listed(r, x)
    BY <1>q, <1>n DEF Listed
  <2> QED
    BY <2>2, <2>3
<1>new. newStat.empty /\ newStat.nb = Null
  BY DEF newStat
<1>3. UsedListed(r)
  <2> SUFFICES ASSUME NEW x \in 1 .. n + 1, ~r.heap[x].empty
               PROVE  /\ Listed(r, x)
                      /\ \E c \in Conns, s \in Sides : r.heap[x].id = <<c, s>> /\ r.stat[c][s] = x
    BY <1>p DEF UsedListed
  <2>1. x \in 1 .. n /\ x # o /\ r.heap[x] = ls.heap[x]
    BY SMTT(30), <1>p, <1>n, <1>new
  <2> QED
    BY SMTT(30), <2>1, <1>e, <1>p, <1>n DEF WF, UsedListed
<1>4. FreeIsNew(r)
  <2> SUFFICES ASSUME NEW x \in 1 .. n + 1, Listed(r, x), r.heap[x].empty
               PROVE  r.heap[x] = newStat
    BY <1>p DEF FreeIsNew
  <2>1. CASE x = n + 1
    BY <2>1, <1>p
  <2>2. CASE x \in 1 .. n
    BY SMTT(30), <2>2, <1>e, <1>p, <1>n DEF WF, FreeIsNew
  <2> QED
    BY <2>1, <2>2, <1>n
<1>5. OwnStat(r)
  <2> SUFFICES ASSUME NEW c \in Conns, NEW s \in Sides, ls.stat[c][s] # Null
               PROVE  /\ Listed(r, ls.stat[c][s]) =>
                            ~r.heap[ls.stat[c][s]].empty /\ r.heap[ls.stat[c][s]].id = <<c, s>>
                      /\ Listed(r, r.heap[ls.stat[c][s]].nb) =>
                            r.heap[ls.stat[c][s]].nb = ls.stat[c][Opp(s)]
    BY ZenonT(60), <1>p DEF OwnStat
  <2>1. ls.stat[c][s] \in 1 .. n
    BY <1>l DEF Ref
  <2>2. /\ Listed(ls, ls.stat[c][s]) =>
              ~ls.heap[ls.stat[c][s]].empty /\ ls.heap[ls.stat[c][s]].id = <<c, s>>
        /\ Listed(ls, ls.heap[ls.stat[c][s]].nb) =>
              ls.heap[ls.stat[c][s]].nb = ls.stat[c][Opp(s)]
    BY ZenonT(60) DEF WF, OwnStat
  <2>3. CASE ls.stat[c][s] = o
    BY <2>1, <2>3, <1>e, <1>p, <1>new
  <2>4. CASE ls.stat[c][s] # o
    <3>1. r.heap[ls.stat[c][s]] = ls.heap[ls.stat[c][s]]
      BY SMTT(30), <2>1, <2>4, <1>p
    <3>2. ls.heap[ls.stat[c][s]].nb \in Ref(n)
      BY ZenonT(60), <2>1, <1>l
    <3> QED
      BY ZenonT(60), <2>1, <2>2, <2>4, <3>1, <3>2, <1>e DEF Ref
  <2> QED
    BY ZenonT(60), <2>3, <2>4
<1> QED
  BY <1>1, <1>2, <1>3, <1>4, <1>5 DEF WF

(* The entries of the handlers that a call does not concern. *)
Kept(ls, r, d, t) ==
    /\ r.stat[d][t] = ls.stat[d][t]
    /\ Reg(r, d, t) <=> Reg(ls, d, t)
    /\ Reg(ls, d, t) => r.heap[ls.stat[d][t]] = ls.heap[ls.stat[d][t]]

(* A handler in the list has a slot of its own and its id. *)
LEMMA Registration ==
    ASSUME NEW ls, WF(ls), NEW c \in Conns, NEW s \in Sides, Reg(ls, c, s)
    PROVE  /\ ls.stat[c][s] \in 1 .. Len(ls.heap)
           /\ Listed(ls, ls.stat[c][s])
           /\ ls.heap[ls.stat[c][s]].id = <<c, s>>
           /\ \A d \in Conns, t \in Sides : ls.stat[d][t] = ls.stat[c][s] => d = c /\ t = s
<1>1. ls.stat[c][s] # Null /\ ~ls.heap[ls.stat[c][s]].empty
  BY DEF Reg
<1>2. ls.stat[c][s] \in 1 .. Len(ls.heap)
  BY <1>1 DEF WF, ListType, Ref
<1>3. Listed(ls, ls.stat[c][s])
  BY <1>1, <1>2 DEF WF, UsedListed
<1>4. \A d \in Conns, t \in Sides :
         ls.stat[d][t] = ls.stat[c][s] => ls.heap[ls.stat[c][s]].id = <<d, t>>
  BY ZenonT(60), <1>1, <1>3 DEF WF, OwnStat
<1> QED
  BY <1>2, <1>3, <1>4

(* Clearing the slot of a handler takes it off the list, and nobody else. *)
LEMMA RemoveFirst ==
    ASSUME NEW ls, WF(ls), NEW c \in Conns, NEW s \in Sides,
           NEW slots \in SUBSET (1 .. Len(ls.list)),
           \A i \in slots : ls.list[i] = ls.stat[c][s],
           slots # {} <=> Reg(ls, c, s),
           NEW r, r = removeFirst(ls, slots)
    PROVE  /\ WF(r) /\ r.stat = ls.stat /\ ~Reg(r, c, s)
           /\ \A d \in Conns, t \in Sides : d # c \/ t # s => Kept(ls, r, d, t)
<1>1. CASE slots = {}
  <2>1. r = ls
    BY <1>1 DEF removeFirst
  <2> QED
    BY <1>1, <2>1 DEF Kept
<1>2. CASE slots # {}
  <2> DEFINE i == FirstOf(slots)
  <2>t. ListType(ls)
    BY DEF WF
  <2>1. i \in slots
    <3>1. slots \in SUBSET Nat
      BY <2>t DEF ListType
    <3> QED
      BY <1>2, <3>1, First
  <2>2. i \in 1 .. Len(ls.list) /\ ls.list[i] = ls.stat[c][s] /\ r = clearSlot(ls, i)
    BY ZenonT(60), <1>2, <2>1 DEF removeFirst
  <2> HIDE DEF i
  <2>3. WF(r)
    BY ZenonT(60), <2>2, ClearKeeps
  <2>4. /\ ls.stat[c][s] \in 1 .. Len(ls.heap) /\ ls.stat[c][s] # Null
        /\ \A d \in Conns, t \in Sides : ls.stat[d][t] = ls.stat[c][s] => d = c /\ t = s
    BY <1>2, Registration DEF Reg
  <2>5. /\ r.stat = ls.stat
        /\ \A x \in 1 .. Len(ls.heap) :
              r.heap[x] = IF x = ls.stat[c][s] THEN newStat ELSE ls.heap[x]
    BY SMTT(30), <2>t, <2>2, ClearPoints
  <2>6. ~Reg(r, c, s)
    BY <2>4, <2>5 DEF Reg, newStat
  <2>7. ASSUME NEW d \in Conns, NEW t \in Sides, d # c \/ t # s PROVE Kept(ls, r, d, t)
    <3>1. ls.stat[d][t] # Null => ls.stat[d][t] \in 1 .. Len(ls.heap)
      BY <2>t DEF ListType, Ref
    <3>2. ls.stat[d][t] # Null => r.heap[ls.stat[d][t]] = ls.heap[ls.stat[d][t]]
      BY <2>4, <2>5, <2>7, <3>1
    <3> QED
      BY <2>5, <3>2 DEF Kept, Reg
  <2> QED
    BY <2>3, <2>5, <2>6, <2>7
<1> QED
  BY <1>1, <1>2

(* listChannel.remove by id. *)
LEMMA RemoveId ==
    ASSUME NEW ls, WF(ls), NEW c \in Conns, NEW s \in Sides, NEW r, r = removeId(ls, <<c, s>>)
    PROVE  /\ WF(r) /\ r.stat = ls.stat /\ ~Reg(r, c, s)
           /\ \A d \in Conns, t \in Sides : d # c \/ t # s => Kept(ls, r, d, t)
<1> DEFINE slots == {i \in DOMAIN ls.list : /\ ls.heap[ls.list[i]].id = <<c, s>>
                                            /\ ~ls.heap[ls.list[i]].empty}
<1>t. ListType(ls)
  BY DEF WF
<1>d. DOMAIN ls.list = 1 .. Len(ls.list) /\ \A i \in 1 .. Len(ls.list) : ls.list[i] \in 1 .. Len(ls.heap)
  BY <1>t DEF ListType
<1>0. r = removeFirst(ls, slots)
  BY ZenonT(60) DEF removeId
<1>1. slots \in SUBSET (1 .. Len(ls.list))
  BY <1>d
<1>2. ASSUME NEW i \in slots PROVE ls.list[i] = ls.stat[c][s] /\ Reg(ls, c, s)
  <2>1. /\ i \in 1 .. Len(ls.list) /\ ls.list[i] \in 1 .. Len(ls.heap)
        /\ ls.heap[ls.list[i]].id = <<c, s>> /\ ~ls.heap[ls.list[i]].empty
    BY ZenonT(60), <1>d
  <2>2. PICK d \in Conns, t \in Sides :
           ls.heap[ls.list[i]].id = <<d, t>> /\ ls.stat[d][t] = ls.list[i]
    BY ZenonT(60), <2>1 DEF WF, UsedListed
  <2>3. d = c /\ t = s
    BY <2>1, <2>2
  <2> QED
    BY SMTT(30), <2>1, <2>2, <2>3, NullAssumption DEF Reg
<1>3. Reg(ls, c, s) => slots # {}
  <2> SUFFICES ASSUME Reg(ls, c, s) PROVE slots # {}
    BY ZenonT(60)
  <2>1. PICK i \in 1 .. Len(ls.list) : ls.list[i] = ls.stat[c][s]
    BY Registration DEF Listed
  <2>2. ~ls.heap[ls.stat[c][s]].empty
    BY ZenonT(60) DEF Reg
  <2>3. ls.heap[ls.stat[c][s]].id = <<c, s>>
    BY Registration
  <2> QED
    BY ZenonT(60), <1>d, <2>1, <2>2, <2>3
<1> HIDE DEF slots
<1> QED
  BY ZenonT(60), <1>0, <1>1, <1>2, <1>3, RemoveFirst

(* listChannel.remove by reference, and the handler forgets it. *)
LEMMA RemoveStat ==
    ASSUME NEW ls, WF(ls), NEW c \in Conns, NEW s \in Sides, NEW r, r = removeStat(ls, c, s)
    PROVE  /\ WF(r) /\ r.stat[c][s] = Null
           /\ \A d \in Conns, t \in Sides : d # c \/ t # s => Kept(ls, r, d, t)
<1> DEFINE o == ls.stat[c][s]
           slots == {i \in DOMAIN ls.list : ls.list[i] = o /\ ~ls.heap[o].empty}
           q == removeFirst(ls, slots)
<1>t. ListType(ls)
  BY DEF WF
<1>d. DOMAIN ls.list = 1 .. Len(ls.list) /\ \A i \in 1 .. Len(ls.list) : ls.list[i] \in 1 .. Len(ls.heap)
  BY <1>t DEF ListType
<1>0. r = [q EXCEPT !.stat[c][s] = Null]
  BY ZenonT(60) DEF removeStat
<1>1. slots \in SUBSET (1 .. Len(ls.list)) /\ \A i \in slots : ls.list[i] = ls.stat[c][s]
  BY <1>d
<1>2. slots # {} <=> Reg(ls, c, s)
  <2>1. ASSUME NEW i \in slots PROVE Reg(ls, c, s)
    BY <1>d, NullAssumption DEF Reg
  <2>2. ASSUME Reg(ls, c, s) PROVE slots # {}
    <3>1. PICK i \in 1 .. Len(ls.list) : ls.list[i] = o
      BY <2>2, Registration DEF Listed
    <3> QED
      BY <1>d, <2>2, <3>1 DEF Reg
  <2> QED
    BY <2>1, <2>2
<1> HIDE DEF slots
<1>3. /\ WF(q) /\ q.stat = ls.stat /\ ~Reg(q, c, s)
      /\ \A d \in Conns, t \in Sides : d # c \/ t # s => Kept(ls, q, d, t)
  BY <1>1, <1>2, RemoveFirst
<1> HIDE DEF q
<1>q. ListType(q)
  BY <1>3 DEF WF
<1>4. /\ r.heap = q.heap /\ r.list = q.list
      /\ r.stat = [q.stat EXCEPT ![c][s] = Null]
      /\ r \in [stat : [Conns -> [Sides -> Nat \cup {Null}]], heap : Seq(Stats), list : Seq(Nat)]
  <2>1. /\ q \in [stat : [Conns -> [Sides -> Nat \cup {Null}]], heap : Seq(Stats), list : Seq(Nat)]
        /\ q.stat \in [Conns -> [Sides -> Nat \cup {Null}]]
    BY <1>q DEF ListType
  <2>2. [q.stat EXCEPT ![c][s] = Null] \in [Conns -> [Sides -> Nat \cup {Null}]]
    BY <2>1
  <2>3. r = [stat |-> [q.stat EXCEPT ![c][s] = Null], heap |-> q.heap, list |-> q.list]
    BY ZenonT(60), <1>0, <2>1
  <2> QED
    BY <2>1, <2>2, <2>3
<1>5. /\ r.stat[c][s] = Null
      /\ \A d \in Conns, t \in Sides : d # c \/ t # s => r.stat[d][t] = q.stat[d][t]
  BY <1>4, <1>q DEF ListType
<1>6. \A x : Listed(r, x) <=> Listed(q, x)
  BY <1>4 DEF Listed
<1>7. ListType(r)
  <2>1. \A d \in Conns, t \in Sides : r.stat[d][t] \in Ref(Len(q.heap))
    BY <1>5, <1>q DEF ListType, Ref
  <2> QED
    BY <1>4, <2>1, <1>q DEF ListType
<1>8. OwnSlots(r)
  BY <1>3, <1>4 DEF WF, OwnSlots
<1>u. ~Listed(q, q.stat[c][s])
  BY ZenonT(60), <1>3, <1>q, NullUnlisted DEF WF, OwnStat, Reg
<1>9. UsedListed(r)
  <2> SUFFICES ASSUME NEW x \in 1 .. Len(q.heap), ~q.heap[x].empty
               PROVE  /\ Listed(q, x)
                      /\ \E d \in Conns, t \in Sides : q.heap[x].id = <<d, t>> /\ r.stat[d][t] = x
    BY <1>4, <1>6 DEF UsedListed
  <2>1. Listed(q, x)
    BY <1>3 DEF WF, UsedListed
  <2>2. PICK d \in Conns, t \in Sides : q.heap[x].id = <<d, t>> /\ q.stat[d][t] = x
    BY <1>3 DEF WF, UsedListed
  <2>3. d # c \/ t # s
    BY <1>u, <2>1, <2>2
  <2> QED
    BY <2>1, <2>2, <2>3, <1>5
<1>10. FreeIsNew(r)
  BY <1>3, <1>4, <1>6 DEF WF, FreeIsNew
<1>11. OwnStat(r)
  <2> SUFFICES ASSUME NEW d \in Conns, NEW t \in Sides, r.stat[d][t] # Null
               PROVE  /\ Listed(q, r.stat[d][t]) =>
                            ~q.heap[r.stat[d][t]].empty /\ q.heap[r.stat[d][t]].id = <<d, t>>
                      /\ Listed(q, q.heap[r.stat[d][t]].nb) =>
                            q.heap[r.stat[d][t]].nb = r.stat[d][Opp(t)]
    <3>1. r.heap = q.heap
      BY ZenonT(60), <1>4
    <3> QED
      BY ZenonT(60), <3>1, <1>6 DEF OwnStat
  <2>1. (d # c \/ t # s) /\ r.stat[d][t] = q.stat[d][t]
    BY <1>5
  <2>2. /\ Listed(q, q.stat[d][t]) =>
              ~q.heap[q.stat[d][t]].empty /\ q.heap[q.stat[d][t]].id = <<d, t>>
        /\ Listed(q, q.heap[q.stat[d][t]].nb) =>
              q.heap[q.stat[d][t]].nb = q.stat[d][Opp(t)]
    BY ZenonT(60), <2>1, <1>3 DEF WF, OwnStat
  <2>3. Opp(t) \in Sides
    BY Opposite
  <2>4. Listed(q, q.heap[q.stat[d][t]].nb) => r.stat[d][Opp(t)] = q.stat[d][Opp(t)]
    BY ZenonT(60), <2>2, <2>3, <1>5, <1>u
  <2> QED
    BY ZenonT(60), <2>1, <2>2, <2>4
<1>12. ASSUME NEW d \in Conns, NEW t \in Sides, d # c \/ t # s PROVE Kept(ls, r, d, t)
  <2>1. Kept(ls, q, d, t) /\ r.stat[d][t] = q.stat[d][t]
    BY <1>3, <1>5, <1>12
  <2> QED
    BY <2>1, <1>4 DEF Kept, Reg
<1> QED
  BY <1>5, <1>7, <1>8, <1>9, <1>10, <1>11, <1>12 DEF WF

(* What counting changes. *)
Object(id, empty, front, in, out, nb) ==
    [id |-> id, empty |-> empty, front |-> front, in |-> in, out |-> out, nb |-> nb]

OneIn(e)  == [e EXCEPT !.in = e.in + 1]
OneOut(e) == [e EXCEPT !.out = e.out + 1]

(* Counting in changes one counter only. *)
LEMMA CountIn ==
    ASSUME NEW e \in Stats
    PROVE  /\ OneIn(e) \in Stats
           /\ OneIn(e).id = e.id
           /\ OneIn(e).empty = e.empty
           /\ OneIn(e).front = e.front
           /\ OneIn(e).nb = e.nb
  BY DEF Stats, OneIn

(* Counting out changes one counter only. *)
LEMMA CountOut ==
    ASSUME NEW e \in Stats
    PROVE  /\ OneOut(e) \in Stats
           /\ OneOut(e).id = e.id
           /\ OneOut(e).empty = e.empty
           /\ OneOut(e).front = e.front
           /\ OneOut(e).nb = e.nb
  BY DEF Stats, OneOut

(* Setting a counter of an object. *)
LEMMA SetObject ==
    ASSUME NEW id, NEW empty, NEW front, NEW in, NEW out, NEW nb, NEW z, NEW e,
           e = Object(id, empty, front, in, out, nb)
    PROVE  /\ [e EXCEPT !.in = z] = Object(id, empty, front, z, out, nb)
           /\ [e EXCEPT !.out = z] = Object(id, empty, front, in, z, nb)
           /\ e.in = in /\ e.out = out
  BY DEF Object

(* Counting in or out of an entry of the list. *)
LEMMA CountEntry ==
    ASSUME NEW c, NEW s, NEW x, NEW y, NEW nb
    PROVE  /\ OneIn(Entry(c, s, x, y, nb)) = Entry(c, s, x + 1, y, nb)
           /\ OneOut(Entry(c, s, x, y, nb)) = Entry(c, s, x, y + 1, nb)
<1> DEFINE f == s = "front"
           em == FALSE
           id == <<c, s>>
<1>1. \A i, o : Entry(c, s, i, o, nb) = Object(id, em, f, i, o, nb)
  BY Zenon DEF Entry, Object
<1> HIDE DEF f, em, id
<1> DEFINE e == Object(id, em, f, x, y, nb)
<1>2. ASSUME NEW z PROVE /\ [e EXCEPT !.in = z] = Object(id, em, f, z, y, nb)
                         /\ [e EXCEPT !.out = z] = Object(id, em, f, x, z, nb)
                         /\ e.in = x /\ e.out = y
  BY SetObject
<1> HIDE DEF e
<1>3. OneIn(e) = Object(id, em, f, x + 1, y, nb)
  <2>1. e.in + 1 = x + 1
    BY <1>2
  <2>2. [e EXCEPT !.in = e.in + 1] = Object(id, em, f, e.in + 1, y, nb)
    BY <1>2
  <2> QED
    BY <2>1, <2>2, Zenon DEF OneIn
<1>4. OneOut(e) = Object(id, em, f, x, y + 1, nb)
  <2>1. e.out + 1 = y + 1
    BY <1>2
  <2>2. [e EXCEPT !.out = e.out + 1] = Object(id, em, f, x, e.out + 1, nb)
    BY ZenonT(60), <1>2
  <2> QED
    BY <2>1, <2>2, Zenon DEF OneOut
<1> QED
  BY <1>1, <1>3, <1>4, Zenon DEF e

(* Changing the counters of the entries of one connection. *)
LEMMA AddIn ==
    ASSUME NEW ls, WF(ls), NEW c \in Conns, NEW s \in Sides, ls.stat[c][s] # Null,
           NEW r, r = addIn(ls, ls.stat[c][s])
    PROVE  /\ WF(r) /\ r.stat = ls.stat
           /\ \A d \in Conns, t \in Sides : Reg(r, d, t) <=> Reg(ls, d, t)
           /\ \A d \in Conns \ {c}, t \in Sides : Kept(ls, r, d, t)
           /\ \A x, y \in Nat :
                 /\ ls.stat[c][Opp(s)] # Null
                 /\ ls.heap[ls.stat[c][s]] = Entry(c, s, x, y, ls.stat[c][Opp(s)])
                 /\ ls.heap[ls.stat[c][Opp(s)]] = Entry(c, Opp(s), y, x, ls.stat[c][s])
                 => /\ r.heap[ls.stat[c][s]] = Entry(c, s, x + 1, y, ls.stat[c][Opp(s)])
                    /\ r.heap[ls.stat[c][Opp(s)]] = Entry(c, Opp(s), y, x + 1, ls.stat[c][s])
<1> DEFINE o == ls.stat[c][s]
           n == Len(ls.heap)
           b == ls.heap[o].nb
           h == [ls.heap EXCEPT ![o].in = ls.heap[o].in + 1]
           g == IF b = Null THEN h ELSE [h EXCEPT ![b].out = h[b].out + 1]
<1>t. ListType(ls)
  BY DEF WF
<1>0. /\ ls \in [stat : [Conns -> [Sides -> Nat \cup {Null}]], heap : Seq(Stats), list : Seq(Nat)]
      /\ ls.heap \in Seq(Stats) /\ n \in Nat
  BY <1>t DEF ListType
<1>o. o \in 1 .. n
  BY <1>t DEF ListType, Ref
<1>b. b \in Ref(n)
  BY <1>t, <1>o DEF ListType
<1>1. r = [stat |-> ls.stat, heap |-> g, list |-> ls.list]
  BY ZenonT(60), <1>0 DEF addIn
<1>2. /\ h \in Seq(Stats) /\ Len(h) = n
      /\ h[o] = OneIn(ls.heap[o])
      /\ \A x \in 1 .. n : x # o => h[x] = ls.heap[x]
  <2>1. OneIn(ls.heap[o]) \in Stats
    <3>1. ls.heap[o] \in Stats
      BY <1>0, <1>o
    <3> QED
      BY <3>1, CountIn
  <2>2. h = [ls.heap EXCEPT ![o] = OneIn(ls.heap[o])]
    BY <1>0, <1>o DEF OneIn
  <2> HIDE DEF h, o
  <2> QED
    BY <1>0, <1>o, <2>1, <2>2
<1> HIDE DEF h
<1>3. /\ g \in Seq(Stats) /\ Len(g) = n
      /\ b # Null => g[b] = OneOut(h[b])
      /\ \A x \in 1 .. n : x # b => g[x] = h[x]
  <2>1. CASE b = Null
    BY <2>1, <1>2
  <2>2. CASE b # Null
    <3>1. b \in 1 .. n
      BY ZenonT(60), <2>2, <1>b DEF Ref
    <3>2. OneOut(h[b]) \in Stats
      <4>1. h[b] \in Stats
        BY SMTT(30), <3>1, <1>2
      <4> QED
        BY ZenonT(60), <4>1, CountOut
    <3>3. g = [h EXCEPT ![b] = OneOut(h[b])]
      BY <2>2, <3>1, <1>2 DEF OneOut
    <3> HIDE DEF g, b
    <3> QED
      BY <1>2, <3>1, <3>2, <3>3
  <2> QED
    BY ZenonT(60), <2>1, <2>2
<1>4. ASSUME NEW x \in 1 .. n
      PROVE  /\ g[x].id = ls.heap[x].id /\ g[x].empty = ls.heap[x].empty
             /\ g[x].nb = ls.heap[x].nb /\ g[x].front = ls.heap[x].front
             /\ x # o /\ x # b => g[x] = ls.heap[x]
  <2>1. ls.heap[x] \in Stats /\ h[x] \in Stats
    BY <1>0, <1>2
  <2>2. /\ h[x].id = ls.heap[x].id /\ h[x].empty = ls.heap[x].empty
        /\ h[x].nb = ls.heap[x].nb /\ h[x].front = ls.heap[x].front
    BY <1>2, <2>1, CountIn
  <2>3. CASE x = b
    <3>1. b # Null
      BY <2>3, <1>0, NullAssumption
    <3>2. g[x] = OneOut(h[x])
      BY ZenonT(60), <1>3, <2>3, <3>1
    <3> QED
      BY ZenonT(60), <2>1, <2>2, <2>3, <3>2, CountOut
  <2>4. CASE x # b
    BY ZenonT(60), <1>2, <1>3, <2>2, <2>4
  <2> QED
    BY ZenonT(60), <2>3, <2>4
<1> HIDE DEF g, n
<1>p. r.stat = ls.stat /\ r.heap = g /\ r.list = ls.list /\ Len(g) = n
  <2>1. r.stat = ls.stat /\ r.heap = g /\ r.list = ls.list
    BY <1>1
  <2> QED
    BY ZenonT(60), <2>1, <1>3
<1>5. \A x : Listed(r, x) <=> Listed(ls, x)
  BY ZenonT(60), <1>p DEF Listed
<1>6. ListType(r)
  <2>1. r \in [stat : [Conns -> [Sides -> Nat \cup {Null}]], heap : Seq(Stats), list : Seq(Nat)]
    BY <1>0, <1>1, <1>3
  <2>2. \A x \in 1 .. n : g[x].nb \in Ref(n)
    <3>1. \A x \in 1 .. n : ls.heap[x].nb \in Ref(n)
      BY ZenonT(60), <1>t DEF ListType, n
    <3> QED
      BY <3>1, <1>4
  <2>3. /\ \A d \in Conns, t \in Sides : ls.stat[d][t] \in Ref(n)
        /\ \A i \in 1 .. Len(ls.list) : ls.list[i] \in 1 .. n
    BY <1>t DEF ListType, n
  <2> QED
    BY ZenonT(60), <2>1, <2>2, <2>3, <1>p DEF ListType
<1>7. OwnSlots(r)
  BY ZenonT(60), <1>p DEF WF, OwnSlots
<1>8. UsedListed(r)
  <2> SUFFICES ASSUME NEW x \in 1 .. n, ~ls.heap[x].empty
               PROVE  /\ Listed(ls, x)
                      /\ \E d \in Conns, t \in Sides :
                            ls.heap[x].id = <<d, t>> /\ ls.stat[d][t] = x
    BY <1>p, <1>4, <1>5 DEF UsedListed
  <2> QED
    BY ZenonT(60) DEF WF, UsedListed, n
<1>9. /\ Listed(ls, o) => ~ls.heap[o].empty /\ ls.heap[o].id = <<c, s>>
      /\ Listed(ls, b) => /\ b = ls.stat[c][Opp(s)] /\ ~ls.heap[b].empty
                          /\ ls.heap[b].id = <<c, Opp(s)>>
  <2>1. /\ Listed(ls, o) => ~ls.heap[o].empty /\ ls.heap[o].id = <<c, s>>
        /\ Listed(ls, b) => b = ls.stat[c][Opp(s)]
    BY ZenonT(60) DEF WF, OwnStat
  <2>2. Opp(s) \in Sides
    BY Opposite
  <2>3. Listed(ls, b) => b # Null
    BY <1>t, NullUnlisted
  <2>4. Listed(ls, b) => ~ls.heap[b].empty /\ ls.heap[b].id = <<c, Opp(s)>>
    BY ZenonT(60), <2>1, <2>2, <2>3 DEF WF, OwnStat
  <2> QED
    BY ZenonT(60), <2>1, <2>4
<1> HIDE DEF b, o
<1>10. FreeIsNew(r)
  <2> SUFFICES ASSUME NEW x \in 1 .. n, Listed(ls, x), ls.heap[x].empty PROVE g[x] = newStat
    BY <1>1, <1>3, <1>4, <1>5 DEF FreeIsNew
  <2>1. x # o /\ x # b
    BY <1>9
  <2>2. ls.heap[x] = newStat
    BY ZenonT(60) DEF WF, FreeIsNew, n
  <2> QED
    BY <1>4, <2>1, <2>2
<1>11. OwnStat(r)
  <2> SUFFICES ASSUME NEW d \in Conns, NEW t \in Sides, ls.stat[d][t] # Null
               PROVE  /\ Listed(ls, ls.stat[d][t]) =>
                            ~g[ls.stat[d][t]].empty /\ g[ls.stat[d][t]].id = <<d, t>>
                      /\ Listed(ls, g[ls.stat[d][t]].nb) =>
                            g[ls.stat[d][t]].nb = ls.stat[d][Opp(t)]
    BY SMTT(30), <1>1, <1>5 DEF OwnStat
  <2>1. ls.stat[d][t] \in 1 .. n
    BY <1>t DEF ListType, Ref, n
  <2> QED
    BY ZenonT(60), <1>4, <2>1 DEF WF, OwnStat
<1>12. ASSUME NEW d \in Conns, NEW t \in Sides PROVE Reg(r, d, t) <=> Reg(ls, d, t)
  <2>1. ls.stat[d][t] # Null => ls.stat[d][t] \in 1 .. n
    BY <1>t DEF ListType, Ref, n
  <2> QED
    BY <2>1, <1>1, <1>4 DEF Reg
<1>13. ASSUME NEW d \in Conns \ {c}, NEW t \in Sides PROVE Kept(ls, r, d, t)
  <2>1. ASSUME Reg(ls, d, t) PROVE r.heap[ls.stat[d][t]] = ls.heap[ls.stat[d][t]]
    <3>1. /\ ls.stat[d][t] \in 1 .. n /\ Listed(ls, ls.stat[d][t])
          /\ ls.heap[ls.stat[d][t]].id = <<d, t>>
      BY SMTT(30), <2>1, Registration DEF n
    <3>2. ls.stat[d][t] # o /\ ls.stat[d][t] # b
      BY <3>1, <1>9
    <3> QED
      BY SMTT(30), <3>1, <3>2, <1>1, <1>4
  <2> QED
    BY SMTT(30), <2>1, <1>1, <1>12 DEF Kept
<1>14. ASSUME NEW x \in Nat, NEW y \in Nat, ls.stat[c][Opp(s)] # Null,
              ls.heap[o] = Entry(c, s, x, y, ls.stat[c][Opp(s)]),
              ls.heap[ls.stat[c][Opp(s)]] = Entry(c, Opp(s), y, x, o)
       PROVE  /\ g[o] = Entry(c, s, x + 1, y, ls.stat[c][Opp(s)])
              /\ g[ls.stat[c][Opp(s)]] = Entry(c, Opp(s), y, x + 1, o)
  <2>1. b = ls.stat[c][Opp(s)]
    BY <1>14 DEF Entry, b
  <2>2. b # o
    BY <1>14, <2>1, Opposite DEF Entry
  <2>3. b \in 1 .. n
    BY <1>14, <1>b, <2>1 DEF Ref
  <2>4. g[o] = OneIn(ls.heap[o]) /\ g[b] = OneOut(ls.heap[b])
    <3>1. g[o] = h[o]
      BY <1>3, <1>o, <2>2
    <3>2. g[b] = OneOut(h[b])
      BY <1>3, <1>14, <2>1
    <3>3. h[b] = ls.heap[b]
      BY <1>2, <2>2, <2>3
    <3> QED
      BY <1>2, <3>1, <3>2, <3>3
  <2>5. /\ OneIn(ls.heap[o]) = Entry(c, s, x + 1, y, ls.stat[c][Opp(s)])
        /\ OneOut(ls.heap[b]) = Entry(c, Opp(s), y, x + 1, o)
    BY <1>14, <2>1, CountEntry
  <2> QED
    BY <2>1, <2>4, <2>5
<1>15. r.heap = g /\ r.stat = ls.stat
  BY ZenonT(60), <1>p
<1> QED
  BY <1>6, <1>7, <1>8, <1>10, <1>11, <1>12, <1>13, <1>14, <1>15 DEF WF, o

(* What counting does to the entries of an open connection. *)
LEMMA AddInEntries ==
    ASSUME NEW ls, WF(ls), NEW c \in Conns, NEW s \in Sides,
           ls.stat[c][s] # Null, ls.stat[c][Opp(s)] # Null,
           NEW x \in Nat, NEW y \in Nat,
           ls.heap[ls.stat[c][s]] = Entry(c, s, x, y, ls.stat[c][Opp(s)]),
           ls.heap[ls.stat[c][Opp(s)]] = Entry(c, Opp(s), y, x, ls.stat[c][s])
    PROVE  /\ addIn(ls, ls.stat[c][s]).heap[ls.stat[c][s]] = Entry(c, s, x + 1, y, ls.stat[c][Opp(s)])
           /\ addIn(ls, ls.stat[c][s]).heap[ls.stat[c][Opp(s)]] = Entry(c, Opp(s), y, x + 1, ls.stat[c][s])
  BY AddIn

(* What counting leaves alone. *)
LEMMA AddInKeeps ==
    ASSUME NEW ls, WF(ls), NEW c \in Conns, NEW s \in Sides, ls.stat[c][s] # Null
    PROVE  /\ WF(addIn(ls, ls.stat[c][s])) /\ addIn(ls, ls.stat[c][s]).stat = ls.stat
           /\ \A d \in Conns, t \in Sides : Reg(addIn(ls, ls.stat[c][s]), d, t) <=> Reg(ls, d, t)
           /\ \A d \in Conns \ {c}, t \in Sides : Kept(ls, addIn(ls, ls.stat[c][s]), d, t)
  BY AddIn

(* The entry of a handler that has just been created. *)
Fresh(c, s) == Object(<<c, s>>, FALSE, TRUE, 0, 0, Null)

Named(e, id, empty)  == [e EXCEPT !.id = id, !.empty = empty]
Joined(e, nb, front) == [e EXCEPT !.nb = nb, !.front = front]

(* Naming an object and joining it with its neighbour. *)
LEMMA RenewObject ==
    ASSUME NEW id, NEW empty, NEW front, NEW in, NEW out, NEW nb,
           NEW w, NEW x, NEW y, NEW z
    PROVE  /\ Named(Object(id, empty, front, in, out, nb), w, x) = Object(w, x, front, in, out, nb)
           /\ Joined(Object(id, empty, front, in, out, nb), y, z) = Object(id, empty, z, in, out, y)
           /\ Joined(Named(Object(id, empty, front, in, out, nb), w, x), y, z) = Object(w, x, z, in, out, y)
<1> DEFINE e  == Object(id, empty, front, in, out, nb)
           e1 == [e EXCEPT !.id = w]
           e2 == [e1 EXCEPT !.empty = x]
           e3 == [e2 EXCEPT !.nb = y]
           e4 == [e3 EXCEPT !.front = z]
           f1 == [e EXCEPT !.nb = y]
           f2 == [f1 EXCEPT !.front = z]
<1>1. Named(e, w, x) = e2
  BY Zenon DEF Named
<1>2. Joined(e, y, z) = f2
  BY Zenon DEF Joined
<1>3. Joined(e2, y, z) = e4
  BY Zenon DEF Joined
<1>4. e1 = Object(w, empty, front, in, out, nb) /\ f1 = Object(id, empty, front, in, out, y)
  BY DEF Object
<1> HIDE DEF e, e1, f1
<1>5. e2 = Object(w, x, front, in, out, nb) /\ f2 = Object(id, empty, z, in, out, y)
  BY <1>4 DEF Object
<1> HIDE DEF e2, f2
<1>6. e3 = Object(w, x, front, in, out, y)
  BY <1>5 DEF Object
<1> HIDE DEF e3
<1>7. e4 = Object(w, x, z, in, out, y)
  BY <1>6 DEF Object
<1> HIDE DEF e4
<1> QED
  BY <1>1, <1>2, <1>3, <1>5, <1>7, Zenon DEF e

(* What create() makes of a new object. *)
LEMMA FreshObject ==
    ASSUME NEW c \in Conns, NEW s \in Sides
    PROVE  /\ [newStat EXCEPT !.id = <<c, s>>, !.empty = FALSE] = Fresh(c, s)
           /\ Fresh(c, s) \in Stats /\ ~Fresh(c, s).empty /\ Fresh(c, s).id = <<c, s>>
           /\ Fresh(c, s).nb = Null
           /\ Fresh(c, "front") = Entry(c, "front", 0, 0, Null)
<1>1. [newStat EXCEPT !.id = <<c, s>>, !.empty = FALSE] = Fresh(c, s)
  <2> DEFINE id == <<c, s>>
             em == FALSE
             fr == TRUE
  <2>1. newStat = Object(Null, fr, fr, 0, 0, Null) /\ Fresh(c, s) = Object(id, em, fr, 0, 0, Null)
    BY Zenon DEF newStat, Fresh, Object
  <2> HIDE DEF id, em, fr
  <2>2. Named(newStat, id, em) = Object(id, em, fr, 0, 0, Null)
    BY <2>1, RenewObject
  <2> QED
    BY <2>1, <2>2, Zenon DEF id, em, Named
<1>2. /\ Fresh(c, s) \in Stats /\ ~Fresh(c, s).empty /\ Fresh(c, s).id = <<c, s>>
      /\ Fresh(c, s).nb = Null
  BY DEF Fresh, Object, Stats
<1>3. Fresh(c, "front") = Entry(c, "front", 0, 0, Null)
  BY ZenonT(60) DEF Fresh, Entry, Object
<1> QED
  BY <1>1, <1>2, <1>3

(* What create changes: o is the object of the new entry. *)
Registers(ls, r, c, s, o) ==
    /\ r \in [stat : [Conns -> [Sides -> Nat \cup {Null}]], heap : Seq(Stats), list : Seq(Nat)]
    /\ r.stat = [ls.stat EXCEPT ![c][s] = o]
    /\ Len(ls.heap) <= Len(r.heap)
    /\ o \in 1 .. Len(r.heap) /\ r.heap[o] = Fresh(c, s)
    /\ \A x \in 1 .. Len(r.heap) : x # o => x \in 1 .. Len(ls.heap) /\ r.heap[x] = ls.heap[x]
    /\ \A i \in 1 .. Len(r.list) : r.list[i] = o \/ Listed(ls, r.list[i])
    /\ \A x : Listed(r, x) <=> x = o \/ Listed(ls, x)
    /\ \A d \in Conns, t \in Sides : ls.stat[d][t] # o
    /\ \A d \in Conns, t \in Sides : ls.stat[d][t] # Null => ls.heap[ls.stat[d][t]].nb # o

(* create() with a slot that is free or new: the list stays well formed, *)
(* and the entries of all other handlers stay as they are.               *)
LEMMA CreateKeeps ==
    ASSUME NEW ls, WF(ls), NEW c \in Conns, NEW s \in Sides, ls.stat[c][s] = Null,
           NEW r, NEW o, Registers(ls, r, c, s, o), OwnSlots(r)
    PROVE  /\ WF(r) /\ r.stat[c][s] = o
           /\ \A d \in Conns, t \in Sides : d # c \/ t # s => Kept(ls, r, d, t)
<1> DEFINE n == Len(ls.heap)
           m == Len(r.heap)
<1>t. ListType(ls)
  BY DEF WF
<1>n. n \in Nat /\ m \in Nat /\ n <= m /\ o \in 1 .. m
  BY <1>t DEF ListType, Registers
<1>s. /\ r.stat[c][s] = o
      /\ \A d \in Conns, t \in Sides : d # c \/ t # s => r.stat[d][t] = ls.stat[d][t]
  BY <1>t DEF ListType, Registers
<1>h. /\ r.heap[o] = Fresh(c, s)
      /\ \A x \in 1 .. m : x # o => x \in 1 .. n /\ r.heap[x] = ls.heap[x]
  BY DEF Registers
<1>f. ~r.heap[o].empty /\ r.heap[o].id = <<c, s>> /\ r.heap[o].nb = Null
  BY ZenonT(60), <1>h, FreshObject
<1>l. \A x : Listed(r, x) <=> x = o \/ Listed(ls, x)
  BY DEF Registers
<1>o. /\ \A d \in Conns, t \in Sides : ls.stat[d][t] # o
      /\ \A d \in Conns, t \in Sides : ls.stat[d][t] # Null => ls.heap[ls.stat[d][t]].nb # o
  BY DEF Registers
<1>r. \A d \in Conns, t \in Sides : ls.stat[d][t] # Null => ls.stat[d][t] \in 1 .. n
  BY <1>t DEF ListType, Ref
<1>k. \A x \in 1 .. n : x # o => r.heap[x] = ls.heap[x]
  BY <1>h, <1>n
<1>1. ListType(r)
  <2>1. r \in [stat : [Conns -> [Sides -> Nat \cup {Null}]], heap : Seq(Stats), list : Seq(Nat)]
    BY DEF Registers
  <2>2. \A d \in Conns, t \in Sides : r.stat[d][t] \in Ref(m)
    BY <1>n, <1>s, <1>r DEF Ref
  <2>3. \A x \in 1 .. m : r.heap[x].nb \in Ref(m)
    <3> SUFFICES ASSUME NEW x \in 1 .. m PROVE r.heap[x].nb \in Ref(m)
      OBVIOUS
    <3>1. CASE x = o
      BY <3>1, <1>f DEF Ref
    <3>2. CASE x # o
      <4>1. ls.heap[x].nb \in Ref(n) /\ r.heap[x].nb = ls.heap[x].nb
        BY <3>2, <1>h, <1>t DEF ListType
      <4> QED
        BY <4>1, <1>n DEF Ref
    <3> QED
      BY <3>1, <3>2
  <2>4. \A i \in 1 .. Len(r.list) : r.list[i] \in 1 .. m
    <3>1. \A x : Listed(ls, x) => x \in 1 .. n
      BY <1>t DEF ListType, Listed
    <3> QED
      BY <3>1, <1>n DEF Registers
  <2> QED
    BY <2>1, <2>2, <2>3, <2>4 DEF ListType
<1> HIDE DEF n, m
<1>3. UsedListed(r)
  <2> SUFFICES ASSUME NEW x \in 1 .. m, ~r.heap[x].empty
               PROVE  /\ Listed(r, x)
                      /\ \E d \in Conns, t \in Sides : r.heap[x].id = <<d, t>> /\ r.stat[d][t] = x
    BY DEF UsedListed, m
  <2>1. CASE x = o
    BY ZenonT(60), <2>1, <1>f, <1>s, <1>l
  <2>2. CASE x # o
    <3>1. x \in 1 .. n /\ r.heap[x] = ls.heap[x]
      BY ZenonT(60), <2>2, <1>h
    <3>2. Listed(ls, x)
      BY <3>1 DEF WF, UsedListed, n
    <3>3. PICK d \in Conns, t \in Sides : ls.heap[x].id = <<d, t>> /\ ls.stat[d][t] = x
      BY <3>1 DEF WF, UsedListed, n
    <3>4. d # c \/ t # s
      BY <3>1, <3>3, <1>n, NullAssumption
    <3> QED
      BY ZenonT(60), <3>1, <3>2, <3>3, <3>4, <1>l, <1>s
  <2> QED
    BY <2>1, <2>2
<1>4. FreeIsNew(r)
  <2> SUFFICES ASSUME NEW x \in 1 .. m, Listed(r, x), r.heap[x].empty PROVE r.heap[x] = newStat
    BY DEF FreeIsNew, m
  <2>1. x # o
    BY <1>f
  <2>2. x \in 1 .. n /\ r.heap[x] = ls.heap[x] /\ Listed(ls, x)
    BY <2>1, <1>h, <1>l
  <2> QED
    BY <2>2 DEF WF, FreeIsNew, n
<1>5. OwnStat(r)
  <2> SUFFICES ASSUME NEW d \in Conns, NEW t \in Sides, r.stat[d][t] # Null
               PROVE  /\ Listed(r, r.stat[d][t]) =>
                            ~r.heap[r.stat[d][t]].empty /\ r.heap[r.stat[d][t]].id = <<d, t>>
                      /\ Listed(r, r.heap[r.stat[d][t]].nb) =>
                            r.heap[r.stat[d][t]].nb = r.stat[d][Opp(t)]
    BY ZenonT(60) DEF OwnStat
  <2>u. ~Listed(r, Null) /\ ~Listed(ls, Null)
    BY ZenonT(60), <1>1, <1>t, NullUnlisted
  <2>1. CASE d = c /\ t = s
    BY <2>1, <2>u, <1>s, <1>f
  <2>2. CASE d # c \/ t # s
    <3>1. /\ r.stat[d][t] = ls.stat[d][t] /\ ls.stat[d][t] # Null
          /\ ls.stat[d][t] \in 1 .. n /\ ls.stat[d][t] # o
      BY ZenonT(60), <2>2, <1>s, <1>r, <1>o
    <3>2. r.heap[ls.stat[d][t]] = ls.heap[ls.stat[d][t]] /\ ls.heap[ls.stat[d][t]].nb # o
      BY <3>1, <1>k, <1>o
    <3>3. /\ Listed(ls, ls.stat[d][t]) =>
                ~ls.heap[ls.stat[d][t]].empty /\ ls.heap[ls.stat[d][t]].id = <<d, t>>
          /\ Listed(ls, ls.heap[ls.stat[d][t]].nb) =>
                ls.heap[ls.stat[d][t]].nb = ls.stat[d][Opp(t)]
      BY ZenonT(60), <3>1 DEF WF, OwnStat
    <3>4. Listed(ls, ls.heap[ls.stat[d][t]].nb) => r.stat[d][Opp(t)] = ls.stat[d][Opp(t)]
      BY ZenonT(60), <3>3, <2>u, <1>s, Opposite
    <3> QED
      BY ZenonT(60), <3>1, <3>2, <3>3, <3>4, <1>l
  <2> QED
    BY ZenonT(60), <2>1, <2>2
<1>6. ASSUME NEW d \in Conns, NEW t \in Sides, d # c \/ t # s PROVE Kept(ls, r, d, t)
  <2>1. r.stat[d][t] = ls.stat[d][t]
    BY <1>6, <1>s
  <2>2. ls.stat[d][t] # Null => r.heap[ls.stat[d][t]] = ls.heap[ls.stat[d][t]]
    BY ZenonT(60), <1>o, <1>k, <1>r
  <2> QED
    BY <2>1, <2>2 DEF Kept, Reg
<1> QED
  BY <1>1, <1>3, <1>4, <1>5, <1>6, <1>s DEF WF

(* listChannel.create registers a handler that has no entry. *)
LEMMA Create ==
    ASSUME NEW ls, WF(ls), NEW c \in Conns, NEW s \in Sides, ls.stat[c][s] = Null,
           NEW r, r = create(ls, c, s)
    PROVE  /\ WF(r)
           /\ r.stat[c][s] # Null /\ r.heap[r.stat[c][s]] = Fresh(c, s)
           /\ \A d \in Conns, t \in Sides : d # c \/ t # s => Kept(ls, r, d, t)
<1> DEFINE free == {i \in DOMAIN ls.list : ls.heap[ls.list[i]].empty}
           n == Len(ls.heap)
           k == Len(ls.list)
<1>t. ListType(ls)
  BY ZenonT(60) DEF WF
<1>0. /\ ls.stat \in [Conns -> [Sides -> Nat \cup {Null}]]
      /\ ls.heap \in Seq(Stats) /\ ls.list \in Seq(Nat)
      /\ n \in Nat /\ k \in Nat /\ DOMAIN ls.list = 1 .. k
      /\ \A i \in 1 .. k : ls.list[i] \in 1 .. n
  BY <1>t DEF ListType
<1>u. /\ \A d \in Conns, t \in Sides : ls.stat[d][t] \in Ref(n)
      /\ \A d \in Conns, t \in Sides : ls.stat[d][t] # Null => ls.heap[ls.stat[d][t]].nb \in Ref(n)
  <2>1. \A d \in Conns, t \in Sides : ls.stat[d][t] \in Ref(n)
    BY <1>t DEF ListType
  <2>2. \A x \in 1 .. n : ls.heap[x].nb \in Ref(n)
    BY <1>t DEF ListType
  <2> QED
    BY <2>1, <2>2 DEF Ref
<1>f. Fresh(c, s) \in Stats
  BY ZenonT(60), FreshObject
<1>1. CASE free # {}
  <2> DEFINE i == FirstOf(free)
             o == ls.list[i]
             g == [ls.heap EXCEPT ![o] = [ls.heap[o] EXCEPT !.id = <<c, s>>, !.empty = FALSE]]
             q == [ls.stat EXCEPT ![c][s] = o]
  <2>1. i \in free
    <3>1. free \in SUBSET Nat
      BY <1>0
    <3> QED
      BY ZenonT(60), <1>1, <3>1, First
  <2>2. i \in 1 .. k /\ o \in 1 .. n /\ ls.heap[o].empty /\ o # Null
    <3>1. i \in 1 .. k /\ ls.heap[ls.list[i]].empty
      <4> HIDE DEF i
      <4> QED
        BY <2>1, <1>0
    <3> HIDE DEF i
    <3>2. ls.list[i] \in 1 .. n
      BY <3>1, <1>0
    <3> QED
      BY <3>1, <3>2, NullAssumption
  <2>3. r = [stat |-> q, heap |-> g, list |-> ls.list]
    BY ZenonT(60), <1>1 DEF create
  <2> HIDE DEF i
  <2>4. Listed(ls, o)
    BY <2>2 DEF Listed
  <2>5. ls.heap[o] = newStat
    BY <2>2, <2>4 DEF WF, FreeIsNew
  <2>6. g = [ls.heap EXCEPT ![o] = Fresh(c, s)]
    BY <2>5, FreshObject, Zenon
  <2>n. o \in Nat
    BY <1>0, <2>2
  <2>7. q \in [Conns -> [Sides -> Nat \cup {Null}]]
    BY ZenonT(60), <1>0, <2>n
  <2>8. /\ \A d \in Conns, t \in Sides : ls.stat[d][t] # o
        /\ \A d \in Conns, t \in Sides : ls.stat[d][t] # Null => ls.heap[ls.stat[d][t]].nb # o
    <3>1. \A d \in Conns, t \in Sides : ls.stat[d][t] # o
      BY <2>2, <2>4 DEF WF, OwnStat
    <3>2. \A d \in Conns, t \in Sides : ls.stat[d][t] # Null => ls.heap[ls.stat[d][t]].nb # o
      <4> SUFFICES ASSUME NEW d \in Conns, NEW t \in Sides, ls.stat[d][t] # Null,
                          ls.heap[ls.stat[d][t]].nb = o
                   PROVE  FALSE
        OBVIOUS
      <4>1. o = ls.stat[d][Opp(t)]
        BY ZenonT(60), <2>4 DEF WF, OwnStat
      <4> QED
        BY <4>1, <3>1, Opposite
    <3> QED
      BY ZenonT(60), <3>1, <3>2
  <2> HIDE DEF o, g, q
  <2>9. /\ g \in Seq(Stats) /\ Len(g) = n /\ g[o] = Fresh(c, s)
        /\ \A x \in 1 .. n : x # o => g[x] = ls.heap[x]
    BY <2>2, <2>6, <1>0, <1>f
  <2>10. OwnSlots(r)
    BY <2>3 DEF WF, OwnSlots
  <2>11. \A x : Listed(r, x) <=> x = o \/ Listed(ls, x)
    BY <2>3, <2>4 DEF Listed
  <2>12. \A j \in 1 .. k : Listed(ls, ls.list[j])
    BY DEF Listed
  <2>13. r.stat = [ls.stat EXCEPT ![c][s] = o] /\ r.heap = g /\ r.list = ls.list
    BY <2>3 DEF q
  <2>14. r \in [stat : [Conns -> [Sides -> Nat \cup {Null}]], heap : Seq(Stats), list : Seq(Nat)]
    BY SMTT(30), <2>3, <2>7, <2>9, <1>0
  <2>15. Registers(ls, r, c, s, o)
    BY <2>2, <2>8, <2>9, <2>11, <2>12, <2>13, <2>14, <1>0 DEF Registers
  <2>16. /\ WF(r) /\ r.stat[c][s] = o
         /\ \A d \in Conns, t \in Sides : d # c \/ t # s => Kept(ls, r, d, t)
    BY <2>10, <2>15, CreateKeeps
  <2> QED
    BY <2>2, <2>9, <2>13, <2>16
<1>2. CASE free = {}
  <2> DEFINE o == n + 1
             h == Append(ls.heap, newStat)
             g == [h EXCEPT ![o] = [h[o] EXCEPT !.id = <<c, s>>, !.empty = FALSE]]
             q == [ls.stat EXCEPT ![c][s] = o]
             l == Append(ls.list, o)
  <2>1. r = [stat |-> q, heap |-> g, list |-> l]
    BY <1>2 DEF create
  <2>2. o \in Nat /\ o # Null
    BY <1>0, NullAssumption
  <2>3. newStat \in Stats
    BY DEF newStat, Stats
  <2>4. /\ h \in Seq(Stats) /\ Len(h) = o /\ h[o] = newStat
        /\ \A x \in 1 .. n : h[x] = ls.heap[x]
    BY <1>0, <2>3
  <2>5. /\ l \in Seq(Nat) /\ Len(l) = k + 1 /\ l[k + 1] = o
        /\ \A j \in 1 .. k : l[j] = ls.list[j]
    BY <1>0, <2>2
  <2> HIDE DEF h, l
  <2>6. g = [h EXCEPT ![o] = Fresh(c, s)]
    BY <2>4, FreshObject, Zenon
  <2>7. q \in [Conns -> [Sides -> Nat \cup {Null}]]
    BY ZenonT(60), <1>0, <2>2
  <2>8. /\ \A d \in Conns, t \in Sides : ls.stat[d][t] # o
        /\ \A d \in Conns, t \in Sides : ls.stat[d][t] # Null => ls.heap[ls.stat[d][t]].nb # o
    BY <1>u, <1>0, <2>2 DEF Ref
  <2>9. o \in 1 .. o /\ \A x \in 1 .. o : x # o => x \in 1 .. n
    BY <1>0
  <2> HIDE DEF g
  <2>10. /\ g \in Seq(Stats) /\ Len(g) = o /\ g[o] = Fresh(c, s)
         /\ \A x \in 1 .. o : x # o => g[x] = ls.heap[x]
    BY <2>2, <2>4, <2>6, <2>9, <1>f
  <2>11. r.stat = q /\ r.heap = g /\ r.list = l
    BY <2>1
  <2>12. OwnSlots(r)
    <3>1. \A i, j \in 1 .. k : ls.list[i] = ls.list[j] => i = j
      BY DEF WF, OwnSlots
    <3>2. \A j \in 1 .. k : l[j] = ls.list[j] /\ l[j] # o
      <4>1. \A x \in 1 .. n : x # o
        BY <1>0
      <4> QED
        BY ZenonT(60), <1>0, <2>5, <4>1
    <3>3. \A j \in 1 .. k + 1 : j = k + 1 \/ j \in 1 .. k
      BY <1>0
    <3> SUFFICES ASSUME NEW i \in 1 .. k + 1, NEW j \in 1 .. k + 1, l[i] = l[j] PROVE i = j
      BY <2>5, <2>11 DEF OwnSlots
    <3> HIDE DEF o, k
    <3> QED
      BY <3>1, <3>2, <3>3, <2>5
  <2>13. \A x : Listed(r, x) <=> x = o \/ Listed(ls, x)
    <3> SUFFICES ASSUME NEW x PROVE Listed(r, x) <=> x = o \/ Listed(ls, x)
      OBVIOUS
    <3>1. Listed(r, x) <=> \E j \in 1 .. k + 1 : l[j] = x
      BY <2>5, <2>11 DEF Listed
    <3>2. Listed(ls, x) <=> \E j \in 1 .. k : l[j] = x
      BY ZenonT(60), <2>5 DEF Listed
    <3>3. \A j : j \in 1 .. k + 1 <=> j = k + 1 \/ j \in 1 .. k
      BY <1>0
    <3>4. l[k + 1] = o
      BY <2>5
    <3> HIDE DEF o, k
    <3> QED
      BY <3>1, <3>2, <3>3, <3>4
  <2>14. \A j \in 1 .. Len(r.list) : r.list[j] = o \/ Listed(ls, r.list[j])
    BY ZenonT(60), <2>13 DEF Listed
  <2>15. r \in [stat : [Conns -> [Sides -> Nat \cup {Null}]], heap : Seq(Stats), list : Seq(Nat)]
    BY <2>1, <2>5, <2>7, <2>10
  <2>16. n <= o /\ r.stat = [ls.stat EXCEPT ![c][s] = o]
    BY <1>0, <2>11
  <2> HIDE DEF o, q
  <2>17. Registers(ls, r, c, s, o)
    BY ZenonT(60), <2>8, <2>9, <2>10, <2>11, <2>13, <2>14, <2>15, <2>16 DEF Registers
  <2>18. /\ WF(r) /\ r.stat[c][s] = o
         /\ \A d \in Conns, t \in Sides : d # c \/ t # s => Kept(ls, r, d, t)
    BY <2>12, <2>17, CreateKeeps
  <2> QED
    BY <2>2, <2>10, <2>11, <2>18
<1> QED
  BY <1>1, <1>2

(* channelActive of the backend makes the two entries neighbours. *)
LEMMA Neighbours ==
    ASSUME NEW ls, WF(ls), NEW c \in Conns,
           \A s \in Sides : ls.stat[c][s] # Null /\ ls.heap[ls.stat[c][s]] = Fresh(c, s),
           NEW r, r = neighbours(ls, c)
    PROVE  /\ WF(r) /\ r.stat = ls.stat
           /\ r.heap[ls.stat[c]["front"]] = Entry(c, "front", 0, 0, ls.stat[c]["back"])
           /\ r.heap[ls.stat[c]["back"]] = Entry(c, "back", 0, 0, ls.stat[c]["front"])
           /\ \A d \in Conns \ {c}, t \in Sides : Kept(ls, r, d, t)
<1> DEFINE f == ls.stat[c]["front"]
           b == ls.stat[c]["back"]
           n == Len(ls.heap)
           x == Entry(c, "back", 0, 0, f)
           y == Entry(c, "front", 0, 0, b)
           g == [ls.heap EXCEPT ![b] = x, ![f] = y]
<1>t. ListType(ls)
  BY DEF WF
<1>0. /\ ls \in [stat : [Conns -> [Sides -> Nat \cup {Null}]], heap : Seq(Stats), list : Seq(Nat)]
      /\ ls.heap \in Seq(Stats) /\ n \in Nat
  BY <1>t DEF ListType
<1>s. "front" \in Sides /\ "back" \in Sides /\ \A s \in Sides : s = "front" \/ s = "back"
  BY DEF Sides
<1>h. ls.heap[f] = Fresh(c, "front") /\ ls.heap[b] = Fresh(c, "back") /\ f # Null /\ b # Null
  BY <1>s
<1>i. /\ ls.heap[f].id = <<c, "front">> /\ ~ls.heap[f].empty
      /\ ls.heap[b].id = <<c, "back">> /\ ~ls.heap[b].empty
  BY ZenonT(60), <1>h, <1>s, FreshObject
<1>f. f \in 1 .. n /\ b \in 1 .. n /\ f # b
  <2>1. f \in Ref(n) /\ b \in Ref(n)
    BY <1>s, <1>t DEF ListType
  <2>2. <<c, "front">> # <<c, "back">>
    OBVIOUS
  <2> HIDE DEF f, b
  <2> QED
    BY <2>1, <2>2, <1>h, <1>i DEF Ref
<1>1. r = [stat |-> ls.stat, heap |-> g, list |-> ls.list]
  <2> DEFINE no  == FALSE
             yes == TRUE
  <2>1. /\ x = Object(<<c, "back">>, no, no, 0, 0, f) /\ y = Object(<<c, "front">>, no, yes, 0, 0, b)
        /\ Fresh(c, "front") = Object(<<c, "front">>, no, yes, 0, 0, Null)
        /\ Fresh(c, "back") = Object(<<c, "back">>, no, yes, 0, 0, Null)
    BY ZenonT(60) DEF Entry, Object, Fresh
  <2> HIDE DEF no, yes, x, y
  <2>2. /\ Joined(ls.heap[b], f, no) = x
        /\ Joined(Named(ls.heap[f], <<c, "front">>, no), b, yes) = y
    BY <1>h, <2>1, RenewObject
  <2>3. /\ [ls.heap[b] EXCEPT !.nb = f, !.front = FALSE] = x
        /\ [ls.heap[f] EXCEPT !.id = <<c, "front">>, !.empty = FALSE, !.nb = b, !.front = TRUE] = y
    BY <2>2, Zenon DEF Joined, Named, no, yes
  <2>4. r = [ls EXCEPT !.heap = g]
    BY <2>3, Zenon DEF neighbours
  <2> HIDE DEF g
  <2> QED
    BY <2>4, <1>0
<1>2. /\ x \in Stats /\ y \in Stats /\ ~x.empty /\ ~y.empty
      /\ x.id = <<c, "back">> /\ y.id = <<c, "front">> /\ x.nb = f /\ y.nb = b
  <2>1. f \in Nat /\ b \in Nat
    BY <1>f, <1>0
  <2> HIDE DEF f, b
  <2> QED
    BY <2>1, <1>s DEF Entry, Stats
<1> HIDE DEF f, b, x, y, n
<1>3. /\ g \in Seq(Stats) /\ Len(g) = n /\ g[b] = x /\ g[f] = y
      /\ \A z \in 1 .. n : z # f /\ z # b => g[z] = ls.heap[z]
  <2>1. DOMAIN ls.heap = 1 .. n /\ Len(ls.heap) = n
    BY <1>0 DEF n
  <2> QED
    BY <2>1, <1>0, <1>f, <1>2
<1> HIDE DEF g
<1>4. \A z \in 1 .. n : g[z].id = ls.heap[z].id /\ (g[z].empty <=> ls.heap[z].empty)
  BY ZenonT(60), <1>i, <1>2, <1>3
<1>5. \A z : Listed(r, z) <=> Listed(ls, z)
  BY <1>1 DEF Listed
<1>p. r.stat = ls.stat /\ r.heap = g /\ r.list = ls.list
  BY <1>1
<1>6. ListType(r)
  <2>1. r \in [stat : [Conns -> [Sides -> Nat \cup {Null}]], heap : Seq(Stats), list : Seq(Nat)]
    BY <1>0, <1>1, <1>3
  <2>2. \A z \in 1 .. n : g[z].nb \in Ref(n)
    <3>1. \A z \in 1 .. n : ls.heap[z].nb \in Ref(n)
      BY <1>t DEF ListType, n
    <3>2. f \in Ref(n) /\ b \in Ref(n)
      BY <1>f DEF Ref
    <3> QED
      BY ZenonT(60), <3>1, <3>2, <1>2, <1>3
  <2>3. /\ \A d \in Conns, t \in Sides : ls.stat[d][t] \in Ref(n)
        /\ \A i \in 1 .. Len(ls.list) : ls.list[i] \in 1 .. n
    BY <1>t DEF ListType, n
  <2>4. Len(g) = n
    BY <1>3
  <2> QED
    BY ZenonT(60), <2>1, <2>2, <2>3, <2>4, <1>p DEF ListType
<1>7. OwnSlots(r)
  BY <1>p DEF WF, OwnSlots
<1>8. UsedListed(r)
  <2> SUFFICES ASSUME NEW z \in 1 .. n, ~ls.heap[z].empty
               PROVE  /\ Listed(ls, z)
                      /\ \E d \in Conns, t \in Sides :
                            ls.heap[z].id = <<d, t>> /\ ls.stat[d][t] = z
    <3>1. Len(g) = n
      BY ZenonT(60), <1>3
    <3> QED
      BY <3>1, <1>p, <1>4, <1>5 DEF UsedListed
  <2> QED
    BY DEF WF, UsedListed, n
<1>9. FreeIsNew(r)
  <2> SUFFICES ASSUME NEW z \in 1 .. n, Listed(ls, z), g[z].empty PROVE g[z] = newStat
    <3>1. Len(g) = n
      BY <1>3
    <3> QED
      BY <3>1, <1>p, <1>5 DEF FreeIsNew
  <2>1. z # f /\ z # b
    BY ZenonT(60), <1>2, <1>3
  <2> QED
    BY <2>1, <1>3 DEF WF, FreeIsNew, n
<1>r. \A d \in Conns, t \in Sides : ls.stat[d][t] # Null => ls.stat[d][t] \in 1 .. n
  BY ZenonT(60), <1>t DEF ListType, Ref, n
<1>own. \A d \in Conns, t \in Sides :
           /\ ls.stat[d][t] = f => d = c /\ t = "front"
           /\ ls.stat[d][t] = b => d = c /\ t = "back"
  <2>1. Reg(ls, c, "front") /\ Reg(ls, c, "back")
    BY SMTT(30), <1>h, <1>i DEF Reg, f, b
  <2> QED
    BY <2>1, <1>s, Registration DEF f, b
<1>10. OwnStat(r)
  <2> SUFFICES ASSUME NEW d \in Conns, NEW t \in Sides, ls.stat[d][t] # Null
               PROVE  /\ Listed(ls, ls.stat[d][t]) =>
                            ~g[ls.stat[d][t]].empty /\ g[ls.stat[d][t]].id = <<d, t>>
                      /\ Listed(ls, g[ls.stat[d][t]].nb) =>
                            g[ls.stat[d][t]].nb = ls.stat[d][Opp(t)]
    BY <1>p, <1>5 DEF OwnStat
  <2>1. ls.stat[d][t] \in 1 .. n
    BY ZenonT(60), <1>r
  <2>2. Listed(ls, ls.stat[d][t]) => ~g[ls.stat[d][t]].empty /\ g[ls.stat[d][t]].id = <<d, t>>
    <3>1. Listed(ls, ls.stat[d][t]) =>
              ~ls.heap[ls.stat[d][t]].empty /\ ls.heap[ls.stat[d][t]].id = <<d, t>>
      BY ZenonT(60) DEF WF, OwnStat
    <3> QED
      BY ZenonT(60), <2>1, <3>1, <1>4
  <2>3. CASE ls.stat[d][t] = f
    <3>1. d = c /\ t = "front" /\ ls.stat[d][Opp(t)] = b /\ g[ls.stat[d][t]].nb = b
      BY ZenonT(60), <2>3, <1>own, <1>2, <1>3 DEF Opp, b
    <3> QED
      BY ZenonT(60), <2>2, <3>1
  <2>4. CASE ls.stat[d][t] = b
    <3>1. d = c /\ t = "back" /\ ls.stat[d][Opp(t)] = f /\ g[ls.stat[d][t]].nb = f
      BY <2>4, <1>own, <1>2, <1>3 DEF Opp, f
    <3> QED
      BY ZenonT(60), <2>2, <3>1
  <2>5. CASE ls.stat[d][t] # f /\ ls.stat[d][t] # b
    <3>1. g[ls.stat[d][t]] = ls.heap[ls.stat[d][t]]
      BY ZenonT(60), <2>1, <2>5, <1>3
    <3> QED
      BY ZenonT(60), <2>2, <3>1 DEF WF, OwnStat
  <2> QED
    BY ZenonT(60), <2>3, <2>4, <2>5
<1>11. ASSUME NEW d \in Conns \ {c}, NEW t \in Sides PROVE Kept(ls, r, d, t)
  <2>1. ls.stat[d][t] # f /\ ls.stat[d][t] # b
    BY ZenonT(60), <1>own
  <2>2. ls.stat[d][t] # Null => g[ls.stat[d][t]] = ls.heap[ls.stat[d][t]]
    BY ZenonT(60), <2>1, <1>r, <1>3
  <2> QED
    BY ZenonT(60), <2>2, <1>p DEF Kept, Reg
<1>12. r.heap[f] = y /\ r.heap[b] = x
  BY <1>p, <1>3
<1> QED
  BY ZenonT(60), <1>p, <1>6, <1>7, <1>8, <1>9, <1>10, <1>11, <1>12 DEF WF, f, b, x, y
==============================================================================
