--------------------------- MODULE MailStoreProofs ---------------------------
(***************************************************************************)
(* What the answers of the store are worth, for every number of sessions,  *)
(* messages, folders, failures and restarts.                               *)
(*                                                                         *)
(* The argument: a message is saved by one thread at a time, and only      *)
(* before it is answered, so the files of an answered message never change *)
(* again.  UIDs drawn in a run are below the counter and pairwise          *)
(* different, whether they are in a file or in the hands of a thread.  A   *)
(* file is listed in the folder of its delivery from the step that makes   *)
(* it, so a load() that begins later meets it.                             *)
(***************************************************************************)
EXTENDS MailStore, SequenceTheorems, FiniteSetTheorems, TLAPS

Files == [st : {"none", "empty", "part", "full"}, uid : Nat, life : Nat]
Loads == [pc : {"idle", "load"}, folder : Folders \cup {None}, ls : Seq(Ids),
          list : SUBSET Ids, acked : SUBSET Ids]
Creates == {noCreate} \cup [pc : {"create", "mkdirs"}, folder : Folders]

(* The types the argument needs. *)
Types ==
    /\ folders \subseteq Folders /\ made \subseteq folders
    /\ dir \in [Folders -> Seq(Ids)] /\ file \in [Ids -> Files]
    /\ count \in Nat /\ life \in Nat /\ errors \in Nat
    /\ pc \in [Writers -> {"idle", "open", "uid", "create", "write", "failed"}]
    /\ msg \in [Writers -> Msgs \cup {None}]
    /\ idx \in [Writers -> Nat \ {0}] /\ uid \in [Writers -> Nat]
    /\ reply \in [Msgs -> {None, "OK", "NO", "cut"}]
    /\ rd \in [Readers -> Loads] /\ cr \in [Creators -> Creates]

(* A thread that saves has a message that is not answered and that no other *)
(* thread has.                                                              *)
Saving ==
    /\ \A w \in Writers : IF pc[w] = "idle" THEN msg[w] = None /\ idx[w] = 1
                          ELSE msg[w] \in Msgs /\ reply[msg[w]] = None
    /\ \A w \in Writers : pc[w] \in {"uid", "create", "write"} => idx[w] <= Len(targets[msg[w]])
    /\ \A v, w \in Writers : v # w /\ msg[v] # None => msg[v] # msg[w]

full(d) == file[d].st = "full"
drawn(w) == pc[w] \in {"create", "write"}

(* The UIDs of this run. *)
Uids ==
    /\ \A d \in Ids : full(d) => file[d].life <= life
    /\ \A d \in Ids : full(d) /\ file[d].life = life => file[d].uid < count
    /\ \A d, e \in Ids : full(d) /\ full(e) /\ d # e /\ file[d].life = file[e].life => file[d].uid # file[e].uid
    /\ \A w \in Writers : drawn(w) => uid[w] < count
    /\ \A w \in Writers, d \in Ids : drawn(w) /\ full(d) /\ file[d].life = life => file[d].uid # uid[w]
    /\ \A v, w \in Writers : v # w /\ drawn(v) /\ drawn(w) => uid[v] # uid[w]

(* The deliveries to folders that always existed, of parts that can be     *)
(* saved, which a thread or an answer has gone past without a whole file.  *)
Missed == {d \in Ids : /\ home(d) \in made /\ d \notin Skipped \cup NoText /\ ~full(d)
                       /\ \/ reply[d[1]] = "OK"
                          \/ \E w \in Writers : msg[w] = d[1] /\ d[2] < idx[w]}

Missing == IsFiniteSet(Missed) /\ Cardinality(Missed) <= errors

IInv == Types /\ Saving /\ Uids /\ Missing

-----------------------------------------------------------------------------
(* A delivery is a message and a position. *)
LEMMA Delivery ==
    ASSUME NEW m \in Msgs, NEW i \in 1..Len(targets[m])
    PROVE  <<m, i>> \in Ids
  BY DEF Ids

(* And nothing else is one. *)
LEMMA Deliveries ==
    ASSUME NEW d \in Ids
    PROVE  d[1] \in Msgs /\ d[2] \in 1..Len(targets[d[1]]) /\ d = <<d[1], d[2]>>
  BY DEF Ids

(* Its folder is a folder. *)
LEMMA Homes ==
    ASSUME NEW d \in Ids
    PROVE  home(d) \in Folders
  <1>1. d[1] \in Msgs /\ d[2] \in 1..Len(targets[d[1]])
    BY ZenonT(60), Deliveries
  <1>2. targets[d[1]] \in Seq(Folders)
    BY ZenonT(60), <1>1, StoreAssumption
  <1> QED BY <1>1, <1>2 DEF home

(* Inserting an element. *)
LEMMA Inserted ==
    ASSUME NEW S, NEW s \in Seq(S), NEW e \in S, NEW p \in 1..Len(s)+1
    PROVE  InsertAt(s, p, e) \in Seq(S)
  <1>1. p \in Nat /\ Len(s) \in Nat /\ 1 <= p /\ p <= Len(s) + 1
    OBVIOUS
  <1>2. SubSeq(s, 1, p - 1) \in Seq(S)
    BY <1>1, SubSeqProperties
  <1>3. SubSeq(s, p, Len(s)) \in Seq(S)
    BY <1>1, SubSeqProperties
  <1>4. <<e>> \in Seq(S)
    OBVIOUS
  <1>5. SubSeq(s, 1, p - 1) \o <<e>> \in Seq(S)
    BY ZenonT(60), <1>2, <1>4, ConcatProperties
  <1> QED BY ZenonT(60), <1>3, <1>5, ConcatProperties DEF InsertAt

(* The elements of a sequence are its first and those of the rest. *)
LEMMA HeadAndTail ==
    ASSUME NEW S, NEW s \in Seq(S), s # << >>
    PROVE  Head(s) \in S /\ Tail(s) \in Seq(S) /\ ToSet(s) \subseteq {Head(s)} \cup ToSet(Tail(s))
  <1>1. Head(s) = s[1] /\ Head(s) \in S /\ Tail(s) \in Seq(S) /\ Len(Tail(s)) = Len(s) - 1 /\ Len(s) \in Nat /\ Len(s) # 0
    OBVIOUS
  <1>2. ASSUME NEW k \in 1..Len(s), k # 1 PROVE \E j \in 1..Len(Tail(s)) : Tail(s)[j] = s[k]
    <2>1. k - 1 \in 1..Len(Tail(s)) /\ Tail(s)[k - 1] = s[k]
      BY <1>1, <1>2
    <2> QED BY ZenonT(60), <2>1
  <1>3. DOMAIN s = 1..Len(s) /\ DOMAIN Tail(s) = 1..Len(Tail(s))
    BY <1>1
  <1> QED BY <1>1, <1>2, <1>3, Zenon DEF ToSet

(* Nothing is missed that was not missed before, or one delivery for a     *)
(* failed operation.                                                       *)
LEMMA NoneMissed ==
    ASSUME IInv, Missed' \subseteq Missed, errors' = errors
    PROVE  Missing'
  <1>1. IsFiniteSet(Missed) /\ Cardinality(Missed) <= errors /\ errors \in Nat
    BY DEF IInv, Missing, Types
  <1>2. IsFiniteSet(Missed') /\ Cardinality(Missed') <= Cardinality(Missed)
    BY <1>1, FS_Subset
  <1>3. Cardinality(Missed') \in Nat /\ Cardinality(Missed) \in Nat
    BY ZenonT(60), <1>1, <1>2, FS_CardinalityType
  <1> QED BY <1>1, <1>2, <1>3 DEF Missing

(* One more delivery is missed for one more failed operation. *)
LEMMA OneMissed ==
    ASSUME IInv, NEW x, Missed' \subseteq Missed \cup {x}, errors' = errors + 1
    PROVE  Missing'
  <1>1. IsFiniteSet(Missed) /\ Cardinality(Missed) <= errors /\ errors \in Nat
    BY DEF IInv, Missing, Types
  <1>2. IsFiniteSet(Missed \cup {x}) /\ Cardinality(Missed \cup {x}) <= Cardinality(Missed) + 1 /\ Cardinality(Missed) \in Nat
    BY <1>1, FS_AddElement, FS_CardinalityType
  <1>3. IsFiniteSet(Missed') /\ Cardinality(Missed') <= Cardinality(Missed \cup {x})
    BY <1>2, FS_Subset
  <1>4. Cardinality(Missed') \in Nat /\ Cardinality(Missed \cup {x}) \in Nat
    BY ZenonT(60), <1>2, <1>3, FS_CardinalityType
  <1> QED BY <1>1, <1>2, <1>3, <1>4 DEF Missing

-----------------------------------------------------------------------------
(* An empty store. *)
LEMMA Initially == ASSUME Init PROVE IInv
  <1>1. Types
    BY StoreAssumption DEF Init, Types, Files, Loads, Creates, noFile, noLoad, noCreate
  <1>2. Saving
    BY DEF Init, Saving
  <1>3. \A d \in Ids : ~full(d)
    BY DEF Init, full, noFile
  <1>4. Uids
    BY <1>3 DEF Init, Uids, drawn
  <1>6. Missed = {}
    <2>1. ASSUME NEW d \in Ids PROVE reply[d[1]] # "OK" /\ ~\E w \in Writers : msg[w] = d[1]
      BY Deliveries, StoreAssumption DEF Init
    <2> QED BY <2>1 DEF Missed
  <1>7. Missing
    BY <1>6, FS_EmptySet DEF Missing, Init
  <1> QED BY ZenonT(60), <1>1, <1>2, <1>4, <1>7 DEF IInv

(* A thread receives a message. *)
LEMMA Receives ==
    ASSUME IInv, NEW w \in Writers, NEW m \in Msgs, receive(w, m)
    PROVE  IInv'
  <1> USE DEF receive, to, fsVars
  <1>1. Types'
    BY DEF IInv, Types
  <1>2. Saving'
    BY ZenonT(60), StoreAssumption DEF IInv, Types, Saving
  <1>3. Uids'
    BY DEF IInv, Types, Uids, drawn, full
  <1>5. Missed' \subseteq Missed
    <2> SUFFICES ASSUME NEW d \in Ids, d \in Missed' PROVE d \in Missed
      BY DEF Missed
    <2>1. \A v \in Writers : msg'[v] = d[1] /\ d[2] < idx[v] => v # w \/ d[2] < 1
      BY DEF IInv, Saving, Types
    <2>2. d[2] \in Nat /\ d[2] >= 1
      BY Deliveries
    <2> QED BY <2>1, <2>2 DEF Missed, full, IInv, Types
  <1>6. Missing'
    BY ZenonT(60), <1>5, NoneMissed
  <1> QED BY ZenonT(60), <1>1, <1>2, <1>3, <1>6 DEF IInv

(* A thread passes over a part, or looks for its next folder. *)
LEMMA Opens ==
    ASSUME IInv, NEW w \in Writers, skip(w) \/ getFolder(w)
    PROVE  IInv'
  <1>a. /\ UNCHANGED <<folders, dir, file, count, msg, uid, reply, rd, cr, errors, life>>
        /\ pc[w] = "open" /\ idx[w] <= Len(targets[msg[w]])
    BY DEF skip, getFolder, more, fsVars
  <1>b. \/ pc' = [pc EXCEPT ![w] = "uid"] /\ idx' = idx
        \/ /\ pc' = [pc EXCEPT ![w] = "open"] /\ idx' = [idx EXCEPT ![w] = @ + 1]
           /\ target(w) \notin folders \/ at(w) \in Skipped
    BY DEF skip, getFolder, to, next
  <1>0. msg[w] \in Msgs /\ reply[msg[w]] = None /\ idx[w] \in Nat \ {0}
    BY ZenonT(60), <1>a DEF IInv, Saving, Types
  <1>1. Types'
    <2>1. pc' \in [Writers -> {"idle", "open", "uid", "create", "write", "failed"}]
      BY ZenonT(60), <1>b DEF IInv, Types
    <2>2. idx' \in [Writers -> Nat \ {0}]
      BY <1>b DEF IInv, Types
    <2> QED BY ZenonT(60), <1>a, <2>1, <2>2 DEF IInv, Types
  <1>2. Saving'
    <2>1. \A v \in Writers : v # w => pc'[v] = pc[v] /\ idx'[v] = idx[v]
      BY ZenonT(60), <1>b DEF IInv, Types
    <2>2. pc'[w] \in {"uid", "open"} /\ (pc'[w] = "uid" => idx'[w] = idx[w])
      BY ZenonT(60), <1>b DEF IInv, Types
    <2> QED BY ZenonT(60), <1>0, <1>a, <2>1, <2>2 DEF IInv, Saving
  <1>3. Uids'
    <2>1. \A v \in Writers : drawn(v)' => drawn(v)
      BY ZenonT(60), <1>b DEF IInv, Types, drawn
    <2> QED BY ZenonT(60), <1>a, <2>1 DEF IInv, Uids, full
  <1>5. Missed' \subseteq Missed
    <2> SUFFICES ASSUME NEW d \in Ids, d \in Missed' PROVE d \in Missed
      BY DEF Missed
    <2>1. d[2] \in Nat
      BY SMTT(30), Deliveries
    <2>2. CASE idx' = idx
      BY ZenonT(60), <1>a, <2>2 DEF Missed, full
    <2>3. CASE (target(w) \notin folders \/ at(w) \in Skipped) /\ idx' = [idx EXCEPT ![w] = @ + 1]
      <3>0. d = <<d[1], d[2]>> /\ home(d) \in folders /\ d \notin Skipped
        BY ZenonT(60), Deliveries DEF Missed, IInv, Types
      <3>1. ~(d[1] = msg[w] /\ d[2] = idx[w])
        BY ZenonT(60), <2>3, <3>0 DEF home, target, at
      <3> QED BY SMTT(30), <1>a, <2>1, <2>3, <3>1 DEF Missed, full, IInv, Types
    <2> QED BY ZenonT(60), <1>b, <2>2, <2>3
  <1>6. Missing'
    BY ZenonT(60), <1>a, <1>5, NoneMissed
  <1> QED BY ZenonT(60), <1>1, <1>2, <1>3, <1>6 DEF IInv

(* A thread draws a UID. *)
LEMMA Draws ==
    ASSUME IInv, NEW w \in Writers, lUID_get(w)
    PROVE  IInv'
  <1> USE DEF lUID_get, to, fsVars
  <1>1. Types'
    BY DEF IInv, Types
  <1>2. Saving'
    BY ZenonT(60) DEF IInv, Types, Saving
  <1>3. Uids'
    BY DEF IInv, Types, Uids, drawn, full, Files
  <1>5. Missed' \subseteq Missed
    BY DEF Missed, full
  <1>6. Missing'
    BY ZenonT(60), <1>5, NoneMissed
  <1> QED BY ZenonT(60), <1>1, <1>2, <1>3, <1>6 DEF IInv

(* The delivery a thread is at. *)
LEMMA AtDelivery ==
    ASSUME IInv, NEW w \in Writers, pc[w] \in {"uid", "create", "write"}
    PROVE  /\ at(w) \in Ids /\ at(w)[1] = msg[w] /\ at(w)[2] = idx[w]
           /\ msg[w] \in Msgs /\ reply[msg[w]] = None /\ idx[w] \in Nat
           /\ target(w) \in Folders /\ target(w) = targets[at(w)[1]][at(w)[2]]
           /\ \A v \in Writers : msg[v] = msg[w] => v = w
  <1>1. /\ msg[w] \in Msgs /\ reply[msg[w]] = None
        /\ idx[w] \in Nat \ {0} /\ idx[w] <= Len(targets[msg[w]])
        /\ \A v \in Writers : msg[v] = msg[w] => v = w
    BY ZenonT(60), StoreAssumption DEF IInv, Saving, Types
  <1>2. targets[msg[w]] \in Seq(Folders)
    BY ZenonT(60), <1>1, StoreAssumption
  <1>3. idx[w] \in 1..Len(targets[msg[w]])
    BY SMTT(30), <1>1, <1>2
  <1>4. targets[msg[w]][idx[w]] \in Folders
    BY SMTT(30), <1>2, <1>3
  <1> QED BY ZenonT(60), <1>1, <1>3, <1>4, Delivery DEF at, target

(* A step of a thread that saves, which leaves all files but its own alone *)
(* and goes on with the same delivery or with the next.                    *)
LEMMA Steps ==
    ASSUME IInv, NEW w \in Writers, pc[w] \in {"create", "write"},
           UNCHANGED <<folders, count, msg, uid, reply, rd, cr, life>>,
           \A d \in Ids : d # at(w) => file'[d] = file[d],
           \A v \in Writers : v # w => pc'[v] = pc[v] /\ idx'[v] = idx[v],
           errors' \in {errors, errors + 1},
           \/ pc'[w] = "write" /\ idx'[w] = idx[w] /\ file'[at(w)].st # "full" /\ errors' = errors
           \/ pc'[w] = "open" /\ idx'[w] = idx[w] + 1 /\ file'[at(w)].st = "full"
              /\ file'[at(w)].uid = uid[w] /\ file'[at(w)].life = life /\ errors' = errors
           \/ pc'[w] = "open" /\ idx'[w] = idx[w] + 1 /\ file' = file /\ errors' = errors /\ at(w) \in NoText
           \/ pc'[w] = "open" /\ idx'[w] = idx[w] + 1 /\ file' = file /\ errors' = errors + 1,
           Types'
    PROVE  IInv'
  <1>0. /\ at(w) \in Ids /\ at(w)[1] = msg[w] /\ at(w)[2] = idx[w]
        /\ msg[w] \in Msgs /\ reply[msg[w]] = None /\ idx[w] \in Nat
        /\ \A v \in Writers : msg[v] = msg[w] => v = w
    BY ZenonT(60), AtDelivery
  <1>2. Saving'
    <2>1. pc'[w] \in {"write", "open"} /\ (pc'[w] = "write" => idx'[w] = idx[w])
      BY ZenonT(60)
    <2> QED BY SMTT(30), <1>0, <2>1 DEF IInv, Saving
  <1>3. Uids'
    <2>0. \A v \in Writers : drawn(v)' => drawn(v)
      BY ZenonT(60) DEF drawn
    <2>1. \A d \in Ids : file[d] \in Files
      BY ZenonT(60) DEF IInv, Types
    <2>2. CASE pc'[w] = "write" /\ file'[at(w)].st # "full"
      <3>1. \A d \in Ids : full(d)' => full(d) /\ file'[d] = file[d]
        BY ZenonT(60), <2>2 DEF full
      <3> QED BY SMTT(30), <2>0, <3>1 DEF IInv, Uids
    <2>3. CASE pc'[w] = "open" /\ file'[at(w)].st = "full" /\ file'[at(w)].uid = uid[w] /\ file'[at(w)].life = life
      <3>1. \A d \in Ids : d # at(w) /\ full(d)' => full(d) /\ file'[d] = file[d]
        BY ZenonT(60) DEF full
      <3>2. ~drawn(w)' /\ drawn(w)
        BY ZenonT(60), <2>3 DEF drawn
      <3>3. uid[w] < count /\ \A d \in Ids : full(d) /\ file[d].life = life => file[d].uid # uid[w]
        BY ZenonT(60), <3>2 DEF IInv, Uids
      <3>4. life \in Nat /\ \A v \in Writers : v # w /\ drawn(v) => uid[v] # uid[w]
        BY ZenonT(60), <3>2 DEF IInv, Uids, Types
      <3>5. (\A d \in Ids : full(d) => file[d].life <= life)'
        BY SMTT(30), <1>0, <2>3, <3>1, <3>4 DEF IInv, Uids
      <3>6. (\A d \in Ids : full(d) /\ file[d].life = life => file[d].uid < count)'
        BY ZenonT(60), <1>0, <2>3, <3>1, <3>3 DEF IInv, Uids
      <3>7. (\A d, e \in Ids : full(d) /\ full(e) /\ d # e /\ file[d].life = file[e].life => file[d].uid # file[e].uid)'
        BY SMTT(30), <1>0, <2>3, <3>1, <3>3 DEF IInv, Uids
      <3>8. (\A v \in Writers : drawn(v) => uid[v] < count)'
        BY ZenonT(60), <2>0 DEF IInv, Uids
      <3>9. (\A v \in Writers, d \in Ids : drawn(v) /\ full(d) /\ file[d].life = life => file[d].uid # uid[v])'
        <4> SUFFICES ASSUME NEW v \in Writers, NEW d \in Ids, drawn(v)', full(d)', file'[d].life = life
                     PROVE  file'[d].uid # uid[v]
          BY ZenonT(60)
        <4>1. v # w /\ drawn(v)
          BY ZenonT(60), <2>0, <3>2
        <4>2. CASE d = at(w)
          BY ZenonT(60), <2>3, <3>4, <4>1, <4>2
        <4>3. CASE d # at(w)
          BY SMTT(30), <3>1, <4>1, <4>3 DEF IInv, Uids
        <4> QED BY ZenonT(60), <4>2, <4>3
      <3>10. (\A u, v \in Writers : u # v /\ drawn(u) /\ drawn(v) => uid[u] # uid[v])'
        BY ZenonT(60), <2>0 DEF IInv, Uids
      <3> QED BY ZenonT(60), <3>5, <3>6, <3>7, <3>8, <3>9, <3>10 DEF Uids
    <2>4. CASE pc'[w] = "open" /\ file' = file
      BY ZenonT(60), <2>0, <2>4 DEF IInv, Uids, full
    <2> QED BY ZenonT(60), <2>2, <2>3, <2>4
  <1>5. ASSUME NEW d \in Ids, d \in Missed', d # at(w) PROVE d \in Missed
    <2>1. full(d)' <=> full(d)
      BY ZenonT(60), <1>5 DEF full
    <2>2. d[1] = msg[w] => d[2] # idx[w]
      BY ZenonT(60), <1>0, <1>5, Deliveries DEF at
    <2>3. d[2] \in Nat
      BY SMTT(30), Deliveries
    <2>4. ASSUME NEW v \in Writers, msg[v] = d[1], d[2] < idx'[v]
          PROVE  d[2] < idx[v]
      BY SMTT(30), <1>0, <2>2, <2>3, <2>4
    <2> QED BY ZenonT(60), <1>5, <2>1, <2>4 DEF Missed
  <1>6. Missing'
    <2>1. CASE errors' = errors
      <3>1. at(w) \notin Missed'
        <4>1. CASE file'[at(w)].st = "full"
          BY ZenonT(60), <4>1 DEF Missed, full
        <4>2. CASE pc'[w] = "write" /\ idx'[w] = idx[w]
          BY SMTT(30), <1>0, <4>2, StoreAssumption DEF Missed
        <4>3. CASE at(w) \in NoText
          BY ZenonT(60), <4>3 DEF Missed
        <4> QED BY SMTT(30), <2>1, <4>1, <4>2, <4>3 DEF IInv, Types
      <3>2. Missed' \subseteq Missed
        BY ZenonT(60), <1>5, <3>1 DEF Missed
      <3> QED BY ZenonT(60), <2>1, <3>2, NoneMissed
    <2>2. CASE errors' = errors + 1
      <3>1. Missed' \subseteq Missed \cup {at(w)}
        BY ZenonT(60), <1>5 DEF Missed
      <3> QED BY ZenonT(60), <2>2, <3>1, OneMissed
    <2> QED BY ZenonT(60), <2>1, <2>2
  <1> QED BY ZenonT(60), <1>2, <1>3, <1>6 DEF IInv

(* A thread makes its file. *)
LEMMA Makes ==
    ASSUME IInv, NEW w \in Writers, createMessageXML(w)
    PROVE  IInv'
  <1>0. pc[w] = "create" /\ UNCHANGED <<folders, count, msg, uid, reply, rd, cr, life>>
    BY ZenonT(60) DEF createMessageXML
  <1>1. at(w) \in Ids /\ target(w) \in Folders /\ idx[w] \in Nat /\ msg[w] \in Msgs
    BY ZenonT(60), <1>0, AtDelivery
  <1>2. CASE /\ \E p \in {Len(dir[target(w)]), Len(dir[target(w)]) + 1} \ {0} :
                   dir' = [dir EXCEPT ![target(w)] = InsertAt(@, p, at(w))]
             /\ file' = [file EXCEPT ![at(w)] = [st |-> "empty", uid |-> 0, life |-> 0]]
             /\ pc' = [pc EXCEPT ![w] = "write"] /\ UNCHANGED <<idx, errors>>
    <2>1. dir[target(w)] \in Seq(Ids)
      BY ZenonT(60), <1>1 DEF IInv, Types
    <2>2. dir' \in [Folders -> Seq(Ids)]
      <3>1. PICK p \in {Len(dir[target(w)]), Len(dir[target(w)]) + 1} \ {0} :
                   dir' = [dir EXCEPT ![target(w)] = InsertAt(@, p, at(w))]
        BY ZenonT(60), <1>2
      <3>2. p \in 1..Len(dir[target(w)]) + 1
        BY <2>1
      <3>3. InsertAt(dir[target(w)], p, at(w)) \in Seq(Ids)
        BY ZenonT(60), <1>1, <2>1, <3>2, Inserted
      <3> QED BY ZenonT(60), <1>1, <3>1, <3>3 DEF IInv, Types
    <2>3. file' \in [Ids -> Files] /\ file'[at(w)].st = "empty"
      BY ZenonT(60), <1>1, <1>2 DEF IInv, Types, Files
    <2>4. pc' \in [Writers -> {"idle", "open", "uid", "create", "write", "failed"}] /\ pc'[w] = "write"
      BY ZenonT(60), <1>2 DEF IInv, Types
    <2>5. Types'
      BY ZenonT(60), <1>0, <1>2, <2>2, <2>3, <2>4 DEF IInv, Types
    <2>6. \A d \in Ids : d # at(w) => file'[d] = file[d]
      BY ZenonT(60), <1>2 DEF IInv, Types
    <2>7. \A v \in Writers : v # w => pc'[v] = pc[v] /\ idx'[v] = idx[v]
      BY ZenonT(60), <1>2 DEF IInv, Types
    <2> QED BY ZenonT(60), <1>0, <1>2, <2>3, <2>4, <2>5, <2>6, <2>7, Steps
  <1>3. CASE /\ errors' = errors + 1 /\ pc' = [pc EXCEPT ![w] = "open"]
             /\ idx' = [idx EXCEPT ![w] = @ + 1] /\ UNCHANGED <<dir, file>>
    <2>1. /\ pc' \in [Writers -> {"idle", "open", "uid", "create", "write", "failed"}] /\ pc'[w] = "open"
          /\ idx' \in [Writers -> Nat \ {0}] /\ idx'[w] = idx[w] + 1
      BY <1>3 DEF IInv, Types
    <2>2. Types'
      BY SMTT(30), <1>0, <1>3, <2>1 DEF IInv, Types
    <2>3. \A v \in Writers : v # w => pc'[v] = pc[v] /\ idx'[v] = idx[v]
      BY ZenonT(60), <1>3 DEF IInv, Types
    <2> QED BY ZenonT(60), <1>0, <1>3, <2>1, <2>2, <2>3, Steps
  <1> QED BY ZenonT(60), <1>2, <1>3 DEF createMessageXML, fails, next, to

(* A thread writes its file. *)
LEMMA Writes ==
    ASSUME IInv, NEW w \in Writers, save(w)
    PROVE  IInv'
  <1>0. pc[w] = "write" /\ UNCHANGED <<folders, dir, count, msg, uid, reply, rd, cr, life>>
    BY ZenonT(60) DEF save
  <1>1. at(w) \in Ids /\ idx[w] \in Nat /\ msg[w] \in Msgs /\ file[at(w)] \in Files
    BY ZenonT(60), <1>0, AtDelivery DEF IInv, Types
  <1>2. CASE file' = [file EXCEPT ![at(w)].st = "part"] /\ UNCHANGED <<pc, idx, errors>>
    <2>1. file' \in [Ids -> Files] /\ file'[at(w)].st = "part"
      BY ZenonT(60), <1>1, <1>2 DEF IInv, Types, Files
    <2>2. Types'
      BY ZenonT(60), <1>0, <1>2, <2>1 DEF IInv, Types
    <2>3. \A d \in Ids : d # at(w) => file'[d] = file[d]
      BY ZenonT(60), <1>2 DEF IInv, Types
    <2> QED BY ZenonT(60), <1>0, <1>2, <2>1, <2>2, <2>3, Steps
  <1> DEFINE moves == /\ pc' = [pc EXCEPT ![w] = "open"] /\ idx' = [idx EXCEPT ![w] = @ + 1]
  <1>3. ASSUME moves
        PROVE  /\ pc' \in [Writers -> {"idle", "open", "uid", "create", "write", "failed"}] /\ pc'[w] = "open"
               /\ idx' \in [Writers -> Nat \ {0}] /\ idx'[w] = idx[w] + 1
               /\ \A v \in Writers : v # w => pc'[v] = pc[v] /\ idx'[v] = idx[v]
    BY SMTT(30), <1>3 DEF IInv, Types
  <1> HIDE DEF moves
  <1>4. CASE /\ file' = [file EXCEPT ![at(w)] = [st |-> "full", uid |-> uid[w], life |-> life]]
             /\ moves /\ UNCHANGED errors
    <2>1. /\ file' \in [Ids -> Files] /\ file'[at(w)].st = "full"
          /\ file'[at(w)].uid = uid[w] /\ file'[at(w)].life = life
      BY ZenonT(60), <1>1, <1>4 DEF IInv, Types, Files
    <2>2. Types'
      BY ZenonT(60), <1>0, <1>3, <1>4, <2>1 DEF IInv, Types
    <2>3. \A d \in Ids : d # at(w) => file'[d] = file[d]
      BY ZenonT(60), <1>4 DEF IInv, Types
    <2> QED BY ZenonT(60), <1>0, <1>3, <1>4, <2>1, <2>2, <2>3, Steps
  <1>5. CASE errors' = errors + 1 /\ moves /\ UNCHANGED file
    <2>1. Types'
      BY SMTT(30), <1>0, <1>3, <1>5 DEF IInv, Types
    <2> QED BY ZenonT(60), <1>0, <1>3, <1>5, <2>1, Steps
  <1>6. CASE at(w) \in NoText /\ moves /\ UNCHANGED <<file, errors>>
    <2>1. Types'
      BY ZenonT(60), <1>0, <1>3, <1>6 DEF IInv, Types
    <2> QED BY ZenonT(60), <1>0, <1>3, <1>6, <2>1, Steps
  <1> QED BY ZenonT(60), <1>2, <1>4, <1>5, <1>6 DEF save, fails, next, to, moves

(* A message is answered. *)
LEMMA Responds ==
    ASSUME IInv, NEW w \in Writers, respond(w)
    PROVE  IInv'
  <1>0. /\ UNCHANGED <<folders, dir, file, count, rd, cr, errors, life>>
        /\ pc' = [pc EXCEPT ![w] = "idle"] /\ msg' = [msg EXCEPT ![w] = None]
        /\ idx' = [idx EXCEPT ![w] = 1] /\ uid' = [uid EXCEPT ![w] = 0]
        /\ pc[w] # "idle"
    BY ZenonT(60) DEF respond, fsVars, to
  <1>1. /\ msg[w] \in Msgs /\ reply[msg[w]] = None
        /\ \A v \in Writers : v # w => msg[v] # msg[w]
    BY ZenonT(60), <1>0, StoreAssumption DEF IInv, Saving
  <1>2. \/ /\ reply' = [reply EXCEPT ![msg[w]] = "OK"] /\ idx[w] > Len(targets[msg[w]])
        \/ reply' = [reply EXCEPT ![msg[w]] = "NO"]
    BY DEF respond, answer
  <1>3. reply' \in [Msgs -> {None, "OK", "NO", "cut"}] /\ \A m \in Msgs : m # msg[w] => reply'[m] = reply[m]
    BY Zenon, <1>1, <1>2 DEF IInv, Types
  <1>4. Types'
    BY SMTT(30), <1>0, <1>3 DEF IInv, Types
  <1>5. Saving'
    BY SMTT(30), <1>0, <1>1, <1>3, StoreAssumption DEF IInv, Types, Saving
  <1>6. Uids'
    <2>1. \A v \in Writers : drawn(v)' => v # w /\ drawn(v) /\ uid'[v] = uid[v]
      BY ZenonT(60), <1>0 DEF IInv, Types, drawn
    <2> QED BY <1>0, <2>1 DEF IInv, Uids, full
  <1>8. Missed' \subseteq Missed
    <2> SUFFICES ASSUME NEW d \in Ids, d \in Missed' PROVE d \in Missed
      BY DEF Missed
    <2>0. d[1] \in Msgs /\ d[2] \in Nat /\ 1 <= d[2] /\ d[2] <= Len(targets[d[1]]) /\ Len(targets[d[1]]) \in Nat
      BY SMTT(30), Deliveries, StoreAssumption
    <2>1. CASE d[1] # msg[w]
      <3>1. \A v \in Writers : msg'[v] = d[1] => v # w /\ msg[v] = d[1] /\ idx'[v] = idx[v]
        BY ZenonT(60), <1>0, <2>0, StoreAssumption DEF IInv, Types
      <3> QED BY ZenonT(60), <1>0, <1>3, <2>0, <2>1, <3>1 DEF Missed, full
    <2>2. CASE d[1] = msg[w]
      <3>1. \A v \in Writers : msg'[v] # d[1]
        BY ZenonT(60), <1>0, <1>1, <2>0, <2>2, StoreAssumption DEF IInv, Types
      <3>2. reply'[d[1]] = "OK"
        BY ZenonT(60), <3>1 DEF Missed
      <3>3. idx[w] > Len(targets[msg[w]]) /\ idx[w] \in Nat
        BY ZenonT(60), <1>1, <1>2, <2>2, <3>2 DEF IInv, Types
      <3>4. d[2] < idx[w]
        BY SMTT(30), <2>0, <2>2, <3>3
      <3> QED BY ZenonT(60), <1>0, <2>2, <3>4 DEF Missed, full
    <2> QED BY ZenonT(60), <2>1, <2>2
  <1>9. Missing'
    BY ZenonT(60), <1>0, <1>8, NoneMissed
  <1> QED BY ZenonT(60), <1>4, <1>5, <1>6, <1>9 DEF IInv

-----------------------------------------------------------------------------
(* Steps of readers and creators leave the savers' part alone. *)
LEMMA SameWriters ==
    ASSUME IInv, UNCHANGED <<dir, file, count, pc, msg, idx, uid, reply, life>>,
           errors' >= errors, errors' \in Nat
    PROVE  Saving' /\ Uids' /\ Missing'
  <1>1. Saving'
    BY ZenonT(60) DEF IInv, Saving
  <1>2. Uids'
    BY ZenonT(60) DEF IInv, Uids, drawn, full
  <1>3. Missed' = Missed
    BY ZenonT(60) DEF Missed, full
  <1>4. IsFiniteSet(Missed) /\ Cardinality(Missed) <= errors /\ errors \in Nat /\ Cardinality(Missed) \in Nat
    BY ZenonT(60), FS_CardinalityType DEF IInv, Missing, Types
  <1>5. Missing'
    BY <1>3, <1>4 DEF Missing
  <1> QED BY ZenonT(60), <1>1, <1>2, <1>5

(* A file is loaded: it is taken off the names to come and, if it parses,  *)
(* into the list.                                                          *)
LEMMA Loaded ==
    ASSUME IInv, NEW r \in Readers, load(r)
    PROVE  \E l \in Loads : /\ rd' = [rd EXCEPT ![r] = l] /\ l.acked = rd[r].acked
                            /\ ToSet(rd[r].ls) \subseteq {Head(rd[r].ls)} \cup ToSet(l.ls)
                            /\ rd[r].list \subseteq l.list
                            /\ parses(Head(rd[r].ls)) => Head(rd[r].ls) \in l.list
  <1> DEFINE d0 == Head(rd[r].ls)
             n  == IF parses(d0) THEN rd[r].list \cup {d0} ELSE rd[r].list
             l  == [rd[r] EXCEPT !.ls = Tail(@), !.list = n]
  <1>0. rd[r] \in Loads /\ rd[r].ls \in Seq(Ids) /\ rd[r].ls # << >>
    BY ZenonT(60) DEF IInv, Types, Loads, load
  <1>1. rd \in [Readers -> Loads]
    BY DEF IInv, Types
  <1>2. rd' = [rd EXCEPT ![r] = l]
    <2> DEFINE g == [rd EXCEPT ![r] = [rd[r] EXCEPT !.ls = Tail(rd[r].ls)]]
    <2>1. rd' = [g EXCEPT ![r] = [g[r] EXCEPT !.list = n]]
      BY ZenonT(60) DEF load
    <2>2. g[r] = [rd[r] EXCEPT !.ls = Tail(rd[r].ls)]
      BY ZenonT(60), <1>1
    <2>3. [g[r] EXCEPT !.list = n] = l
      BY ZenonT(60), <2>2
    <2>4. \A k : [g EXCEPT ![r] = k] = [rd EXCEPT ![r] = k]
      BY ZenonT(60), <1>1
    <2> QED BY ZenonT(60), <2>1, <2>3, <2>4
  <1>3. d0 \in Ids /\ Tail(rd[r].ls) \in Seq(Ids) /\ ToSet(rd[r].ls) \subseteq {d0} \cup ToSet(Tail(rd[r].ls))
    BY ZenonT(60), <1>0, HeadAndTail
  <1>4. n \subseteq Ids /\ rd[r].list \subseteq n /\ (parses(d0) => d0 \in n)
    BY ZenonT(60), <1>0, <1>3 DEF Loads
  <1> HIDE DEF n
  <1>5. l \in Loads
    BY ZenonT(60), <1>0, <1>3, <1>4 DEF Loads
  <1>6. l.acked = rd[r].acked /\ l.ls = Tail(rd[r].ls) /\ l.list = n
    BY ZenonT(60), <1>0 DEF Loads
  <1> HIDE DEF l, d0
  <1>7. /\ rd[r].list \subseteq l.list /\ (parses(d0) => d0 \in l.list)
        /\ ToSet(rd[r].ls) \subseteq {d0} \cup ToSet(l.ls)
    BY ZenonT(60), <1>3, <1>4, <1>6
  <1> QED BY ZenonT(60), <1>2, <1>5, <1>6, <1>7 DEF d0

(* A folder is listed, a file loaded, a folder closed. *)
LEMMA Reads ==
    ASSUME IInv, NEW r \in Readers, reader(r)
    PROVE  IInv'
  <1>0. UNCHANGED <<folders, dir, file, count, pc, msg, idx, uid, reply, cr, errors, life>>
    BY ZenonT(60) DEF reader, list, load, clear, fsVars, wrVars
  <1>1. Saving' /\ Uids' /\ Missing'
    BY SMTT(30), <1>0, SameWriters DEF IInv, Types
  <1>2. ASSUME NEW l \in Loads, rd' = [rd EXCEPT ![r] = l] PROVE IInv'
    <2>1. Types'
      BY Zenon, <1>0, <1>2 DEF IInv, Types
    <2> QED BY ZenonT(60), <1>1, <2>1 DEF IInv
  <1>3. ASSUME NEW f \in Folders, list(r, f) PROVE IInv'
    <2> DEFINE l == [noLoad EXCEPT !.pc = "load", !.folder = f, !.ls = dir[f], !.acked = Acked(f)]
    <2>1. rd' = [rd EXCEPT ![r] = l]
      BY ZenonT(60), <1>3 DEF list
    <2>2. dir[f] \in Seq(Ids) /\ Acked(f) \subseteq Ids
      BY DEF IInv, Types, Acked
    <2>3. noLoad \in Loads
      BY DEF noLoad, Loads
    <2>4. l \in Loads
      BY ZenonT(60), <2>2, <2>3 DEF Loads
    <2> HIDE DEF l
    <2> QED BY ZenonT(60), <1>2, <2>1, <2>4
  <1>4. ASSUME load(r) PROVE IInv'
    BY ZenonT(60), <1>2, <1>4, Loaded
  <1>5. ASSUME clear(r) PROVE IInv'
    <2>1. noLoad \in Loads
      BY DEF noLoad, Loads
    <2> QED BY ZenonT(60), <1>2, <1>5, <2>1 DEF clear
  <1> QED BY ZenonT(60), <1>3, <1>4, <1>5 DEF reader

(* The steps of CREATE. *)
LEMMA MakesFolder ==
    ASSUME IInv, NEW c \in Creators, creator(c)
    PROVE  IInv'
  <1>0. UNCHANGED <<dir, file, count, pc, msg, idx, uid, reply, rd, life>>
    BY DEF creator, create_get, create, mkdirs, fsVars, wrVars
  <1>a. cr \in [Creators -> Creates] /\ cr[c] \in Creates /\ (cr[c].pc # "idle" => cr[c].folder \in Folders)
    BY DEF IInv, Types, Creates, noCreate
  <1>1. /\ folders \subseteq folders' /\ folders' \subseteq Folders
        /\ errors' \in Nat /\ errors' >= errors
    BY <1>a DEF creator, create_get, create, mkdirs, fsVars, fails, IInv, Types
  <1>2. cr' \in [Creators -> Creates]
    <2>1. \E k \in Creates : cr' = [cr EXCEPT ![c] = k]
      <3>1. ASSUME NEW f \in Folders, create_get(c, f) PROVE [pc |-> "create", folder |-> f] \in Creates
        BY DEF Creates
      <3>2. ASSUME create(c) PROVE (IF cr[c].folder \in folders THEN noCreate ELSE [cr[c] EXCEPT !.pc = "mkdirs"]) \in Creates
        BY <1>a, <3>2 DEF create, Creates, noCreate
      <3>3. noCreate \in Creates
        BY DEF Creates
      <3> QED BY ZenonT(60), <3>1, <3>2, <3>3 DEF creator, create_get, create, mkdirs
    <2> QED BY ZenonT(60), <1>a, <2>1
  <1>3. Types'
    BY ZenonT(60), <1>0, <1>1, <1>2 DEF IInv, Types
  <1>4. Saving' /\ Uids' /\ Missing'
    BY ZenonT(60), <1>0, <1>1, SameWriters
  <1> QED BY ZenonT(60), <1>3, <1>4 DEF IInv

(* The program is restarted: messages that were being saved are cut, the   *)
(* files stay, and their UIDs belong to an earlier run.                    *)
LEMMA Restarts ==
    ASSUME IInv, restart
    PROVE  IInv'
  <1>0. /\ UNCHANGED <<folders, dir, file, errors>> /\ count' = 1 /\ life' = life + 1
        /\ pc' = [w \in Writers |-> "idle"] /\ msg' = [w \in Writers |-> None]
        /\ idx' = [w \in Writers |-> 1] /\ uid' = [w \in Writers |-> 0]
        /\ reply' = [m \in Msgs |-> IF \E w \in Writers : msg[w] = m THEN "cut" ELSE reply[m]]
        /\ rd' = [r \in Readers |-> noLoad] /\ cr' = [c \in Creators |-> noCreate]
    BY ZenonT(60) DEF restart, fsVars
  <1>1. reply' \in [Msgs -> {None, "OK", "NO", "cut"}] /\ rd' \in [Readers -> Loads] /\ cr' \in [Creators -> Creates]
    <2>1. reply \in [Msgs -> {None, "OK", "NO", "cut"}]
      BY ZenonT(60) DEF IInv, Types
    <2>2. noLoad \in Loads /\ noCreate \in Creates
      BY SMTT(30) DEF Loads, Creates, noLoad, noCreate
    <2> QED BY ZenonT(60), <1>0, <2>1, <2>2
  <1>2. Types'
    BY SMTT(30), <1>0, <1>1 DEF IInv, Types
  <1>3. Saving'
    BY ZenonT(60), <1>0 DEF Saving
  <1>4. Uids'
    <2>1. \A w \in Writers : ~drawn(w)'
      BY ZenonT(60), <1>0 DEF drawn
    <2>2. \A d \in Ids : full(d) => file[d].life <= life /\ file[d].life \in Nat /\ life \in Nat
      BY ZenonT(60) DEF IInv, Types, Files, Uids
    <2>3. \A d \in Ids : full(d) => file[d].life <= life' /\ file[d].life # life'
      BY SMTT(30), <1>0, <2>2
    <2> QED BY ZenonT(60), <1>0, <2>1, <2>3 DEF IInv, Uids, full
  <1>6. Missed' \subseteq Missed
    <2> SUFFICES ASSUME NEW d \in Ids, d \in Missed' PROVE d \in Missed
      BY ZenonT(60) DEF Missed
    <2>1. d[1] \in Msgs /\ \A w \in Writers : msg'[w] # d[1]
      BY ZenonT(60), <1>0, Deliveries, StoreAssumption
    <2>2. reply'[d[1]] = "OK"
      BY ZenonT(60), <2>1 DEF Missed
    <2>3. reply[d[1]] = "OK"
      BY ZenonT(60), <1>0, <2>1, <2>2
    <2> QED BY ZenonT(60), <1>0, <2>3 DEF Missed, full
  <1>7. Missing'
    BY ZenonT(60), <1>0, <1>6, NoneMissed
  <1> QED BY ZenonT(60), <1>2, <1>3, <1>4, <1>7 DEF IInv

-----------------------------------------------------------------------------
(* The inductive invariant holds in every state of every behaviour of the  *)
(* store.                                                                  *)
THEOREM Invariance == Spec => []IInv
  <1>1. ASSUME IInv, Next PROVE IInv'
    <2>1. ASSUME NEW w \in Writers, writer(w) PROVE IInv'
      BY ZenonT(60), <2>1, <1>1, Receives, Opens, Draws, Makes, Writes, Responds DEF writer
    <2> QED BY ZenonT(60), <1>1, <2>1, Reads, MakesFolder, Restarts DEF Next
  <1>2. ASSUME IInv, UNCHANGED vars PROVE IInv'
    <2>1. UNCHANGED <<folders, dir, file, count, pc, msg, idx, uid, reply, rd, cr, errors, life>>
      BY ZenonT(60), <1>2 DEF vars, fsVars, wrVars
    <2>2. Types'
      BY ZenonT(60), <1>2, <2>1 DEF IInv, Types
    <2>3. errors' \in Nat /\ errors' >= errors
      BY SMTT(30), <1>2, <2>1 DEF IInv, Types
    <2>4. Saving' /\ Uids' /\ Missing'
      BY ZenonT(60), <1>2, <2>1, <2>3, SameWriters
    <2> QED BY ZenonT(60), <2>2, <2>4 DEF IInv
  <1> QED BY <1>1, <1>2, Initially, PTL DEF Spec

(* A delivery whose client was told that it is saved, of a part that       *)
(* lMessageX509 and msg2str() make something of, is missing from a folder  *)
(* that existed all along only for a failed file operation, one for each,  *)
(* for any number of sessions, messages and restarts.                      *)
THEOREM LossTheorem == Spec => []LossIsBounded
  <1>1. ASSUME IInv PROVE LossIsBounded
    <2> DEFINE lost == {d \in Ids : Promised(d) /\ file[d].st # "full"}
    <2>1. IsFiniteSet(Missed) /\ Cardinality(Missed) <= errors /\ errors \in Nat
      BY ZenonT(60), <1>1 DEF IInv, Missing, Types
    <2>2. lost \subseteq Missed
      BY ZenonT(60) DEF Missed, full, Promised
    <2>3. Cardinality(lost) <= Cardinality(Missed) /\ IsFiniteSet(lost)
      BY ZenonT(60), <2>1, <2>2, FS_Subset
    <2>4. Cardinality(lost) \in Nat /\ Cardinality(Missed) \in Nat
      BY ZenonT(60), <2>1, <2>3, FS_CardinalityType
    <2> QED BY SMTT(30), <2>1, <2>3, <2>4 DEF LossIsBounded
  <1> QED BY <1>1, Invariance, PTL

(* lUID.get() gives no UID twice in a run of the program, whatever threads *)
(* save at the same time: equal UIDs in a folder come from different runs. *)
THEOREM UidTheorem == Spec => []UidUniqueInRun
  <1>1. ASSUME IInv PROVE UidUniqueInRun
    <2>1. ASSUME NEW f \in Folders PROVE ToSet(dir[f]) \subseteq Ids
      <3>1. dir[f] \in Seq(Ids)
        BY ZenonT(60), <1>1 DEF IInv, Types
      <3> QED BY <3>1 DEF ToSet
    <2> QED BY ZenonT(60), <1>1, <2>1 DEF IInv, Uids, full, UidUniqueInRun
  <1> QED BY <1>1, Invariance, PTL

-----------------------------------------------------------------------------
(* The types of the store.  What is listed in a directory is a file, and a  *)
(* file is listed in the directory of its delivery, as it is made and       *)
(* listed in one step and written by the thread that made it; the directory *)
(* existed when the thread opened it, and no directory is ever removed.     *)
exists(d) == file[d].st # "none"

Opened ==
    \A w \in Writers : /\ pc[w] \in {"uid", "create", "write"} => target(w) \in folders
                       /\ pc[w] = "write" => exists(at(w))

OnDisk ==
    /\ \A f \in Folders : dir[f] # << >> => f \in folders
    /\ \A d \in Ids : exists(d) => d \in ToSet(dir[home(d)])
    /\ \A d \in Ids, f \in Folders : d \in ToSet(dir[f]) => exists(d)

Bounds == errors <= MaxErrors /\ life \in 1..(MaxCrashes + 1)

Stored == Opened /\ OnDisk /\ Bounds

(* An inserted element is added to those of the sequence. *)
LEMMA InsertedSet ==
    ASSUME NEW S, NEW s \in Seq(S), NEW e \in S, NEW p \in 1..Len(s)+1
    PROVE  ToSet(InsertAt(s, p, e)) = ToSet(s) \cup {e} /\ InsertAt(s, p, e) # << >>
  <1> DEFINE a == SubSeq(s, 1, p - 1)
             b == SubSeq(s, p, Len(s))
             c == a \o <<e>>
             t == c \o b
  <1>0. p \in Nat /\ Len(s) \in Nat /\ 1 <= p /\ p <= Len(s) + 1
    OBVIOUS
  <1>1. a \in Seq(S) /\ Len(a) = p - 1 /\ \A k \in 1..p-1 : a[k] = s[k]
    BY SMTT(30), <1>0, SubSeqProperties
  <1>2. b \in Seq(S) /\ Len(b) = Len(s) - p + 1 /\ \A k \in 1..Len(b) : b[k] = s[p + k - 1]
    BY <1>0, SubSeqProperties
  <1>3. t = InsertAt(s, p, e)
    BY ZenonT(60) DEF InsertAt
  <1> HIDE DEF a, b
  <1>4. c \in Seq(S) /\ Len(c) = p /\ c[p] = e /\ \A k \in 1..p-1 : c[k] = s[k]
    BY SMTT(30), <1>0, <1>1
  <1> HIDE DEF c
  <1>5. /\ t \in Seq(S) /\ Len(t) = Len(s) + 1
        /\ \A k \in 1..Len(t) : t[k] = IF k <= p THEN c[k] ELSE b[k - p]
    <2>1. /\ t \in Seq(S) /\ Len(t) = Len(c) + Len(b)
          /\ \A k \in 1..Len(c) + Len(b) : t[k] = IF k <= Len(c) THEN c[k] ELSE b[k - Len(c)]
      BY ZenonT(60), <1>2, <1>4, ConcatProperties
    <2>2. Len(c) = p /\ Len(c) + Len(b) = Len(s) + 1
      BY SMTT(30), <1>0, <1>2, <1>4
    <2> QED BY ZenonT(60), <2>1, <2>2
  <1> HIDE DEF t
  <1>6. DOMAIN s = 1..Len(s) /\ DOMAIN t = 1..Len(t)
    BY <1>5
  <1>7. p \in 1..Len(t) /\ t[p] = e
    BY SMTT(30), <1>0, <1>4, <1>5
  <1>8. ASSUME NEW k \in 1..Len(s) PROVE \E j \in 1..Len(t) : t[j] = s[k]
    <2>1. CASE k < p
      <3>1. k \in 1..Len(t) /\ t[k] = s[k]
        BY SMTT(30), <1>0, <1>4, <1>5, <2>1
      <3> QED BY ZenonT(60), <3>1
    <2>2. CASE k >= p
      <3>1. k + 1 \in 1..Len(t) /\ ~(k + 1 <= p) /\ k + 1 - p \in 1..Len(b)
        BY SMTT(30), <1>0, <1>2, <1>5, <2>2
      <3>2. t[k + 1] = b[k + 1 - p] /\ b[k + 1 - p] = s[p + (k + 1 - p) - 1]
        BY SMTT(30), <1>2, <1>5, <3>1
      <3>3. p + (k + 1 - p) - 1 = k
        BY SMTT(30), <1>0
      <3> QED BY ZenonT(60), <3>1, <3>2, <3>3
    <2> QED BY SMTT(30), <1>0, <2>1, <2>2
  <1>9. ASSUME NEW j \in 1..Len(t) PROVE t[j] = e \/ \E k \in 1..Len(s) : t[j] = s[k]
    <2>1. CASE j < p
      <3>1. j \in 1..Len(s) /\ j \in 1..p-1 /\ t[j] = c[j]
        BY SMTT(30), <1>0, <1>5, <2>1
      <3> QED BY ZenonT(60), <1>4, <3>1
    <2>2. CASE j > p
      <3>1. j - p \in 1..Len(b) /\ t[j] = b[j - p] /\ p + (j - p) - 1 \in 1..Len(s)
        BY SMTT(30), <1>0, <1>2, <1>5, <2>2
      <3> QED BY ZenonT(60), <1>2, <3>1
    <2> QED BY SMTT(30), <1>0, <1>7, <2>1, <2>2
  <1>10. ToSet(t) = ToSet(s) \cup {e}
    <2>1. ToSet(s) \subseteq ToSet(t) /\ e \in ToSet(t)
      BY <1>6, <1>7, <1>8, Zenon DEF ToSet
    <2>2. ToSet(t) \subseteq ToSet(s) \cup {e}
      BY <1>6, <1>9, Zenon DEF ToSet
    <2> QED BY ZenonT(60), <2>1, <2>2
  <1> QED BY SMTT(30), <1>3, <1>5, <1>7, <1>10

(* Files stay and directories stay, and one thread may have moved. *)
LEMMA OpenedStays ==
    ASSUME Opened, NEW w \in Writers, folders \subseteq folders',
           \A v \in Writers : pc[v] = "write" /\ exists(at(v)) => file'[at(v)].st # "none",
           \A v \in Writers \ {w} : pc'[v] = pc[v] /\ msg'[v] = msg[v] /\ idx'[v] = idx[v],
           pc'[w] \in {"uid", "create", "write"} => targets[msg'[w]][idx'[w]] \in folders',
           pc'[w] = "write" => file'[<<msg'[w], idx'[w]>>].st # "none"
    PROVE  Opened'
  <1> SUFFICES ASSUME NEW v \in Writers
               PROVE  /\ pc'[v] \in {"uid", "create", "write"} => target(v)' \in folders'
                      /\ pc'[v] = "write" => exists(at(v))'
    BY ZenonT(60) DEF Opened
  <1>1. CASE v = w
    BY ZenonT(60), <1>1 DEF target, at, exists
  <1>2. CASE v # w
    BY ZenonT(60), <1>2 DEF Opened, target, at, exists
  <1> QED BY ZenonT(60), <1>1, <1>2

(* The directories and what they list stay. *)
LEMMA OnDiskStays ==
    ASSUME OnDisk, folders \subseteq folders', UNCHANGED dir, \A d \in Ids : exists(d)' <=> exists(d)
    PROVE  OnDisk'
  BY ZenonT(60) DEF OnDisk

(* A failed operation is within the bound. *)
LEMMA BoundsStay ==
    ASSUME IInv, Bounds, life' = life, errors' = errors \/ fails
    PROVE  Bounds'
  BY StoreAssumption DEF IInv, Types, Bounds, fails

(* receive, skip, getFolder, lUID_get and respond leave the disk alone; a  *)
(* thread goes on to draw a UID only if it found its folder.               *)
LEMMA BesidesStores ==
    ASSUME IInv, Stored, NEW w \in Writers,
           (\E m \in Msgs : receive(w, m)) \/ skip(w) \/ getFolder(w) \/ lUID_get(w) \/ respond(w)
    PROVE  Stored'
  <1>1. UNCHANGED <<folders, dir, file, errors, life>>
    BY ZenonT(60) DEF receive, skip, getFolder, lUID_get, respond, fsVars
  <1>2. \A v \in Writers \ {w} : pc'[v] = pc[v] /\ msg'[v] = msg[v] /\ idx'[v] = idx[v]
    <2>1. \E l : pc' = [pc EXCEPT ![w] = l]
      BY ZenonT(60) DEF receive, skip, getFolder, lUID_get, respond, to, next
    <2>2. msg' = msg \/ \E m : msg' = [msg EXCEPT ![w] = m]
      BY ZenonT(60) DEF receive, skip, getFolder, lUID_get, respond
    <2>3. idx' = idx \/ \E k : idx' = [idx EXCEPT ![w] = k]
      BY ZenonT(60) DEF receive, skip, getFolder, lUID_get, respond, next
    <2> QED BY ZenonT(60), <2>1, <2>2, <2>3 DEF IInv, Types
  <1>3. CASE (\E m \in Msgs : receive(w, m)) \/ skip(w) \/ respond(w)
    <2>1. \E l \in {"failed", "open", "idle"} : pc' = [pc EXCEPT ![w] = l]
      BY ZenonT(60), <1>3 DEF receive, skip, respond, to, next
    <2>2. pc'[w] \notin {"uid", "create", "write"}
      BY ZenonT(60), <2>1 DEF IInv, Types
    <2>3. Opened'
      BY ZenonT(60), <1>1, <1>2, <2>2, OpenedStays DEF Stored, exists
    <2> QED BY ZenonT(60), <1>1, <2>3, OnDiskStays, BoundsStay DEF Stored, exists
  <1>4. CASE getFolder(w)
    <2>1. \/ target(w) \in folders /\ pc' = [pc EXCEPT ![w] = "uid"] /\ idx' = idx /\ msg' = msg
          \/ pc' = [pc EXCEPT ![w] = "open"]
      BY ZenonT(60), <1>4 DEF getFolder, to, next
    <2>2. /\ pc'[w] \in {"uid", "create", "write"} => targets[msg'[w]][idx'[w]] \in folders
          /\ pc'[w] # "write"
      BY ZenonT(60), <2>1 DEF IInv, Types, target
    <2>3. Opened'
      BY ZenonT(60), <1>1, <1>2, <2>2, OpenedStays DEF Stored, exists
    <2> QED BY ZenonT(60), <1>1, <2>3, OnDiskStays, BoundsStay DEF Stored, exists
  <1>5. CASE lUID_get(w)
    <2>1. pc[w] = "uid" /\ pc' = [pc EXCEPT ![w] = "create"] /\ idx' = idx /\ msg' = msg
      BY ZenonT(60), <1>5 DEF lUID_get, to
    <2>2. targets[msg'[w]][idx'[w]] \in folders /\ pc'[w] = "create"
      BY ZenonT(60), <2>1 DEF Stored, Opened, target, IInv, Types
    <2>3. Opened'
      BY ZenonT(60), <1>1, <1>2, <2>2, OpenedStays DEF Stored, exists
    <2> QED BY ZenonT(60), <1>1, <2>3, OnDiskStays, BoundsStay DEF Stored, exists
  <1> QED BY ZenonT(60), <1>3, <1>4, <1>5

(* createMessageXML makes a file and lists it in a directory that exists. *)
LEMMA MakeStores ==
    ASSUME IInv, Stored, NEW w \in Writers, createMessageXML(w)
    PROVE  Stored'
  <1>1. pc[w] = "create" /\ UNCHANGED <<folders, msg, life>>
    BY ZenonT(60) DEF createMessageXML
  <1>2. at(w) \in Ids /\ target(w) \in Folders /\ target(w) \in folders
    BY ZenonT(60), <1>1, AtDelivery DEF Stored, Opened
  <1>3. CASE fails /\ next(w) /\ UNCHANGED <<dir, file>>
    <2>1. pc' = [pc EXCEPT ![w] = "open"] /\ idx' = [idx EXCEPT ![w] = @ + 1]
      BY ZenonT(60), <1>3 DEF next, to
    <2>2. pc'[w] = "open" /\ \A v \in Writers \ {w} : pc'[v] = pc[v] /\ msg'[v] = msg[v] /\ idx'[v] = idx[v]
      BY ZenonT(60), <1>1, <2>1 DEF IInv, Types
    <2>3. Opened'
      BY ZenonT(60), <1>1, <1>3, <2>2, OpenedStays DEF Stored, exists
    <2> QED BY ZenonT(60), <1>1, <1>3, <2>3, OnDiskStays, BoundsStay DEF Stored, exists
  <1>4. CASE /\ \E p \in {Len(dir[target(w)]), Len(dir[target(w)]) + 1} \ {0} :
                    dir' = [dir EXCEPT ![target(w)] = InsertAt(@, p, at(w))]
             /\ file' = [file EXCEPT ![at(w)] = [st |-> "empty", uid |-> 0, life |-> 0]]
             /\ to(w, "write") /\ UNCHANGED <<idx, errors>>
    <2>0. PICK f \in Folders, e \in Ids : f = target(w) /\ e = at(w) /\ f \in folders /\ f = home(e)
      BY ZenonT(60), <1>2 DEF home, at, target
    <2>1. dir[f] \in Seq(Ids) /\ Len(dir[f]) \in Nat
      BY DEF IInv, Types
    <2>2. PICK p \in 1..Len(dir[f]) + 1 : dir' = [dir EXCEPT ![f] = InsertAt(dir[f], p, e)]
      <3>1. PICK p \in {Len(dir[f]), Len(dir[f]) + 1} \ {0} : dir' = [dir EXCEPT ![f] = InsertAt(@, p, e)]
        BY <1>4, <2>0, Zenon
      <3>2. p \in 1..Len(dir[f]) + 1
        BY <2>1, <3>1
      <3> QED BY ZenonT(60), <3>1, <3>2
    <2>3. dir'[f] = InsertAt(dir[f], p, e) /\ \A g \in Folders \ {f} : dir'[g] = dir[g]
      BY ZenonT(60), <2>2 DEF IInv, Types
    <2>4. ToSet(dir'[f]) = ToSet(dir[f]) \cup {e}
      BY SMTT(30), <2>1, <2>3, InsertedSet
    <2>5. exists(e)' /\ \A d \in Ids \ {e} : exists(d)' <=> exists(d)
      BY ZenonT(60), <1>4, <2>0 DEF IInv, Types, Files, exists
    <2>6. OnDisk'
      <3>1. \A g \in Folders : dir'[g] # << >> => g \in folders'
        BY ZenonT(60), <1>1, <2>0, <2>3 DEF Stored, OnDisk
      <3>2. ASSUME NEW d \in Ids, exists(d)' PROVE d \in ToSet(dir'[home(d)])
        <4>1. CASE d = e
          BY ZenonT(60), <2>0, <2>4, <4>1
        <4>2. CASE d # e
          <5>1. home(d) \in Folders
            BY Homes
          <5>2. d \in ToSet(dir[home(d)])
            BY ZenonT(60), <2>5, <3>2, <4>2 DEF Stored, OnDisk
          <5> QED BY ZenonT(60), <2>3, <2>4, <5>1, <5>2
        <4> QED BY ZenonT(60), <4>1, <4>2
      <3>3. ASSUME NEW d \in Ids, NEW g \in Folders, d \in ToSet(dir'[g]) PROVE exists(d)'
        <4>1. d = e \/ d \in ToSet(dir[g])
          BY ZenonT(60), <2>3, <2>4, <3>3
        <4> QED BY ZenonT(60), <2>5, <4>1 DEF Stored, OnDisk
      <3> QED BY ZenonT(60), <3>1, <3>2, <3>3 DEF OnDisk, home
    <2>7. pc' = [pc EXCEPT ![w] = "write"] /\ idx' = idx
      BY ZenonT(60), <1>4 DEF to
    <2>8. \A v \in Writers \ {w} : pc'[v] = pc[v] /\ msg'[v] = msg[v] /\ idx'[v] = idx[v]
      BY ZenonT(60), <1>1, <2>7 DEF IInv, Types
    <2>9. targets[msg'[w]][idx'[w]] \in folders' /\ file'[<<msg'[w], idx'[w]>>].st # "none"
      BY ZenonT(60), <1>1, <2>0, <2>5, <2>7 DEF target, at, exists
    <2>10. \A v \in Writers : pc[v] = "write" /\ exists(at(v)) => file'[at(v)].st # "none"
      <3>1. ASSUME NEW v \in Writers, pc[v] = "write", exists(at(v)) PROVE file'[at(v)].st # "none"
        <4>1. at(v) \in Ids
          BY ZenonT(60), <3>1, AtDelivery
        <4> QED BY ZenonT(60), <2>5, <3>1, <4>1 DEF exists
      <3> QED BY ZenonT(60), <3>1
    <2>11. Opened'
      BY ZenonT(60), <1>1, <2>8, <2>9, <2>10, OpenedStays DEF Stored, exists
    <2> QED BY ZenonT(60), <1>1, <1>4, <2>6, <2>11, BoundsStay DEF Stored
  <1> QED BY ZenonT(60), <1>3, <1>4 DEF createMessageXML

(* save writes into a file that is there, whether it succeeds or not. *)
LEMMA SaveStores ==
    ASSUME IInv, Stored, NEW w \in Writers, save(w)
    PROVE  Stored'
  <1>1. pc[w] = "write" /\ UNCHANGED <<folders, dir, msg, life>>
    BY DEF save
  <1>2. PICK e \in Ids : e = at(w) /\ exists(e) /\ target(w) \in folders
    BY ZenonT(60), <1>1, AtDelivery DEF Stored, Opened
  <1>3. \/ file' = [file EXCEPT ![e].st = "part"]
        \/ file' = [file EXCEPT ![e] = [st |-> "full", uid |-> uid[w], life |-> life]]
        \/ file' = file
    BY ZenonT(60), <1>2 DEF save
  <1>4. \A d \in Ids : exists(d)' <=> exists(d)
    <2>1. exists(e)'
      <3>1. CASE file' = [file EXCEPT ![e].st = "part"]
        BY ZenonT(60), <3>1 DEF IInv, Types, Files, exists
      <3>2. CASE file' = [file EXCEPT ![e] = [st |-> "full", uid |-> uid[w], life |-> life]]
        BY ZenonT(60), <3>2 DEF IInv, Types, exists
      <3> QED BY ZenonT(60), <1>2, <1>3, <3>1, <3>2 DEF exists
    <2>2. \A d \in Ids \ {e} : file'[d] = file[d]
      BY ZenonT(60), <1>3 DEF IInv, Types
    <2> QED BY ZenonT(60), <1>2, <2>1, <2>2 DEF exists
  <1>5. \/ pc' = pc /\ idx' = idx
        \/ pc' = [pc EXCEPT ![w] = "open"] /\ idx' = [idx EXCEPT ![w] = @ + 1]
    BY ZenonT(60) DEF save, next, to
  <1>6. \A v \in Writers \ {w} : pc'[v] = pc[v] /\ msg'[v] = msg[v] /\ idx'[v] = idx[v]
    BY ZenonT(60), <1>1, <1>5 DEF IInv, Types
  <1>7. pc'[w] \in {"uid", "create", "write"} => pc' = pc /\ idx' = idx
    BY ZenonT(60), <1>5 DEF IInv, Types
  <1>8. pc'[w] \in {"uid", "create", "write"} =>
            targets[msg'[w]][idx'[w]] \in folders' /\ file'[<<msg'[w], idx'[w]>>].st # "none"
    BY ZenonT(60), <1>1, <1>2, <1>4, <1>7 DEF target, at, exists
  <1>9. \A v \in Writers : pc[v] = "write" /\ exists(at(v)) => file'[at(v)].st # "none"
    <2>1. ASSUME NEW v \in Writers, pc[v] = "write", exists(at(v)) PROVE file'[at(v)].st # "none"
      <3>1. PICK d \in Ids : d = at(v)
        BY ZenonT(60), <2>1, AtDelivery
      <3> QED BY ZenonT(60), <1>4, <2>1, <3>1 DEF exists
    <2> QED BY ZenonT(60), <2>1
  <1>10. Opened'
    BY ZenonT(60), <1>1, <1>6, <1>8, <1>9, OpenedStays DEF Stored
  <1>11. errors' = errors \/ fails
    BY DEF save
  <1> QED BY ZenonT(60), <1>1, <1>4, <1>10, <1>11, OnDiskStays, BoundsStay DEF Stored

(* Loads, CREATEs and restarts make no file and remove no directory. *)
LEMMA OthersStore ==
    ASSUME IInv, Stored,
           \/ \E r \in Readers : reader(r)
           \/ \E c \in Creators : creator(c)
           \/ restart \/ UNCHANGED vars
    PROVE  Stored'
  <1>1. CASE restart
    <2>1. \A v \in Writers : pc'[v] = "idle"
      BY ZenonT(60), <1>1 DEF restart
    <2>2. Opened'
      BY ZenonT(60), <2>1 DEF Opened
    <2>3. UNCHANGED <<folders, dir, file, errors>> /\ life' = life + 1 /\ life <= MaxCrashes
      BY ZenonT(60), <1>1 DEF restart, fsVars
    <2>4. Bounds'
      BY SMTT(30), <2>3, StoreAssumption DEF Stored, Bounds
    <2> QED BY ZenonT(60), <2>2, <2>3, <2>4, OnDiskStays DEF Stored, exists
  <1>2. CASE ~restart
    <2>1. UNCHANGED <<dir, file, pc, msg, idx, life>>
      BY ZenonT(60), <1>2 DEF reader, list, load, clear, creator, create_get, create, mkdirs, fsVars, wrVars, vars
    <2>2. folders \subseteq folders' /\ (errors' = errors \/ fails)
      <3>1. ASSUME NEW c \in Creators, mkdirs(c) PROVE folders \subseteq folders' /\ (errors' = errors \/ fails)
        BY ZenonT(60), <3>1 DEF mkdirs
      <3> QED BY ZenonT(60), <1>2, <3>1 DEF reader, list, load, clear, creator, create_get, create, fsVars, vars
    <2>3. Opened'
      BY ZenonT(60), <2>1, <2>2 DEF Stored, Opened, target, at, exists
    <2> QED BY ZenonT(60), <2>1, <2>2, <2>3, OnDiskStays, BoundsStay DEF Stored, exists
  <1> QED BY ZenonT(60), <1>1, <1>2

(* The disk is in order in every state of every behaviour. *)
THEOREM StoredInvariance == Spec => []Stored
  <1>1. Init => Stored
    <2>1. ASSUME Init PROVE Stored
      <3>1. \A f \in Folders : dir[f] = << >> /\ ToSet(dir[f]) = {}
        BY <2>1 DEF Init, ToSet
      <3>2. \A d \in Ids : ~exists(d)
        BY ZenonT(60), <2>1 DEF Init, noFile, exists
      <3>3. Opened
        BY ZenonT(60), <2>1 DEF Init, Opened
      <3>4. Bounds
        BY <2>1, StoreAssumption DEF Init, Bounds
      <3>5. OnDisk
        BY ZenonT(60), <3>1, <3>2 DEF OnDisk
      <3> QED BY ZenonT(60), <3>3, <3>4, <3>5 DEF Stored
    <2> QED BY ZenonT(60), <2>1
  <1>2. IInv /\ Stored /\ [Next]_vars => Stored'
    <2>1. ASSUME IInv, Stored, NEW w \in Writers, writer(w) PROVE Stored'
      BY ZenonT(60), <2>1, BesidesStores, MakeStores, SaveStores DEF writer
    <2> QED BY ZenonT(60), <2>1, OthersStore DEF Next
  <1> QED BY <1>1, <1>2, Invariance, PTL DEF Spec

(* Every value of the store is in range, a directory with files exists, and *)
(* a delivery has a file exactly if some directory lists it, for every      *)
(* number of sessions and through failures and restarts.                    *)
THEOREM StoreTypeCorrect == Spec => []TypeOK
  <1>1. IInv /\ Stored => TypeOK
    <2>1. ASSUME IInv, Stored PROVE TypeOK
      <3>1. folders \in SUBSET Folders
        BY ZenonT(60), <2>1 DEF IInv, Types
      <3>2. \A w \in Writers : pc[w] \in {"idle", "open", "uid", "create", "write", "failed"}
        BY ZenonT(60), <2>1 DEF IInv, Types
      <3>3. \A w \in Writers : pc[w] # "idle" <=> msg[w] # None
        BY ZenonT(60), <2>1, StoreAssumption DEF IInv, Saving
      <3>4. \A m \in Msgs : reply[m] \in {None, "OK", "NO", "cut"}
        BY ZenonT(60), <2>1 DEF IInv, Types
      <3>5. errors \in 0..MaxErrors /\ life \in 1..(MaxCrashes + 1)
        BY <2>1, StoreAssumption DEF IInv, Types, Stored, Bounds
      <3>6. \A f \in Folders : dir[f] # << >> => f \in folders
        BY ZenonT(60), <2>1 DEF Stored, OnDisk
      <3>7. \A d \in Ids : file[d].st # "none" <=> \E f \in Folders : d \in ToSet(dir[f])
        BY ZenonT(60), <2>1, Homes DEF Stored, OnDisk, exists
      <3> QED BY ZenonT(60), <3>1, <3>2, <3>3, <3>4, <3>5, <3>6, <3>7 DEF TypeOK
    <2> QED BY ZenonT(60), <2>1
  <1> QED BY <1>1, Invariance, StoredInvariance, PTL

-----------------------------------------------------------------------------
(* What was promised when a load() began stays promised, and what of it has *)
(* a whole file is listed or still to be loaded.                            *)
Loading ==
    \A r \in Readers : \A d \in rd[r].acked :
        /\ Promised(d) /\ d \notin Odd
        /\ full(d) => d \in rd[r].list \cup ToSet(rd[r].ls)

(* Nothing happens to the file of an answered message, nor to the answer. *)
LEMMA AnsweredStays ==
    ASSUME IInv, [Next]_vars, NEW d \in Ids, reply[d[1]] = "OK"
    PROVE  reply'[d[1]] = "OK" /\ file'[d] = file[d]
  <1>0. d[1] \in Msgs
    BY ZenonT(60), Deliveries
  <1>1. ASSUME NEW w \in Writers, pc[w] # "idle" PROVE msg[w] # d[1]
    BY ZenonT(60), <1>1, StoreAssumption DEF IInv, Saving
  <1>2. ASSUME NEW w \in Writers, pc[w] # "idle" PROVE at(w) # d
    <2>1. at(w)[1] = msg[w]
      BY DEF at
    <2> QED BY ZenonT(60), <1>1, <1>2, <2>1
  <1>3. ASSUME NEW w \in Writers, writer(w) PROVE reply'[d[1]] = "OK" /\ file'[d] = file[d]
    <2>1. ASSUME createMessageXML(w) \/ save(w) PROVE reply'[d[1]] = "OK" /\ file'[d] = file[d]
      <3>1. pc[w] # "idle" /\ reply' = reply
        BY <2>1 DEF createMessageXML, save
      <3>2. \/ file' = file
            \/ file' = [file EXCEPT ![at(w)] = [st |-> "empty", uid |-> 0, life |-> 0]]
            \/ file' = [file EXCEPT ![at(w)].st = "part"]
            \/ file' = [file EXCEPT ![at(w)] = [st |-> "full", uid |-> uid[w], life |-> life]]
        BY ZenonT(60), <2>1 DEF createMessageXML, save
      <3>3. at(w) # d
        BY ZenonT(60), <1>2, <3>1
      <3> QED BY ZenonT(60), <3>1, <3>2, <3>3 DEF IInv, Types
    <2>2. ASSUME respond(w) PROVE reply'[d[1]] = "OK" /\ file'[d] = file[d]
      <3>1. pc[w] # "idle" /\ file' = file /\ \E a : reply' = [reply EXCEPT ![msg[w]] = a]
        BY ZenonT(60), <2>2 DEF respond, answer, fsVars
      <3>2. msg[w] # d[1]
        BY ZenonT(60), <1>1, <3>1
      <3> QED BY ZenonT(60), <1>0, <3>1, <3>2 DEF IInv, Types
    <2>3. ASSUME (\E m \in Msgs : receive(w, m)) \/ skip(w) \/ getFolder(w) \/ lUID_get(w)
          PROVE  reply' = reply /\ file' = file
      BY ZenonT(60), <2>3 DEF receive, skip, getFolder, lUID_get, fsVars
    <2> QED BY ZenonT(60), <1>3, <2>1, <2>2, <2>3 DEF writer
  <1>4. ASSUME restart PROVE reply'[d[1]] = "OK" /\ file'[d] = file[d]
    <2>1. \A w \in Writers : msg[w] # d[1]
      BY ZenonT(60), <1>0, <1>1, StoreAssumption DEF IInv, Saving
    <2> QED BY ZenonT(60), <1>0, <1>4, <2>1 DEF restart, fsVars
  <1>5. ASSUME (\E r \in Readers : reader(r)) \/ (\E c \in Creators : creator(c)) \/ UNCHANGED vars
        PROVE  reply' = reply /\ file' = file
    BY ZenonT(60), <1>5 DEF reader, list, load, clear, creator, create_get, create, mkdirs, fsVars, wrVars, vars
  <1> QED BY ZenonT(60), <1>3, <1>4, <1>5 DEF Next

(* A load() begins with what was promised before, and passes over a whole  *)
(* file only into the list.                                                *)
LEMMA LoadStep ==
    ASSUME IInv, Stored, Loading, [Next]_vars, NEW r \in Readers, NEW d \in rd'[r].acked
    PROVE  /\ d \in Ids /\ Promised(d) /\ d \notin Odd
           /\ full(d) => d \in rd'[r].list \cup ToSet(rd'[r].ls)
  <1> DEFINE goal == /\ d \in Ids /\ Promised(d) /\ d \notin Odd
                     /\ full(d) => d \in rd'[r].list \cup ToSet(rd'[r].ls)
  <1>0. rd \in [Readers -> Loads]
    BY ZenonT(60) DEF IInv, Types
  <1>1. CASE rd'[r] = rd[r]
    <2>1. d \in Ids
      BY ZenonT(60), <1>0, <1>1 DEF Loads
    <2> QED BY ZenonT(60), <1>1, <2>1 DEF Loading
  <1>2. ASSUME NEW f \in Folders, list(r, f) PROVE goal
    <2>1. rd'[r].ls = dir[f] /\ rd'[r].acked = Acked(f)
      BY <1>0, <1>2 DEF list, noLoad
    <2>2. d \in Ids /\ Promised(d) /\ d \notin Odd /\ home(d) = f
      BY ZenonT(60), <2>1 DEF Acked
    <2>3. ASSUME full(d) PROVE d \in ToSet(dir[f])
      <3>1. exists(d)
        BY <2>3 DEF full, exists
      <3> QED BY ZenonT(60), <2>2, <3>1 DEF Stored, OnDisk
    <2> QED BY ZenonT(60), <2>1, <2>2, <2>3
  <1>3. ASSUME load(r) PROVE goal
    <2>1. PICK l \in Loads : /\ rd' = [rd EXCEPT ![r] = l] /\ l.acked = rd[r].acked
                             /\ ToSet(rd[r].ls) \subseteq {Head(rd[r].ls)} \cup ToSet(l.ls)
                             /\ rd[r].list \subseteq l.list
                             /\ parses(Head(rd[r].ls)) => Head(rd[r].ls) \in l.list
      BY ZenonT(60), <1>3, Loaded
    <2>2. rd'[r] = l
      BY ZenonT(60), <1>0, <2>1
    <2>3. d \in rd[r].acked /\ d \in Ids
      BY ZenonT(60), <1>0, <2>1, <2>2 DEF Loads
    <2>4. Promised(d) /\ d \notin Odd /\ (full(d) => d \in rd[r].list \cup ToSet(rd[r].ls))
      BY ZenonT(60), <2>3 DEF Loading
    <2>5. ASSUME full(d) PROVE d \in l.list \cup ToSet(l.ls)
      <3>1. parses(d)
        BY ZenonT(60), <2>4, <2>5 DEF parses, full
      <3> QED BY ZenonT(60), <2>1, <2>4, <2>5, <3>1
    <2> QED BY ZenonT(60), <2>2, <2>3, <2>4, <2>5
  <1>4. ASSUME clear(r) \/ restart PROVE goal
    <2>1. rd'[r].acked = {}
      BY <1>0, <1>4 DEF clear, restart, noLoad
    <2> QED BY ZenonT(60), <2>1
  <1>5. ASSUME NEW q \in Readers, q # r, reader(q) PROVE rd'[r] = rd[r]
    <2>1. \E l : rd' = [rd EXCEPT ![q] = l]
      <3>1. ASSUME load(q) PROVE \E l : rd' = [rd EXCEPT ![q] = l]
        BY ZenonT(60), <3>1, Loaded
      <3> QED BY ZenonT(60), <1>5, <3>1 DEF reader, list, clear
    <2> QED BY ZenonT(60), <1>0, <1>5, <2>1
  <1>6. ASSUME (\E w \in Writers : writer(w)) \/ (\E c \in Creators : creator(c)) \/ UNCHANGED vars
        PROVE  rd' = rd
    BY ZenonT(60), <1>6 DEF writer, receive, skip, getFolder, lUID_get, createMessageXML, save, respond,
                            creator, create_get, create, mkdirs, vars
  <1>7. ASSUME reader(r) PROVE goal
    BY ZenonT(60), <1>2, <1>3, <1>4, <1>7 DEF reader
  <1> QED BY ZenonT(60), <1>1, <1>4, <1>5, <1>6, <1>7 DEF Next

(* What load() misses of what was promised when it began is missing in the *)
(* folder: a loaded list lacks at most as many well-formed deliveries as   *)
(* operations failed, whatever else is in the directory and whatever other *)
(* sessions write meanwhile.                                               *)
THEOREM ListedTheorem == Spec => []AckedIsListed
  <1>1. Init => Loading
    BY DEF Init, Loading, noLoad
  <1>2. IInv /\ Stored /\ Loading /\ [Next]_vars => Loading'
    <2> SUFFICES ASSUME IInv, Stored, Loading, [Next]_vars, NEW r \in Readers, NEW d \in rd'[r].acked
                 PROVE  /\ Promised(d)' /\ d \notin Odd
                        /\ full(d)' => d \in rd'[r].list \cup ToSet(rd'[r].ls)
      BY ZenonT(60) DEF Loading
    <2>1. /\ d \in Ids /\ Promised(d) /\ d \notin Odd
          /\ full(d) => d \in rd'[r].list \cup ToSet(rd'[r].ls)
      BY ZenonT(60), LoadStep
    <2>2. reply[d[1]] = "OK"
      BY ZenonT(60), <2>1 DEF Promised
    <2>3. reply'[d[1]] = "OK" /\ file'[d] = file[d]
      BY ZenonT(60), <2>1, <2>2, AnsweredStays
    <2> QED BY ZenonT(60), <2>1, <2>3 DEF Promised, full, home
  <1>3. IInv /\ Loading => AckedIsListed
    <2> SUFFICES ASSUME IInv, Loading, NEW r \in Readers, loaded(r)
                 PROVE  Cardinality(rd[r].acked \ rd[r].list) <= errors
      BY ZenonT(60) DEF AckedIsListed
    <2> DEFINE lost == rd[r].acked \ rd[r].list
    <2>1. IsFiniteSet(Missed) /\ Cardinality(Missed) <= errors /\ errors \in Nat
      BY ZenonT(60) DEF IInv, Missing, Types
    <2>2. rd[r].ls = << >> /\ ToSet(<< >>) = {} /\ rd[r].acked \subseteq Ids
      <3>1. rd[r].ls = << >>
        BY ZenonT(60) DEF loaded
      <3>2. rd[r].acked \subseteq Ids
        BY ZenonT(60) DEF IInv, Types, Loads
      <3>3. ToSet(<< >>) = {}
        BY DEF ToSet
      <3> QED BY ZenonT(60), <3>1, <3>2, <3>3
    <2>3. ASSUME NEW d \in lost PROVE d \in Missed
      <3>1. d \in Ids /\ Promised(d) /\ ~full(d)
        BY ZenonT(60), <2>2 DEF Loading
      <3> QED BY ZenonT(60), <3>1 DEF Missed, Promised
    <2>4. Cardinality(lost) <= Cardinality(Missed) /\ IsFiniteSet(lost)
      <3>1. lost \subseteq Missed
        BY ZenonT(60), <2>3
      <3> QED BY ZenonT(60), <2>1, <3>1, FS_Subset
    <2>5. Cardinality(lost) \in Nat /\ Cardinality(Missed) \in Nat
      BY ZenonT(60), <2>1, <2>4, FS_CardinalityType
    <2> QED BY SMTT(30), <2>1, <2>4, <2>5
  <1> QED BY <1>1, <1>2, <1>3, Invariance, StoredInvariance, PTL DEF Spec
=============================================================================
