--------------------------- MODULE CopyQueueProofs ---------------------------
(***************************************************************************)
(* copyQ implements MessageMove, for every number of threads and messages: *)
(* however its threads, failures and restarts interleave, a message is     *)
(* copied once or lost, never copied twice and never both.                 *)
(*                                                                         *)
(* The refinement mapping is the one of CopyQueue.  It needs that a        *)
(* message is in one place only: once on the queue, in the memory of one   *)
(* thread, or gone, and that a message with a copy is gone.                *)
(***************************************************************************)
EXTENDS CopyQueue, SequenceTheorems, FiniteSetTheorems, TLAPS

(* The types the argument needs. *)
Types ==
    /\ queue \in Seq(Msgs) /\ arrived \subseteq Msgs
    /\ copies \in [Msgs -> Nat]
    /\ pc \in [Copiers -> {"init", "while", "get", "parse", "commit", "end"}]
    /\ m_held \in [Copiers -> Msgs \cup {None}]
    /\ \A c \in Copiers : m_held[c] # None <=> pc[c] \in {"parse", "commit"}

OnQueue == ToSet(queue)
Held == {m_held[c] : c \in Copiers} \ {None}

(* A message is in one place only. *)
OnePlace ==
    /\ \A a, b \in 1..Len(queue) : queue[a] = queue[b] => a = b
    /\ \A c \in Copiers : m_held[c] \notin OnQueue
    /\ \A c, d \in Copiers : m_held[c] = m_held[d] /\ m_held[c] # None => c = d
    /\ OnQueue \cup Held \subseteq arrived

(* A message with a copy is gone from where it waited. *)
CopiedIsGone ==
    \A m \in Msgs : copies[m] # 0 => m \in arrived /\ m \notin OnQueue \cup Held

IInv == Types /\ OnePlace /\ CopiedIsGone

(* What Waiting is made of. *)
LEMMA WaitingIs == ASSUME IInv PROVE Waiting = OnQueue \cup Held
  <1>1. OnQueue \subseteq Msgs
    BY DEF IInv, Types, OnQueue, ToSet
  <1> QED BY <1>1, CopyAssumption DEF Waiting, OnQueue, Held

(* The same after a step. *)
LEMMA WaitingNext == ASSUME IInv' PROVE Waiting' = OnQueue' \cup Held'
  <1>1. OnQueue' \subseteq Msgs
    BY DEF IInv, Types, OnQueue, ToSet
  <1> QED BY <1>1, CopyAssumption DEF Waiting, OnQueue, Held

(* The head leaves a sequence without duplicates. *)
LEMMA HeadLeaves ==
    ASSUME NEW S, NEW s \in Seq(S), s # << >>, \A a, b \in 1..Len(s) : s[a] = s[b] => a = b
    PROVE  /\ Tail(s) \in Seq(S) /\ Head(s) \in ToSet(s) /\ ToSet(Tail(s)) = ToSet(s) \ {Head(s)}
           /\ \A a, b \in 1..Len(Tail(s)) : Tail(s)[a] = Tail(s)[b] => a = b
  <1> DEFINE t == Tail(s)
  <1>1. /\ t \in Seq(S) /\ Len(t) = Len(s) - 1 /\ Len(s) \in Nat \ {0}
        /\ \A k \in 1..Len(t) : t[k] = s[k + 1]
        /\ Head(s) = s[1] /\ 1 \in 1..Len(s)
        /\ DOMAIN s = 1..Len(s) /\ DOMAIN t = 1..Len(t)
    BY HeadTailProperties
  <1> HIDE DEF t
  <1>2. ASSUME NEW x \in ToSet(s), x # s[1] PROVE x \in ToSet(t)
    <2>1. PICK k \in 1..Len(s) : x = s[k]
      BY <1>1, <1>2 DEF ToSet
    <2>2. k - 1 \in 1..Len(t) /\ t[k - 1] = x
      BY <1>1, <1>2, <2>1
    <2> QED BY ZenonT(60), <1>1, <2>2 DEF ToSet
  <1>3. ASSUME NEW x \in ToSet(t) PROVE x \in ToSet(s) /\ x # s[1]
    <2>1. PICK k \in 1..Len(t) : x = t[k]
      BY <1>1, <1>3 DEF ToSet
    <2>2. k + 1 \in 1..Len(s) /\ s[k + 1] = x /\ k + 1 # 1
      BY <1>1, <2>1
    <2> QED BY ZenonT(60), <1>1, <2>2 DEF ToSet
  <1>4. \A a, b \in 1..Len(t) : t[a] = t[b] => a = b
    <2>1. \A a \in 1..Len(t) : a + 1 \in 1..Len(s) /\ t[a] = s[a + 1]
      BY <1>1
    <2>2. \A a, b \in 1..Len(t) : a + 1 = b + 1 => a = b
      BY <1>1
    <2> QED BY <2>1, <2>2
  <1>5. Head(s) \in ToSet(s)
    BY <1>1 DEF ToSet
  <1>6. ToSet(t) = ToSet(s) \ {Head(s)}
    BY ZenonT(60), <1>1, <1>2, <1>3
  <1> QED BY ZenonT(60), <1>1, <1>4, <1>5, <1>6 DEF t

(* A new element at the end of a sequence without duplicates. *)
LEMMA NewAtTheEnd ==
    ASSUME NEW S, NEW s \in Seq(S), NEW e \in S, e \notin ToSet(s),
           \A a, b \in 1..Len(s) : s[a] = s[b] => a = b
    PROVE  /\ Append(s, e) \in Seq(S) /\ ToSet(Append(s, e)) = ToSet(s) \cup {e}
           /\ \A a, b \in 1..Len(Append(s, e)) : Append(s, e)[a] = Append(s, e)[b] => a = b
  <1> DEFINE t == Append(s, e)
  <1>1. /\ t \in Seq(S) /\ Len(t) = Len(s) + 1 /\ Len(s) \in Nat
        /\ \A k \in 1..Len(s) : t[k] = s[k]
        /\ t[Len(s) + 1] = e
        /\ DOMAIN s = 1..Len(s) /\ DOMAIN t = 1..Len(t)
    OBVIOUS
  <1> HIDE DEF t
  <1>2. \A k \in 1..Len(t) : k \in 1..Len(s) \/ k = Len(s) + 1
    BY <1>1
  <1>3. \A k \in 1..Len(s) : k \in 1..Len(t) /\ s[k] # e
    BY <1>1 DEF ToSet
  <1>4. Len(s) + 1 \in 1..Len(t)
    BY <1>1
  <1>5. ToSet(t) = ToSet(s) \cup {e}
    <2>1. ToSet(s) \subseteq ToSet(t) /\ e \in ToSet(t)
      BY <1>1, <1>3, <1>4, Zenon DEF ToSet
    <2>2. ASSUME NEW x \in ToSet(t) PROVE x \in ToSet(s) \/ x = e
      <3>1. PICK k \in 1..Len(t) : x = t[k]
        BY ZenonT(60), <1>1, <2>2 DEF ToSet
      <3> QED BY ZenonT(60), <1>1, <1>2, <3>1 DEF ToSet
    <2> QED BY <2>1, <2>2
  <1>6. \A a, b \in 1..Len(t) : t[a] = t[b] => a = b
    BY ZenonT(60), <1>1, <1>2, <1>3
  <1> QED BY ZenonT(60), <1>1, <1>5, <1>6 DEF t
-----------------------------------------------------------------------------
(* What the steps do to messages: threads forget some, one takes a message *)
(* off the queue, one commits its copy, a program sends one.               *)
Forget ==
    /\ UNCHANGED <<queue, arrived, copies>>
    /\ \A c \in Copiers : m_held'[c] \in {m_held[c], None}

Take(c) ==
    /\ queue # << >> /\ queue' = Tail(queue) /\ UNCHANGED <<arrived, copies>>
    /\ m_held[c] = None /\ m_held' = [m_held EXCEPT ![c] = Head(queue)]

Copy(c) ==
    /\ UNCHANGED <<queue, arrived>>
    /\ m_held[c] # None /\ m_held' = [m_held EXCEPT ![c] = None]
    /\ copies' = [copies EXCEPT ![m_held[c]] = @ + 1]

Send(m) ==
    /\ m \notin arrived /\ arrived' = arrived \cup {m}
    /\ queue' = Append(queue, m) /\ UNCHANGED <<copies, m_held>>

Kinds == Forget \/ (\E c \in Copiers : Take(c) \/ Copy(c)) \/ (\E m \in Msgs : Send(m))

(* Where the threads are, and that a message is held from get to commit. *)
Places ==
    /\ pc \in [Copiers -> {"init", "while", "get", "parse", "commit", "end"}]
    /\ m_held \in [Copiers -> Msgs \cup {None}]
    /\ \A c \in Copiers : m_held[c] # None <=> pc[c] \in {"parse", "commit"}

(* A thread that forgets its message is back at the head of its loop. *)
LEMMA Forgets ==
    ASSUME IInv, NEW c \in Copiers, NEW l \in {"init", "while", "end"},
           pc' = [pc EXCEPT ![c] = l], m_held' = [m_held EXCEPT ![c] = None]
    PROVE  Places' /\ \A d \in Copiers : m_held'[d] \in {m_held[d], None}
  BY DEF IInv, Types, Places

(* A thread that neither takes nor forgets a message. *)
LEMMA Goes ==
    ASSUME IInv, NEW c \in Copiers,
           NEW l \in {"init", "while", "get", "parse", "commit", "end"},
           pc' = [pc EXCEPT ![c] = l], m_held' = m_held,
           m_held[c] # None <=> l \in {"parse", "commit"}
    PROVE  Places' /\ \A d \in Copiers : m_held'[d] \in {m_held[d], None}
  BY DEF IInv, Types, Places

(* Every step of a thread is of one of the kinds. *)
LEMMA Classify == ASSUME IInv, [Next]_vars PROVE Places' /\ Kinds
  <1>1. ASSUME NEW c \in Copiers, mqExcept(c) PROVE Places' /\ Forget
    BY ZenonT(60), <1>1, Forgets DEF mqExcept, to, hold, mqVars, Forget
  <1>2. ASSUME NEW c \in Copiers, init(c) PROVE Places' /\ Forget
    <2>1. pc[c] = "init" /\ UNCHANGED <<mqVars, m_held>> /\ \E l \in {"while", "end"} : pc' = [pc EXCEPT ![c] = l]
      BY <1>2 DEF init, to
    <2>2. m_held[c] = None
      BY ZenonT(60), <2>1 DEF IInv, Types
    <2> QED BY ZenonT(60), <2>1, <2>2, Goes DEF Forget, mqVars
  <1>3. ASSUME NEW c \in Copiers, while(c) PROVE Places' /\ Forget
    <2>1. pc[c] = "while" /\ UNCHANGED <<mqVars, m_held>> /\ \E l \in {"get", "end"} : pc' = [pc EXCEPT ![c] = l]
      BY ZenonT(60), <1>3 DEF while, to
    <2>2. m_held[c] = None
      BY ZenonT(60), <2>1 DEF IInv, Types
    <2> QED BY ZenonT(60), <2>1, <2>2, Goes DEF Forget, mqVars
  <1>4. ASSUME NEW c \in Copiers, get(c) PROVE Places' /\ (Forget \/ Take(c))
    <2>1. m_held[c] = None
      BY <1>4 DEF get, IInv, Types
    <2>2. CASE /\ queue # << >> /\ m_held' = [m_held EXCEPT ![c] = Head(queue)] /\ queue' = Tail(queue)
               /\ pc' = [pc EXCEPT ![c] = "parse"] /\ UNCHANGED <<arrived, copies>>
      <3>1. Head(queue) \in Msgs /\ Head(queue) # None
        BY ZenonT(60), <2>2, HeadTailProperties, CopyAssumption DEF IInv, Types
      <3>2. Places'
        BY <2>2, <3>1 DEF IInv, Types, Places
      <3> QED BY ZenonT(60), <2>1, <2>2, <3>2 DEF Take
    <2>3. CASE pc' = [pc EXCEPT ![c] = "while"] /\ UNCHANGED <<mqVars, m_held>>
      BY ZenonT(60), <2>1, <2>3, Goes DEF Forget, mqVars
    <2> QED BY ZenonT(60), <1>1, <1>4, <2>2, <2>3 DEF get, to, hold
  <1>5. ASSUME NEW c \in Copiers, put(c) PROVE Places' /\ Forget
    <2>1. m_held[c] # None /\ UNCHANGED mqVars
      BY <1>5 DEF put, IInv, Types
    <2>2. CASE pc' = [pc EXCEPT ![c] = "while"] /\ m_held' = [m_held EXCEPT ![c] = None]
      BY ZenonT(60), <2>1, <2>2, Forgets DEF Forget, mqVars
    <2>3. CASE pc' = [pc EXCEPT ![c] = "commit"] /\ m_held' = m_held
      BY ZenonT(60), <2>1, <2>3, Goes DEF Forget, mqVars
    <2> QED BY ZenonT(60), <1>1, <1>5, <2>2, <2>3 DEF put, to, hold
  <1>6. ASSUME NEW c \in Copiers, commit(c) PROVE Places' /\ (Forget \/ Copy(c))
    <2>1. m_held[c] # None
      BY <1>6 DEF commit, IInv, Types
    <2>2. CASE /\ copies' = [copies EXCEPT ![m_held[c]] = @ + 1] /\ m_held' = [m_held EXCEPT ![c] = None]
               /\ UNCHANGED <<queue, arrived>>
               /\ pc' = [pc EXCEPT ![c] = IF file_stat[c] THEN "while" ELSE "end"]
      <3>1. \E l \in {"while", "end"} : pc' = [pc EXCEPT ![c] = l]
        BY ZenonT(60), <2>2
      <3> QED BY ZenonT(60), <2>1, <2>2, <3>1, Forgets DEF Copy
    <2> QED BY ZenonT(60), <1>1, <1>6, <2>2 DEF commit, to, hold
  <1>7. ASSUME NEW m \in Msgs, send(m) PROVE Places' /\ Send(m)
    BY <1>7 DEF send, Send, IInv, Types, Places
  <1>8. CASE restart
    BY <1>8 DEF restart, mqVars, Forget, Places, Kinds
  <1>9. CASE UNCHANGED vars
    BY <1>9 DEF vars, mqVars, Forget, IInv, Types, Places, Kinds
  <1> QED BY ZenonT(60), <1>2, <1>3, <1>4, <1>5, <1>6, <1>7, <1>8, <1>9 DEF Next, run, Kinds

(* Seen from outside, messages that threads forget leave and are lost. *)
LEMMA ForgetMoves ==
    ASSUME IInv, Places', Forget
    PROVE  IInv' /\ [Mover!Next]_(Mover!vars) /\ Lost' = Lost \cup (Held \ Held')
  <1> DEFINE Gone == Held \ Held'
  <1>1. Held' \subseteq Held /\ OnQueue' = OnQueue
    BY DEF Forget, Held, OnQueue
  <1>2. Types'
    BY DEF IInv, Types, Places, Forget
  <1>3. OnePlace'
    <2>1. None \notin OnQueue
      BY CopyAssumption DEF IInv, Types, OnQueue, ToSet
    <2>2. \A c \in Copiers : m_held'[c] \notin OnQueue
      BY <2>1 DEF IInv, OnePlace, Forget
    <2>3. \A c, d \in Copiers : m_held'[c] = m_held'[d] /\ m_held'[c] # None => c = d
      BY DEF IInv, OnePlace, Forget
    <2> QED BY ZenonT(60), <1>1, <2>2, <2>3 DEF IInv, OnePlace, Forget
  <1>4. IInv'
    BY ZenonT(60), <1>1, <1>2, <1>3 DEF IInv, CopiedIsGone, Forget
  <1>5. Held \cap OnQueue = {} /\ OnQueue \cup Held \subseteq arrived
    BY DEF IInv, OnePlace, Held
  <1>6. Waiting = OnQueue \cup Held /\ Waiting' = OnQueue \cup Held'
    BY ZenonT(60), <1>1, <1>4, WaitingIs, WaitingNext
  <1>7. Waiting' = Waiting \ Gone /\ Gone \in SUBSET Waiting
    BY ZenonT(60), <1>1, <1>5, <1>6
  <1>8. \A m \in Gone : m \in Msgs /\ copies[m] = 0
    BY <1>5 DEF IInv, Types, CopiedIsGone
  <1>9. Lost' = Lost \cup Gone
    BY ZenonT(60), <1>5, <1>6, <1>7, <1>8 DEF Lost, Forget
  <1>10. Mover!Move(Gone, Gone)
    <2>1. \A m \in Gone : Mover!AtMost(m)
      <3> SUFFICES ASSUME NEW m \in Gone PROVE Mover!AtMost(m)
        OBVIOUS
      <3>1. m \in Msgs /\ copies'[m] = 0 /\ 0 <= 1
        BY <1>8 DEF Forget
      <3>2. [q \in {"q_out"} |-> 1] \in [n \in Msgs |-> {[q \in {"q_out"} |-> 1]}][m]
        BY <3>1
      <3>3. \A q \in {"q_out"} : [r \in {"q_out"} |-> copies'][q][m] <= [r \in {"q_out"} |-> 1][q]
        BY <3>1
      <3> QED BY ZenonT(60), <3>2, <3>3 DEF Mover!AtMost
    <2> QED BY ZenonT(60), <1>7, <1>9, <2>1 DEF Forget, Mover!Move
  <1> QED BY <1>4, <1>7, <1>9, <1>10, Zenon DEF Mover!Next

(* A get moves a message from the queue to a thread; outside nothing moved. *)
LEMMA TakeMoves ==
    ASSUME IInv, Places', NEW c \in Copiers, Take(c)
    PROVE  IInv' /\ UNCHANGED Mover!vars /\ Lost' = Lost
  <1>1. /\ queue' \in Seq(Msgs) /\ Head(queue) \in OnQueue /\ OnQueue' = OnQueue \ {Head(queue)}
        /\ \A a, b \in 1..Len(queue') : queue'[a] = queue'[b] => a = b
    BY HeadLeaves DEF IInv, Types, OnePlace, Take, OnQueue
  <1>2. OnQueue \subseteq Msgs /\ Head(queue) # None /\ None \notin OnQueue
    BY <1>1, CopyAssumption DEF IInv, Types, OnQueue, ToSet
  <1>3. Types'
    BY <1>1 DEF IInv, Types, Places, Take
  <1>4. Held' = Held \cup {Head(queue)}
    BY <1>2 DEF IInv, Types, Take, Held
  <1>5. OnePlace'
    <2>1. \A d \in Copiers : m_held'[d] \notin OnQueue'
      BY <1>1 DEF IInv, Types, OnePlace, Take
    <2>2. \A d, e \in Copiers : m_held'[d] = m_held'[e] /\ m_held'[d] # None => d = e
      BY <1>1 DEF IInv, Types, OnePlace, Take
    <2> QED BY SMTT(30), <1>1, <1>4, <2>1, <2>2 DEF IInv, OnePlace, Take
  <1>6. OnQueue' \cup Held' = OnQueue \cup Held
    BY ZenonT(60), <1>1, <1>4
  <1>7. IInv'
    BY ZenonT(60), <1>3, <1>5, <1>6 DEF IInv, CopiedIsGone, Take
  <1>8. Waiting' = Waiting
    BY ZenonT(60), <1>6, <1>7, WaitingIs, WaitingNext
  <1>9. Lost' = Lost
    BY <1>8 DEF Lost, Take
  <1> QED BY ZenonT(60), <1>7, <1>8, <1>9 DEF Mover!vars, Take

(* A commit makes the only copy of a message, which leaves in that step. *)
LEMMA CopyMoves ==
    ASSUME IInv, Places', NEW c \in Copiers, Copy(c)
    PROVE  IInv' /\ Mover!Next /\ Lost' = Lost
  <1> DEFINE n == m_held[c]
  <1>1. n \in Msgs /\ n \in Held /\ n # None /\ n \in arrived /\ n \notin OnQueue /\ copies[n] = 0
    BY DEF IInv, Types, OnePlace, CopiedIsGone, Copy, Held
  <1>2. copies' = [copies EXCEPT ![n] = 1] /\ copies'[n] = 1 /\ OnQueue' = OnQueue
    BY <1>1 DEF IInv, Types, Copy, OnQueue
  <1>3. Held' = Held \ {n}
    BY DEF IInv, Types, OnePlace, Copy, Held
  <1>4. Types'
    BY <1>1, <1>2 DEF IInv, Types, Places, Copy
  <1>5. OnePlace'
    <2>1. None \notin OnQueue
      BY CopyAssumption DEF IInv, Types, OnQueue, ToSet
    <2>2. \A d \in Copiers : m_held'[d] \notin OnQueue
      BY <2>1 DEF IInv, Types, OnePlace, Copy
    <2>3. \A d, e \in Copiers : m_held'[d] = m_held'[e] /\ m_held'[d] # None => d = e
      BY DEF IInv, Types, OnePlace, Copy
    <2> QED BY SMTT(30), <1>2, <1>3, <2>2, <2>3 DEF IInv, OnePlace, Copy
  <1>6. CopiedIsGone'
    BY <1>1, <1>2, <1>3 DEF IInv, Types, CopiedIsGone, Copy
  <1>7. IInv'
    BY ZenonT(60), <1>4, <1>5, <1>6 DEF IInv
  <1>8. Waiting = OnQueue \cup Held /\ Waiting' = (OnQueue \cup Held) \ {n}
    BY ZenonT(60), <1>1, <1>2, <1>3, <1>7, WaitingIs, WaitingNext
  <1>9. Lost' = Lost
    BY <1>1, <1>2, <1>8 DEF IInv, Types, Lost, Copy
  <1>10. Mover!Move({n}, {})
    <2>1. Mover!Delivered(n)
      BY ZenonT(60), <1>1, <1>2 DEF Mover!Delivered
    <2>2. \A m \in Msgs \ {n} : copies'[m] = copies[m]
      BY <1>2 DEF IInv, Types
    <2> QED BY ZenonT(60), <1>8, <1>9, <2>1, <2>2 DEF Mover!Move, Copy
  <1> QED BY <1>1, <1>7, <1>8, <1>9, <1>10, Zenon DEF Mover!Next

(* A message arrives at the end of the queue. *)
LEMMA SendMoves ==
    ASSUME IInv, Places', NEW m \in Msgs, Send(m)
    PROVE  IInv' /\ Mover!Next /\ Lost' = Lost
  <1>1. m \notin OnQueue \cup Held /\ m # None
    BY CopyAssumption DEF IInv, OnePlace, Send
  <1>2. /\ queue' \in Seq(Msgs) /\ OnQueue' = OnQueue \cup {m} /\ Held' = Held
        /\ \A a, b \in 1..Len(queue') : queue'[a] = queue'[b] => a = b
    <2>1. m \notin ToSet(queue) /\ queue \in Seq(Msgs) /\ queue' = Append(queue, m) /\ m_held' = m_held
      BY <1>1 DEF IInv, Types, Send, OnQueue
    <2>2. \A a, b \in 1..Len(queue) : queue[a] = queue[b] => a = b
      BY DEF IInv, OnePlace
    <2>3. Held' = Held
      BY ZenonT(60), <2>1 DEF Held
    <2> QED BY <2>1, <2>2, <2>3, NewAtTheEnd DEF OnQueue
  <1>3. Types'
    BY ZenonT(60), <1>2 DEF IInv, Types, Places, Send
  <1>4. copies[m] = 0
    BY ZenonT(60) DEF IInv, CopiedIsGone, Send
  <1>5. OnePlace'
    <2>1. \A d \in Copiers : m_held'[d] \notin OnQueue'
      BY ZenonT(60), <1>1, <1>2 DEF IInv, OnePlace, Send, Held
    <2> QED BY ZenonT(60), <1>2, <2>1 DEF IInv, OnePlace, Send
  <1>6. CopiedIsGone'
    BY ZenonT(60), <1>2, <1>4 DEF IInv, CopiedIsGone, Send
  <1>7. IInv'
    BY ZenonT(60), <1>3, <1>5, <1>6 DEF IInv
  <1>8. Waiting = OnQueue \cup Held /\ Waiting' = Waiting \cup {m}
    BY ZenonT(60), <1>2, <1>7, WaitingIs, WaitingNext
  <1>9. Lost' = Lost
    BY ZenonT(60), <1>8 DEF Lost, Send
  <1> QED BY ZenonT(60), <1>7, <1>8, <1>9 DEF Send, Mover!Next, Mover!Arrive

(* Every step keeps the invariant and is a step of the mover, or none. *)
LEMMA StepMoves == ASSUME IInv, [Next]_vars PROVE IInv' /\ [Mover!Next]_(Mover!vars)
  BY ZenonT(60), Classify, ForgetMoves, TakeMoves, CopyMoves, SendMoves DEF Kinds

(* The queue starts empty. *)
LEMMA InitHolds == ASSUME Init PROVE IInv /\ Mover!Init
  <1>1. OnQueue = {} /\ Held = {} /\ Waiting = {} /\ Lost = {}
    BY DEF Init, OnQueue, Held, Waiting, Lost, ToSet
  <1>2. Types
    BY DEF Init, Types
  <1>3. OnePlace
    BY <1>1 DEF Init, OnePlace
  <1>4. CopiedIsGone
    BY DEF Init, CopiedIsGone
  <1> QED BY ZenonT(60), <1>1, <1>2, <1>3, <1>4 DEF IInv, Init, Mover!Init

(* copyQ implements MessageMove: whatever its threads do, and whenever a   *)
(* call fails or the process is started anew, a message leaves in the step *)
(* of the commit that makes its only copy, or it is lost for good.         *)
THEOREM CopyRefinement == Spec => CopiesAtMostOnce
  BY InitHolds, StepMoves, PTL DEF Spec, CopiesAtMostOnce, Mover!Spec

-----------------------------------------------------------------------------
(* What is lost: a message that does not parse, one for a failed call, and *)
(* one for each thread when the process ends.                              *)
LEMMA LostInStep ==
    ASSUME IInv, [Next]_vars
    PROVE  Lost' = Lost \/ (Forget /\ Lost' = Lost \cup (Held \ Held'))
  BY ZenonT(60), Classify, ForgetMoves, TakeMoves, CopyMoves, SendMoves DEF Kinds

Costs ==
    /\ errors \in Nat /\ crashes \in Nat /\ IsFiniteSet(Lost \ Bad)
    /\ Cardinality(Lost \ Bad) <= errors + Cardinality(Copiers) * crashes

(* Nothing is lost but what does not parse. *)
LEMMA NoCost ==
    ASSUME Costs, Lost' \ Bad \subseteq Lost \ Bad, UNCHANGED <<errors, crashes>>
    PROVE  Costs'
  <1>1. IsFiniteSet(Lost' \ Bad) /\ Cardinality(Lost' \ Bad) <= Cardinality(Lost \ Bad)
    BY FS_Subset DEF Costs
  <1>2. Cardinality(Lost' \ Bad) \in Nat /\ Cardinality(Lost \ Bad) \in Nat /\ Cardinality(Copiers) \in Nat
    BY ZenonT(60), <1>1, FS_CardinalityType, CopyAssumption DEF Costs
  <1>3. Cardinality(Copiers) * crashes \in Nat
    BY <1>2 DEF Costs
  <1> QED BY SMTT(30), <1>1, <1>2, <1>3 DEF Costs

(* A failed call loses what its thread held. *)
LEMMA OneCost ==
    ASSUME Costs, NEW m, Lost' \subseteq Lost \cup {m}, errors' = errors + 1, crashes' = crashes
    PROVE  Costs'
  <1> DEFINE S == Lost \ Bad
             n == Cardinality(Copiers) * crashes
  <1>1. IsFiniteSet(S) /\ Cardinality(S) \in Nat /\ Cardinality(Copiers) \in Nat
    BY FS_CardinalityType, CopyAssumption DEF Costs
  <1>2. n \in Nat
    BY <1>1 DEF Costs
  <1>3. IsFiniteSet(S \cup {m}) /\ Cardinality(S \cup {m}) <= Cardinality(S) + 1
    BY SMTT(30), <1>1, FS_AddElement
  <1>4. Lost' \ Bad \in SUBSET (S \cup {m})
    OBVIOUS
  <1>5. /\ IsFiniteSet(Lost' \ Bad) /\ Cardinality(Lost' \ Bad) <= Cardinality(S \cup {m})
        /\ Cardinality(Lost' \ Bad) \in Nat /\ Cardinality(S \cup {m}) \in Nat
    BY <1>3, <1>4, FS_Subset, FS_CardinalityType
  <1>6. Cardinality(S) <= errors + n /\ errors \in Nat /\ crashes \in Nat
    BY DEF Costs
  <1> HIDE DEF S, n
  <1>7. Cardinality(Lost' \ Bad) <= errors' + n
    BY SMTT(30), <1>1, <1>2, <1>3, <1>5, <1>6
  <1> QED BY <1>5, <1>6, <1>7 DEF Costs, n

(* The end of the process loses what its threads held. *)
LEMMA RestartCost ==
    ASSUME IInv, Costs, Lost' \subseteq Lost \cup Held, errors' = errors, crashes' = crashes + 1
    PROVE  Costs'
  <1> DEFINE S == Lost \ Bad
             T == {m_held[c] : c \in Copiers}
             N == Cardinality(Copiers)
  <1>1. IsFiniteSet(S) /\ Cardinality(S) \in Nat /\ N \in Nat /\ IsFiniteSet(Copiers)
    BY ZenonT(60), FS_CardinalityType, CopyAssumption DEF Costs
  <1>2. m_held \in Surjection(Copiers, T)
    BY DEF IInv, Types, Surjection
  <1>3. IsFiniteSet(T) /\ Cardinality(T) <= N
    BY ZenonT(60), <1>1, <1>2, FS_Surjection
  <1>4. /\ IsFiniteSet(S \cup T) /\ Cardinality(T) \in Nat
        /\ Cardinality(S \cup T) = Cardinality(S) + Cardinality(T) - Cardinality(S \cap T)
        /\ Cardinality(S \cap T) \in Nat
    BY ZenonT(60), <1>1, <1>3, FS_Union, FS_Intersection, FS_CardinalityType
  <1>5. Lost' \ Bad \in SUBSET (S \cup T)
    BY DEF Held
  <1>6. /\ IsFiniteSet(Lost' \ Bad) /\ Cardinality(Lost' \ Bad) <= Cardinality(S \cup T)
        /\ Cardinality(Lost' \ Bad) \in Nat
    BY ZenonT(60), <1>4, <1>5, FS_Subset, FS_CardinalityType
  <1>7. Cardinality(S) <= errors + N * crashes /\ errors \in Nat /\ crashes \in Nat
    BY DEF Costs
  <1> HIDE DEF S, T, N
  <1>8. N * crashes' = N * crashes + N /\ N * crashes \in Nat
    BY <1>1, <1>7
  <1>9. Cardinality(Lost' \ Bad) <= errors' + N * crashes'
    BY SMTT(30), <1>1, <1>3, <1>4, <1>6, <1>7, <1>8
  <1> QED BY <1>6, <1>7, <1>9 DEF Costs, N

(* What a thread forgets is what it held. *)
LEMMA ForgetsOwn ==
    ASSUME IInv, NEW c \in Copiers, m_held' = m_held \/ \E m : m_held' = [m_held EXCEPT ![c] = m]
    PROVE  Held \ Held' \subseteq {m_held[c]}
  BY DEF IInv, Types, Held

(* Every step costs what the counters say. *)
LEMMA StepCosts == ASSUME IInv, Costs, [Next]_vars PROVE Costs'
  <1>0. CASE Lost' = Lost /\ UNCHANGED <<errors, crashes>>
    BY ZenonT(60), <1>0, NoCost
  <1>1. ASSUME NEW c \in Copiers, mqExcept(c) PROVE Costs'
    <2>1. errors' = errors + 1 /\ crashes' = crashes /\ m_held' = [m_held EXCEPT ![c] = None]
      BY <1>1 DEF mqExcept, hold
    <2>2. Held \ Held' \subseteq {m_held[c]}
      BY ZenonT(60), <2>1, ForgetsOwn
    <2>3. Lost' \subseteq Lost \cup {m_held[c]}
      BY ZenonT(60), <2>2, LostInStep
    <2> QED BY ZenonT(60), <2>1, <2>3, OneCost
  <1>2. ASSUME NEW c \in Copiers, UNCHANGED <<errors, crashes>>,
               m_held' = m_held \/ \E m : m_held' = [m_held EXCEPT ![c] = m],
               m_held[c] \in Bad \cup {None} \/ copies' # copies \/ m_held' = m_held
        PROVE  Costs'
    <2>1. CASE Lost' = Lost
      BY ZenonT(60), <1>2, <2>1, NoCost
    <2>2. CASE Forget /\ Lost' = Lost \cup (Held \ Held')
      <3>1. copies' = copies
        BY <2>2 DEF Forget
      <3>2. Held \ Held' \subseteq Bad
        <4>1. CASE m_held' = m_held
          BY <4>1 DEF Held
        <4>2. CASE m_held[c] \in Bad \cup {None}
          BY ZenonT(60), <1>2, <4>2, ForgetsOwn DEF Held
        <4> QED BY ZenonT(60), <1>2, <3>1, <4>1, <4>2
      <3> QED BY ZenonT(60), <1>2, <2>2, <3>2, NoCost
    <2> QED BY ZenonT(60), <2>1, <2>2, LostInStep
  <1>3. ASSUME NEW c \in Copiers, init(c) \/ while(c) PROVE Costs'
    BY ZenonT(60), <1>2, <1>3 DEF init, while
  <1>4. ASSUME NEW c \in Copiers, get(c) PROVE Costs'
    <2>1. m_held[c] = None
      BY <1>4 DEF get, IInv, Types
    <2> QED BY ZenonT(60), <1>1, <1>2, <1>4, <2>1 DEF get, hold
  <1>5. ASSUME NEW c \in Copiers, put(c) PROVE Costs'
    <2>1. CASE mqExcept(c)
      BY ZenonT(60), <1>1, <2>1
    <2>2. CASE m_held[c] \in Bad /\ hold(c, None) /\ errors' = errors
      BY ZenonT(60), <1>2, <1>5, <2>2 DEF put, hold
    <2>3. CASE m_held' = m_held /\ errors' = errors
      BY ZenonT(60), <1>2, <1>5, <2>3 DEF put
    <2> QED BY ZenonT(60), <1>5, <2>1, <2>2, <2>3 DEF put
  <1>6. ASSUME NEW c \in Copiers, commit(c) PROVE Costs'
    <2>1. CASE mqExcept(c)
      BY <1>1, <2>1
    <2>2. CASE /\ copies' = [copies EXCEPT ![m_held[c]] = @ + 1] /\ hold(c, None)
               /\ UNCHANGED <<errors, crashes>>
      <3>1. m_held[c] \in Msgs
        BY <1>6 DEF commit, IInv, Types
      <3>2. copies' # copies
        BY <2>2, <3>1 DEF IInv, Types
      <3> QED BY ZenonT(60), <1>2, <2>2, <3>2 DEF hold
    <2> QED BY ZenonT(60), <1>6, <2>1, <2>2 DEF commit
  <1>7. ASSUME NEW m \in Msgs, send(m) PROVE Costs'
    <2>1. Held' = Held /\ UNCHANGED <<errors, crashes>>
      BY ZenonT(60), <1>7 DEF send, Held
    <2>2. Lost' = Lost
      BY ZenonT(60), <2>1, LostInStep
    <2> QED BY ZenonT(60), <1>0, <2>1, <2>2
  <1>8. CASE restart
    <2>1. Lost' \subseteq Lost \cup Held
      BY LostInStep
    <2> QED BY ZenonT(60), <1>8, <2>1, RestartCost DEF restart
  <1>9. CASE UNCHANGED vars
    <2>1. Lost' = Lost
      BY <1>9 DEF vars, mqVars, Lost, Waiting
    <2> QED BY ZenonT(60), <1>0, <1>9, <2>1 DEF vars
  <1> QED BY ZenonT(60), <1>3, <1>4, <1>5, <1>6, <1>7, <1>8, <1>9 DEF Next, run

(* However many threads and messages: besides what does not parse, a failed *)
(* call loses at most one message, and the end of the process at most one   *)
(* for every thread, although the gets are outside the unit of work.        *)
THEOREM LossTheorem == Spec => []LossIsBounded
  <1>1. Init => Costs
    <2>1. ASSUME Init PROVE Costs
      <3>1. Lost = {} /\ errors = 0 /\ crashes = 0
        BY <2>1 DEF Init, Lost
      <3>2. Lost \ Bad = {}
        BY <3>1
      <3>3. Cardinality(Copiers) * 0 = 0
        BY FS_CardinalityType, CopyAssumption
      <3> QED BY SMTT(30), <3>1, <3>2, <3>3, FS_EmptySet DEF Costs
    <2> QED BY <2>1
  <1>2. Costs => LossIsBounded
    BY DEF Costs, LossIsBounded
  <1> QED BY <1>1, <1>2, InitHolds, StepMoves, StepCosts, PTL DEF Spec
=============================================================================
