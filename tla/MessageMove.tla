----------------------------- MODULE MessageMove -----------------------------
(***************************************************************************)
(* What a program that moves messages between queues promises, without the *)
(* threads, buffers, retries and units of work it is made of: messages     *)
(* wait; then, in one step, some of them leave and every copy they are to  *)
(* have appears.  StreamProcessor and CopyQueue implement it.              *)
(***************************************************************************)
EXTENDS Naturals

CONSTANTS Queues, Msgs,
          Plans  \* Plans[m]: the ways to deliver m, each a number of copies per queue

VARIABLES arrived,  \* messages that have come
          waiting,  \* messages that have not left
          failed,   \* messages that left after a write of theirs was refused
          out       \* out[q][m]: the copies of m on q

vars == <<arrived, waiting, failed, out>>

Init ==
    /\ arrived = {} /\ waiting = {} /\ failed = {}
    /\ out = [q \in Queues |-> [m \in Msgs |-> 0]]

Arrive ==
    \E m \in Msgs \ arrived :
        /\ arrived' = arrived \cup {m}
        /\ waiting' = waiting \cup {m}
        /\ UNCHANGED <<failed, out>>

Delivered(m) == \E plan \in Plans[m] : \A q \in Queues : out'[q][m] = plan[q]

AtMost(m) == \E plan \in Plans[m] : \A q \in Queues : out'[q][m] <= plan[q]

(***************************************************************************)
(* The messages of M leave together.  Those of F, of which a write was     *)
(* refused, may lack copies but never have too many.                       *)
(***************************************************************************)
Move(M, F) ==
    /\ arrived' = arrived
    /\ waiting' = waiting \ M
    /\ failed' = failed \cup F
    /\ \A m \in M \ F : Delivered(m)
    /\ \A m \in F : AtMost(m)
    /\ \A m \in Msgs \ M, q \in Queues : out'[q][m] = out[q][m]

Next == Arrive \/ \E M \in SUBSET waiting : \E F \in SUBSET M : Move(M, F)

Spec == Init /\ [][Next]_vars
=============================================================================
