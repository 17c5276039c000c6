------------------------------ MODULE CopyQueue ------------------------------
(***************************************************************************)
(* org.little.mq.stream.copyQ: threads of one program move messages from a *)
(* queue to another one and write a line per message to a file.            *)
(*                                                                         *)
(* The source queue is opened by openTruncQ: MQGMO_NO_SYNCPOINT and        *)
(* MQGMO_ACCEPT_TRUNCATED_MSG.  A get removes the message at once, outside *)
(* the unit of work that the put to the target belongs to, so the thread   *)
(* holds the only copy until commit() returns.  mq_queue.put returns       *)
(* RET_OK or throws, so the branch of run() that calls backout() is never  *)
(* taken.                                                                  *)
(*                                                                         *)
(* A message longer than the buffer of 100000 bytes is accepted cut.  It   *)
(* may parse nevertheless, because ufpsParser stops at the body, and then  *)
(* the cut message is what is put.  Bad holds the messages whose received  *)
(* part does not parse; copies counts copies, whole or cut, so nothing     *)
(* here says that the copy of such a long message is complete.             *)
(***************************************************************************)
EXTENDS Integers, Sequences, SequencesExt, FiniteSets

CONSTANTS Copiers, Msgs, Bad, None,
          MaxErrors,  \* bound: failures of a call to the queue manager
          MaxCrashes  \* bound: ends of the process

ASSUME CopyAssumption ==
    /\ IsFiniteSet(Copiers) /\ Bad \subseteq Msgs /\ None \notin Msgs
    /\ MaxErrors \in Nat /\ MaxCrashes \in Nat

VARIABLES
    queue,              \* the source queue
    arrived,            \* messages ever put on it
    copies,             \* copies[m]: committed copies of m, whole or cut, on the target queue
    pc,                 \* of run(), by thread
    m_held,             \* m_held[c]: the message in the memory of c
    file_stat,          \* file_stat[c]: the file could be opened
    flag_state,         \* flag_state[c]: CMD_RUN
    flag_global_state,  \* static: CMD_RUN
    errors, crashes

mqVars   == <<queue, arrived, copies>>
flagVars == <<file_stat, flag_state, flag_global_state>>
vars     == <<mqVars, pc, m_held, flagVars, errors, crashes>>

Init ==
    /\ queue = << >> /\ arrived = {}
    /\ copies = [m \in Msgs |-> 0]
    /\ pc = [c \in Copiers |-> "init"]
    /\ m_held = [c \in Copiers |-> None]
    /\ file_stat \in [Copiers -> BOOLEAN]
    /\ flag_state = [c \in Copiers |-> FALSE]
    /\ flag_global_state = TRUE
    /\ errors = 0 /\ crashes = 0

to(c, l) == pc' = [pc EXCEPT ![c] = l]
hold(c, m) == m_held' = [m_held EXCEPT ![c] = m]

(* Mutant: the static flag is not read. *)
isStop_local(c) == ~flag_state[c]

isStop(c) == ~flag_state[c] \/ ~flag_global_state

(* init(): the manager and both queues are opened, or the thread is not started. *)
init(c) ==
    /\ pc[c] = "init"
    /\ \/ to(c, "while") /\ flag_state' = [flag_state EXCEPT ![c] = TRUE]
       \/ to(c, "end") /\ UNCHANGED flag_state
    /\ UNCHANGED <<mqVars, m_held, file_stat, flag_global_state, errors, crashes>>

(* while(!isStop()); close() *)
while(c) ==
    /\ pc[c] = "while"
    /\ to(c, IF isStop(c) THEN "end" ELSE "get")
    /\ flag_state' = [flag_state EXCEPT ![c] = @ /\ ~isStop(c)]
    /\ UNCHANGED <<mqVars, m_held, file_stat, flag_global_state, errors, crashes>>

(* catch(mqExcept): cmd_close(); cmd_g_close(); the message in memory is gone. *)
mqExcept(c) ==
    /\ errors < MaxErrors
    /\ errors' = errors + 1
    /\ flag_state' = [flag_state EXCEPT ![c] = FALSE]
    /\ flag_global_state' = FALSE
    /\ to(c, "while") /\ hold(c, None)
    /\ UNCHANGED <<mqVars, file_stat, crashes>>

(* Mutant: the message stays on the queue, as under MQGMO_BROWSE. *)
get_browse(c) ==
    /\ pc[c] = "get"
    /\ \/ /\ queue # << >>
          /\ hold(c, Head(queue))
          /\ to(c, "parse") /\ UNCHANGED <<mqVars, flagVars, errors, crashes>>
       \/ queue = << >> /\ to(c, "while") /\ UNCHANGED <<mqVars, m_held, flagVars, errors, crashes>>
       \/ mqExcept(c)

(* q_in.get(m): a message, none within the wait interval, or a failure *)
get(c) ==
    /\ pc[c] = "get"
    /\ \/ /\ queue # << >>
          /\ hold(c, Head(queue)) /\ queue' = Tail(queue)
          /\ to(c, "parse") /\ UNCHANGED <<arrived, copies, flagVars, errors, crashes>>
       \/ queue = << >> /\ to(c, "while") /\ UNCHANGED <<mqVars, m_held, flagVars, errors, crashes>>
       \/ mqExcept(c)

(* Mutant: a message that does not parse goes back to the head of the queue. *)
put_back(c) ==
    /\ pc[c] = "parse"
    /\ \/ /\ m_held[c] \in Bad
          /\ queue' = <<m_held[c]>> \o queue
          /\ to(c, "while") /\ hold(c, None) /\ UNCHANGED <<errors, flagVars>>
       \/ /\ m_held[c] \notin Bad
          /\ to(c, "commit") /\ UNCHANGED <<queue, m_held, errors, flagVars>>
    /\ UNCHANGED <<arrived, copies, crashes>>

(* Mutant: no message is put once another thread has failed. *)
put_unless_stopped(c) ==
    /\ pc[c] = "parse"
    /\ \/ /\ m_held[c] \in Bad \/ isStop(c)
          /\ to(c, "while") /\ hold(c, None) /\ UNCHANGED <<errors, flagVars>>
       \/ /\ m_held[c] \notin Bad /\ ~isStop(c)
          /\ to(c, "commit") /\ UNCHANGED <<m_held, errors, flagVars>>
       \/ /\ m_held[c] \notin Bad
          /\ mqExcept(c)
    /\ UNCHANGED <<mqVars, crashes>>

(* parse(m): without a result the loop goes on; else q_out.put(m) *)
put(c) ==
    /\ pc[c] = "parse"
    /\ \/ /\ m_held[c] \in Bad
          /\ to(c, "while") /\ hold(c, None) /\ UNCHANGED <<errors, flagVars>>
       \/ /\ m_held[c] \notin Bad
          /\ to(c, "commit") /\ UNCHANGED <<m_held, errors, flagVars>>
       \/ /\ m_held[c] \notin Bad
          /\ mqExcept(c)
    /\ UNCHANGED <<mqVars, crashes>>

(* qm.commit(), then print(), which throws if the file is not open: the    *)
(* thread ends without close().                                            *)
commit(c) ==
    /\ pc[c] = "commit"
    /\ \/ /\ copies' = [copies EXCEPT ![m_held[c]] = @ + 1]
          /\ hold(c, None)
          /\ to(c, IF file_stat[c] THEN "while" ELSE "end")
          /\ UNCHANGED <<queue, arrived, flagVars, errors, crashes>>
       \/ mqExcept(c)

run(c) == while(c) \/ get(c) \/ put(c) \/ commit(c)

(* A program puts a message on the source queue. *)
send(m) ==
    /\ m \notin arrived
    /\ arrived' = arrived \cup {m}
    /\ queue' = Append(queue, m)
    /\ UNCHANGED <<copies, pc, m_held, flagVars, errors, crashes>>

(* The process ends; the queue manager backs its puts out; work() of a new process. *)
restart ==
    /\ crashes < MaxCrashes
    /\ crashes' = crashes + 1
    /\ pc' = [c \in Copiers |-> "init"]
    /\ m_held' = [c \in Copiers |-> None]
    /\ flag_state' = [c \in Copiers |-> FALSE]
    /\ flag_global_state' = TRUE
    /\ UNCHANGED <<mqVars, file_stat, errors>>

Next ==
    \/ \E c \in Copiers : init(c) \/ run(c)
    \/ \E m \in Msgs : send(m)
    \/ restart

(* Every thread is scheduled; get() waits no longer than its interval. *)
Spec == Init /\ [][Next]_vars /\ \A c \in Copiers : WF_vars(init(c)) /\ WF_vars(run(c))
-----------------------------------------------------------------------------
Waiting == (ToSet(queue) \cup {m_held[c] : c \in Copiers}) \ {None}

Lost == {m \in arrived \ Waiting : copies[m] = 0}

(***************************************************************************)
(* copyQ implements MessageMove: a message leaves in the step that makes   *)
(* its only copy, or it is lost; it is never copied twice and never copied *)
(* after it was lost.                                                      *)
(***************************************************************************)
Mover == INSTANCE MessageMove WITH
    Queues  <- {"q_out"},
    Plans   <- [m \in Msgs |-> {[q \in {"q_out"} |-> 1]}],
    waiting <- Waiting,
    failed  <- Lost,
    out     <- [q \in {"q_out"} |-> copies]

CopiesAtMostOnce == Mover!Spec

(***************************************************************************)
(* How much the gets outside the unit of work can cost: besides messages   *)
(* that do not parse, a failed call loses at most one message and the end  *)
(* of the process at most one for every thread.  A message of which a cut  *)
(* copy was put does not count as lost.                                    *)
(***************************************************************************)
LossIsBounded ==
    Cardinality(Lost \ Bad) <= errors + Cardinality(Copiers) * crashes

Ended(c) == pc[c] = "end"

(***************************************************************************)
(* A failure in one thread stops all of them: cmd_g_close() sets the       *)
(* static flag that every isStop() reads.                                  *)
(***************************************************************************)
StopSpreads == ~flag_global_state ~> (flag_global_state \/ \A c \in Copiers : Ended(c))

(***************************************************************************)
(* While a thread runs, every message leaves the queue, also behind ones   *)
(* that do not parse.                                                      *)
(***************************************************************************)
QueueDrains ==
    \A m \in Msgs : (m \in ToSet(queue)) ~> (m \notin ToSet(queue) \/ \A c \in Copiers : Ended(c))
=============================================================================
