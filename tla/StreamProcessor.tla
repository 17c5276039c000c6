--------------------------- MODULE StreamProcessor ---------------------------
(***************************************************************************)
(* org.little.mq.stream.Processor: the threads that move messages from the *)
(* source queue of an interface to the queues its routing table names.     *)
(* Every processor has its own connection to the queue manager, and so its *)
(* own unit of work: the gets and puts between two commits (mqapi opens    *)
(* queues with MQGMO_SYNCPOINT and MQPMO_SYNCPOINT).                       *)
(*                                                                         *)
(* A message that is got stays on its queue, locked by the getter, until   *)
(* the unit of work ends.  A get returns any unlocked message (messages    *)
(* have priorities).  Queues that are written are counted: out[q][m] is    *)
(* the number of committed copies of m on q.                               *)
(***************************************************************************)
EXTENDS Integers, Sequences, FiniteSets

CONSTANTS Procs,          \* processor threads that may ever be created
          Ifaces,         \* interface definitions (cfg_interface)
          Sources,        \* source queues
          Queues,         \* target and error queues
          Msgs,           \* messages, each put once on a source queue
          source,         \* source[i]: the SOURCE_QUEUE_NAME of interface i
          error,          \* error[i]: the ERROR_QUEUE_NAME of interface i
          route,          \* route[i][m]: what Processor.route returns
          size,           \* size[m]: length of the message in bytes
          BFRLNGTH_INIT,  \* first buffer length of a processor
          BFRLNGTH_MAX,   \* a longer message stops the processor
          TotalLength,    \* what getMessageLength tells of a refused message
          NoIface,        \* cfg_inter of a processor that is not initialised
          NoMsg,          \* cur of a processor that has no message
          MaxFaults       \* bound: queue manager calls that fail

(***************************************************************************)
(* route[i][m].to is the list of destinations, empty when route() returns  *)
(* null; route[i][m].throws tells that getRoute leaves with an unchecked   *)
(* exception (StreamRoute says when that is).                              *)
(***************************************************************************)
ASSUME RouteAssumption ==
    route \in [Ifaces -> [Msgs -> [to : Seq(Queues), throws : BOOLEAN]]]

ASSUME QueueAssumption ==
    /\ source \in [Ifaces -> Sources]
    /\ error \in [Ifaces -> Queues]

ASSUME SizeAssumption ==
    /\ size \in [Msgs -> Nat]
    /\ BFRLNGTH_INIT \in Nat
    /\ BFRLNGTH_MAX \in Nat
    /\ TotalLength \in BOOLEAN
    /\ MaxFaults \in Nat

ASSUME NullAssumption == NoIface \notin Ifaces /\ NoMsg \notin Msgs

CMD_INIT == 0
CMD_RUN  == 1
CMD_STOP == -1

VARIABLES
    in,          \* in[s]: the messages on source queue s
    arrived,     \* messages ever put on a source queue
    out,         \* out[q][m]: committed copies of m on q
    held,        \* held[p]: messages got in p's unit of work
    puts,        \* puts[p][q][m]: copies put in p's unit of work
    flag_state,  \* flag_state[p], written by p and by the router
    pc,          \* where the thread is in run()
    iface,       \* cfg_inter of p
    cur,         \* the message p works on
    idx,         \* puts of cur done so far
    max_size_msg,\* buffer length of p's next get
    putFailed,   \* history: messages with a failed put in their unit of work
    faults       \* queue manager calls that failed so far

mqVars   == <<in, arrived, out, held, puts, putFailed>>
procVars == <<flag_state, pc, iface, cur, idx, max_size_msg>>
vars     == <<mqVars, procVars, faults>>

NoPuts == [q \in Queues |-> [m \in Msgs |-> 0]]

Locked == UNION {held[p] : p \in Procs}

isStop(p) == flag_state[p] < CMD_RUN

(***************************************************************************)
(* The destinations of a message: the list route() returned, or the error  *)
(* queue of the interface when it returned null.                           *)
(***************************************************************************)
Dest(i, m) == IF route[i][m].to = << >> THEN <<error[i]>> ELSE route[i][m].to

Init ==
    /\ in = [s \in Sources |-> {}]
    /\ arrived = {}
    /\ out = NoPuts
    /\ held = [p \in Procs |-> {}]
    /\ puts = [p \in Procs |-> NoPuts]
    /\ putFailed = {}
    /\ flag_state = [p \in Procs |-> CMD_INIT]
    /\ pc = [p \in Procs |-> "new"]
    /\ iface = [p \in Procs |-> NoIface]
    /\ cur = [p \in Procs |-> NoMsg]
    /\ idx = [p \in Procs |-> 0]
    /\ max_size_msg = [p \in Procs |-> BFRLNGTH_INIT]
    /\ faults = 0

-----------------------------------------------------------------------------
(***************************************************************************)
(* The queue manager.                                                      *)
(***************************************************************************)

(* A call of the queue manager that throws mqExcept. *)
Fault == faults < MaxFaults /\ faults' = faults + 1

(* MQQueueManager.commit: the unit of work takes effect. *)
CommitUnit(p) ==
    /\ in' = [s \in Sources |-> in[s] \ held[p]]
    /\ out' = [q \in Queues |-> [m \in Msgs |-> out[q][m] + puts[p][q][m]]]
    /\ held' = [held EXCEPT ![p] = {}]
    /\ puts' = [puts EXCEPT ![p] = NoPuts]
    /\ UNCHANGED <<arrived, putFailed>>

(* The unit of work is rolled back: its messages are unlocked. *)
BackoutUnit(p) ==
    /\ held' = [held EXCEPT ![p] = {}]
    /\ puts' = [puts EXCEPT ![p] = NoPuts]
    /\ putFailed' = putFailed \ held[p]
    /\ UNCHANGED <<in, arrived, out>>

(* An application puts a message on a source queue. *)
arrive(s, m) ==
    /\ m \notin arrived
    /\ arrived' = arrived \cup {m}
    /\ in' = [in EXCEPT ![s] = @ \cup {m}]
    /\ UNCHANGED <<out, held, puts, putFailed, procVars, faults>>

-----------------------------------------------------------------------------
(***************************************************************************)
(* What the router thread does to a processor: init followed by fork, and  *)
(* cmd_close.                                                              *)
(***************************************************************************)
init(p, i) ==
    /\ pc[p] = "new"
    /\ pc' = [pc EXCEPT ![p] = "top"]
    /\ iface' = [iface EXCEPT ![p] = i]
    /\ flag_state' = [flag_state EXCEPT ![p] = CMD_RUN]
    /\ UNCHANGED <<mqVars, cur, idx, max_size_msg, faults>>

(* Opening the manager or a queue fails: close(), which ends in cmd_close. *)
init_error(p, i) ==
    /\ pc[p] = "new"
    /\ Fault
    /\ pc' = [pc EXCEPT ![p] = "closed"]
    /\ iface' = [iface EXCEPT ![p] = i]
    /\ flag_state' = [flag_state EXCEPT ![p] = CMD_STOP]
    /\ UNCHANGED <<mqVars, cur, idx, max_size_msg>>

(* Mutant: the flag is counted down instead of set. *)
cmd_close_decrement(p) ==
    /\ pc[p] # "new"
    /\ flag_state' = [flag_state EXCEPT ![p] = @ - 1]
    /\ UNCHANGED <<mqVars, pc, iface, cur, idx, max_size_msg, faults>>

cmd_close(p) ==
    /\ pc[p] # "new"
    /\ flag_state' = [flag_state EXCEPT ![p] = CMD_STOP]
    /\ UNCHANGED <<mqVars, pc, iface, cur, idx, max_size_msg, faults>>

-----------------------------------------------------------------------------
(***************************************************************************)
(* The loop of run().                                                      *)
(***************************************************************************)
goto(p, l) == pc' = [pc EXCEPT ![p] = l]

(* Mutant: the loop does not look at the flag. *)
run_enter_unchecked(p) ==
    /\ pc[p] = "top"
    /\ goto(p, "get")
    /\ UNCHANGED <<mqVars, flag_state, iface, cur, idx, max_size_msg, faults>>

(* while(!isStop()) *)
run_enter(p) ==
    /\ pc[p] = "top"
    /\ ~isStop(p)
    /\ goto(p, "get")
    /\ UNCHANGED <<mqVars, flag_state, iface, cur, idx, max_size_msg, faults>>

(* close(): disconnecting ends the unit of work, normally by committing it; *)
(* the queue manager backs it out when the connection is broken.            *)
close(p) ==
    /\ pc[p] = "top"
    /\ isStop(p)
    /\ goto(p, "closed")
    /\ \/ CommitUnit(p) /\ UNCHANGED faults
       \/ BackoutUnit(p) /\ Fault
    /\ UNCHANGED <<flag_state, iface, cur, idx, max_size_msg>>

(* q_in.get(m) returns RET_OK. *)
get(p) ==
    /\ pc[p] = "get"
    /\ \E m \in in[source[iface[p]]] \ Locked :
          /\ size[m] <= max_size_msg[p]
          /\ held' = [held EXCEPT ![p] = @ \cup {m}]
          /\ cur' = [cur EXCEPT ![p] = m]
          /\ max_size_msg' = [max_size_msg EXCEPT ![p] = size[m]]
    /\ idx' = [idx EXCEPT ![p] = 0]
    /\ goto(p, "route")
    /\ UNCHANGED <<in, arrived, out, puts, putFailed, flag_state, iface, faults>>

(* RET_WARN, no message: the length of the empty message is the next size. *)
get_none(p) ==
    /\ pc[p] = "get"
    /\ in[source[iface[p]]] \subseteq Locked
    /\ max_size_msg' = [max_size_msg EXCEPT ![p] = 0]
    /\ goto(p, "top")
    /\ UNCHANGED <<mqVars, flag_state, iface, cur, idx, faults>>

(* Mutant: the truncated message is accepted into the unit of work. *)
get_resize_accepted(p) ==
    /\ pc[p] = "get"
    /\ \E m \in in[source[iface[p]]] \ Locked :
          /\ size[m] > max_size_msg[p]
          /\ max_size_msg' = [max_size_msg EXCEPT ![p] = size[m]]
          /\ held' = [held EXCEPT ![p] = @ \cup {m}]
    /\ goto(p, "top")
    /\ UNCHANGED <<in, arrived, out, puts, putFailed, flag_state, iface, cur, idx, faults>>

(* Mutant: the buffer does not grow. *)
get_resize_same(p) ==
    /\ pc[p] = "get"
    /\ \E m \in in[source[iface[p]]] \ Locked : size[m] > max_size_msg[p]
    /\ goto(p, "top")
    /\ UNCHANGED <<mqVars, flag_state, iface, cur, idx, max_size_msg, faults>>

(***************************************************************************)
(* The length m.getLen() gives after MQRC_TRUNCATED_MSG_FAILED.  It calls  *)
(* MQMessage.getMessageLength(), the bytes the message object holds; the   *)
(* length on the queue is getTotalMessageLength(), which mq_msg offers as  *)
(* getTotalLen() and run() does not use.  TotalLength tells whether the    *)
(* library sets the first to the second; if not, the object holds at most  *)
(* what fitted the buffer, and the buffer never grows.                     *)
(***************************************************************************)
getLen(p, m) == IF TotalLength THEN {size[m]} ELSE 0 .. max_size_msg[p]

(* RET_ERROR, the buffer is too short: try again with the length reported, *)
(* or give up when it is beyond BFRLNGTH_MAX.                              *)
get_resize(p) ==
    /\ pc[p] = "get"
    /\ \E m \in in[source[iface[p]]] \ Locked : \E n \in getLen(p, m) :
          /\ size[m] > max_size_msg[p]
          /\ max_size_msg' = [max_size_msg EXCEPT ![p] = n]
          /\ flag_state' = IF n > BFRLNGTH_MAX
                            THEN [flag_state EXCEPT ![p] = CMD_STOP]
                            ELSE flag_state
    /\ goto(p, "top")
    /\ UNCHANGED <<mqVars, iface, cur, idx, faults>>

(* mqExcept: cmd_close and continue. *)
get_error(p) ==
    /\ pc[p] = "get"
    /\ Fault
    /\ flag_state' = [flag_state EXCEPT ![p] = CMD_STOP]
    /\ goto(p, "top")
    /\ UNCHANGED <<mqVars, iface, cur, idx, max_size_msg>>

(* route(m).  An unchecked exception ends the thread: neither close() nor  *)
(* cmd_close runs, and the unit of work stays open.                        *)
do_route(p) ==
    /\ pc[p] = "route"
    /\ goto(p, IF route[iface[p]][cur[p]].throws THEN "dead" ELSE "put")
    /\ UNCHANGED <<mqVars, flag_state, iface, cur, idx, max_size_msg, faults>>

(* Mutant: the target queue is opened without MQPMO_SYNCPOINT. *)
put_nosync(p) ==
    /\ pc[p] = "put"
    /\ LET to == Dest(iface[p], cur[p])
       IN  /\ idx[p] < Len(to)
           /\ out' = [out EXCEPT ![to[idx[p] + 1]][cur[p]] = @ + 1]
    /\ idx' = [idx EXCEPT ![p] = @ + 1]
    /\ UNCHANGED <<in, arrived, puts, held, putFailed, flag_state, pc, iface,
                   cur, max_size_msg, faults>>

(* One q_w.put(m), or q_error.put(m). *)
put(p) ==
    /\ pc[p] = "put"
    /\ LET to == Dest(iface[p], cur[p])
       IN  /\ idx[p] < Len(to)
           /\ puts' = [puts EXCEPT ![p][to[idx[p] + 1]][cur[p]] = @ + 1]
    /\ idx' = [idx EXCEPT ![p] = @ + 1]
    /\ UNCHANGED <<in, arrived, out, held, putFailed, flag_state, pc, iface,
                   cur, max_size_msg, faults>>

(* Mutant: the puts are tried again from the first, in the same unit of work. *)
put_error_again(p) ==
    /\ pc[p] = "put"
    /\ idx[p] < Len(Dest(iface[p], cur[p]))
    /\ Fault
    /\ putFailed' = putFailed \cup {cur[p]}
    /\ idx' = [idx EXCEPT ![p] = 0]
    /\ UNCHANGED <<in, arrived, out, held, puts, flag_state, pc, iface, cur, max_size_msg>>

(* The put throws mqExcept: logged, continue.  There is no backout. *)
put_error(p) ==
    /\ pc[p] = "put"
    /\ idx[p] < Len(Dest(iface[p], cur[p]))
    /\ Fault
    /\ putFailed' = putFailed \cup {cur[p]}
    /\ goto(p, "top")
    /\ UNCHANGED <<in, arrived, out, held, puts, flag_state, iface, cur, idx,
                   max_size_msg>>

(* Mutant: the commit is inside the loop over the destinations. *)
commit_early(p) ==
    /\ pc[p] = "put"
    /\ idx[p] > 0
    /\ CommitUnit(p)
    /\ goto(p, "top")
    /\ UNCHANGED <<flag_state, iface, cur, idx, max_size_msg, faults>>

commit(p) ==
    /\ pc[p] = "put"
    /\ idx[p] = Len(Dest(iface[p], cur[p]))
    /\ CommitUnit(p)
    /\ goto(p, "top")
    /\ UNCHANGED <<flag_state, iface, cur, idx, max_size_msg, faults>>

(* The commit throws mqExcept: the queue manager has backed the unit out.  *)
commit_error(p) ==
    /\ pc[p] = "put"
    /\ idx[p] = Len(Dest(iface[p], cur[p]))
    /\ Fault
    /\ BackoutUnit(p)
    /\ goto(p, "top")
    /\ UNCHANGED <<flag_state, iface, cur, idx, max_size_msg>>

(* The process ends while p runs (or after p died): p's unit is backed out. *)
kill(p) ==
    /\ pc[p] \notin {"new", "closed", "killed"}
    /\ BackoutUnit(p)
    /\ goto(p, "killed")
    /\ UNCHANGED <<flag_state, iface, cur, idx, max_size_msg, faults>>

run(p) ==
    \/ run_enter(p) \/ close(p)
    \/ get(p) \/ get_none(p) \/ get_resize(p) \/ get_error(p)
    \/ do_route(p)
    \/ put(p) \/ put_error(p) \/ commit(p) \/ commit_error(p)

Next ==
    \/ \E s \in Sources, m \in Msgs : arrive(s, m)
    \/ \E p \in Procs, i \in Ifaces : init(p, i) \/ init_error(p, i)
    \/ \E p \in Procs : cmd_close(p) \/ run(p) \/ kill(p)

Spec == Init /\ [][Next]_vars

(* The threads are scheduled. *)
Fairness == \A p \in Procs : WF_vars(run(p))

FairSpec == Spec /\ Fairness
-----------------------------------------------------------------------------
Locations == {"new", "top", "get", "route", "put", "closed", "dead", "killed"}

TypeOK ==
    /\ in \in [Sources -> SUBSET Msgs]
    /\ arrived \in SUBSET Msgs
    /\ out \in [Queues -> [Msgs -> Nat]]
    /\ held \in [Procs -> SUBSET Msgs]
    /\ puts \in [Procs -> [Queues -> [Msgs -> Nat]]]
    /\ putFailed \in SUBSET Msgs
    /\ flag_state \in [Procs -> {CMD_STOP, CMD_INIT, CMD_RUN}]
    /\ pc \in [Procs -> Locations]
    /\ iface \in [Procs -> Ifaces \cup {NoIface}]
    /\ cur \in [Procs -> Msgs \cup {NoMsg}]
    /\ idx \in [Procs -> Nat]
    /\ max_size_msg \in [Procs -> Nat]
    /\ faults \in 0 .. MaxFaults

Pending == UNION {in[s] : s \in Sources}

(* How often queue q occurs among the first n entries of a list. *)
Occurs(to, n, q) == Cardinality({k \in 1 .. n : to[k] = q})

Whole(i, m) == \A q \in Queues : out[q][m] = Occurs(Dest(i, m), Len(Dest(i, m)), q)

(***************************************************************************)
(* A message that is still on its source queue (waiting, locked by a       *)
(* processor, or returned by a backout) has no copy on any target queue:   *)
(* gets and puts of Processor.run take effect together.                    *)
(***************************************************************************)
PendingIsUndelivered == \A m \in Pending, q \in Queues : out[q][m] = 0

(***************************************************************************)
(* A message that left its source queue is on exactly the queues route()   *)
(* gave, as often as route() gave them (on the error queue for null),      *)
(* unless one of its own puts failed: other processors, failed commits,    *)
(* retries and the end of the process never lose or repeat it.             *)
(***************************************************************************)
ConsumedIsDelivered ==
    \A m \in arrived \ (Pending \cup putFailed) : \E i \in Ifaces : Whole(i, m)

(***************************************************************************)
(* Between two messages a processor holds no message, except those whose   *)
(* put failed: run() continues after a failed put without backout, so the  *)
(* get stays in the unit of work that the next message commits.            *)
(***************************************************************************)
IdleHoldsFailedOnly ==
    \A p \in Procs : pc[p] \in {"new", "top", "get"} => held[p] \subseteq putFailed

(***************************************************************************)
(* The stop flag of a processor is final, whoever writes it, and a thread  *)
(* that reaches the head of its loop after it was set gets no further      *)
(* message: a stopped processor finishes at most the message it has.       *)
(***************************************************************************)
StopIsFinal ==
    [][\A p \in Procs :
          flag_state[p] = CMD_STOP =>
              /\ flag_state'[p] = CMD_STOP
              /\ pc[p] = "top" => pc'[p] # "get"]_vars

(* No thread reads source queue s any more. *)
Unserved(s) ==
    \A p \in Procs :
        \/ iface[p] = NoIface
        \/ source[iface[p]] # s
        \/ pc[p] \in {"closed", "dead", "killed"}

(***************************************************************************)
(* A message on a source queue is eventually consumed, unless its put      *)
(* failed, the thread that got it died of an unchecked exception, or no    *)
(* thread is left to read the queue.  This needs TotalLength: a processor  *)
(* whose buffer does not grow refuses a longer message for ever.           *)
(***************************************************************************)
EventuallyConsumed ==
    \A s \in Sources, m \in Msgs :
        m \in in[s] ~>
            \/ m \notin in[s] \/ m \in putFailed \/ Unserved(s)
            \/ \E p \in Procs : pc[p] = "dead" /\ m \in held[p]

-----------------------------------------------------------------------------
(* The deliveries of a message that route() may decide on. *)
deliveries ==
    [m \in Msgs |-> {[q \in Queues |-> Occurs(Dest(i, m), Len(Dest(i, m)), q)] : i \in Ifaces}]

Mover == INSTANCE MessageMove
            WITH Plans <- deliveries, waiting <- Pending, failed <- putFailed \ Pending

(***************************************************************************)
(* The processors implement MessageMove: whatever the threads do with      *)
(* their units of work, the queues change only when a message arrives, or  *)
(* when messages leave and all copies that Processor.route decided on      *)
(* appear in the same step (at most those, if a put was refused).          *)
(***************************************************************************)
MovesExactlyOnce == Mover!Spec
=============================================================================
