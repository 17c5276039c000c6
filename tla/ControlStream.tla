---------------------------- MODULE ControlStream ----------------------------
(***************************************************************************)
(* org.little.mq.controlStream: the depths of the queues of some flows are *)
(* polled, and a flow with a queue over its limit is stopped by a message  *)
(* on its control queue and let run again, the control queue being         *)
(* cleared, when all its queues are empty.                                 *)
(*                                                                         *)
(* One node with one local group.  The group's task and the threads of the *)
(* web page all run fc_flowL.work() under the lock of the flow; the page's *)
(* setFlag changes the control before it takes that lock.  The manager's   *)
(* task, and the page's ClearQ, count the active flows.  A message that is *)
(* on a control queue although is_set_flag is false was, to the code, put  *)
(* there by hand (is_manual): it then leaves the flow alone.               *)
(*                                                                         *)
(* mq_contrl.lengthLocalQueues answers 0 to any failure, and mq_util.putMsg*)
(* and clear report none, so no call of a connection that was once opened  *)
(* throws.  Flows have no <channel> here; node.is_control_stream is true.  *)
(***************************************************************************)
EXTENDS Integers, Sequences, FiniteSets, FiniteSetsExt

CONSTANTS Flows,     \* a sequence: flow_list of the group
          Queues,    \* a sequence: q_list of every flow
          Group,     \* the thread that runs the task of the group
          Webs,      \* threads of the web page
          None,
          MinCount,  \* min_count_group
          DeepAlarm, \* deep_alarm
          MaxDepth,  \* bound: depth of a queue
          MaxUpsets  \* bound: failures, commands, restarts and messages put by hand

Threads == {Group} \cup Webs
FlowSet == {Flows[i] : i \in 1..Len(Flows)}
QueueSet == {Queues[i] : i \in 1..Len(Queues)}

ASSUME ControlAssumption ==
    /\ Group \notin Webs /\ None \notin Threads
    /\ Len(Flows) \in Nat \ {0} /\ Len(Queues) \in Nat \ {0}
    /\ MinCount \in Nat /\ DeepAlarm \in Nat /\ MaxDepth \in Nat /\ MaxUpsets \in Nat

VARIABLES
    depth,       \* depth[f][q]: messages on the queue
    own, byHand, \* own[f], byHand[f]: the control queue has messages of the controller, of others
    deepQ,       \* deepQ[f][q]: fc_Q.deepQ, -1 before its manager was first opened
    alarm,       \* alarm[f]: fc_flow.is_alarm
    is_manual, is_set_flag,  \* of the control of a flow
    open,        \* open[f]: queues whose manager was opened
    cntrl,       \* cntrl[f]: the connection for setFlag is open
    lock,        \* lock[f]: the thread inside fc_flowL.work, or None
    pc, at,      \* of a thread, and the flow it is at
    at_q,        \* at_q[t]: index of the queue it polls next
    count_group, count_node, \* count_active_flow of the group and of the node
    skipped,     \* history, skipped[f]: isControlStream() was false at the last change of alarm[f]
    upset,       \* history, upset[f]: what besides the controller acted on the control of f
    upsets       \* number of such events

mqVars   == <<depth, own, byHand>>
ctlVars  == <<is_manual, is_set_flag, cntrl>>
qVars    == <<deepQ, open>>
thrVars  == <<pc, at, at_q>>
cntVars  == <<count_group, count_node>>
hisVars  == <<skipped, upset, upsets>>
vars == <<mqVars, ctlVars, qVars, alarm, lock, thrVars, cntVars, hisVars>>

RUN  == FALSE
STOP == TRUE

all(v)   == [f \in FlowSet |-> v]
each(v)  == [t \in Threads |-> v]
every(v) == [q \in QueueSet |-> v]

(* init(); the connections to control queues may fail to open. *)
Init ==
    /\ deepQ = all(every(0)) /\ open = all({}) /\ alarm = all(FALSE)
    /\ is_manual = all(FALSE) /\ is_set_flag = all(FALSE) /\ cntrl \in [FlowSet -> BOOLEAN]
    /\ lock = all(None) /\ pc = each("idle") /\ at = each(1) /\ at_q = each(1)
    /\ count_group = 0 /\ count_node = 0
    /\ depth = all(every(0)) /\ own = all(FALSE) /\ byHand = all(FALSE)
    /\ skipped = all(FALSE)
    /\ upset = [f \in FlowSet |-> IF cntrl[f] THEN {} ELSE {"fault"}]
    /\ upsets = Cardinality({f \in FlowSet : ~cntrl[f]}) /\ upsets <= MaxUpsets

flow(t) == Flows[at[t]]
to(t, l) == pc' = [pc EXCEPT ![t] = l]

upsetBy(f, why) ==
    /\ upsets < MaxUpsets /\ upsets' = upsets + 1
    /\ upset' = [upset EXCEPT ![f] = @ \cup {why}]

(* The threads inside the setFlag of a control. *)
setting(f) == {t \in Threads : flow(t) = f /\ pc[t] \in {"read", "put", "clear"}}

(* fc_node.isControlStream *)
isControlStream == count_node - MinCount >= 0

----------------------------------------------------------------------------
(* fc_controlL.setFlag: controlFlag, then the early return of a control that *)
(* is manual or has no connection.                                           *)
setFlag(t, f, flag, refused) ==
    /\ is_set_flag' = [is_set_flag EXCEPT ![f] = IF is_manual[f] THEN @ ELSE flag]
    /\ to(t, IF is_manual[f] \/ ~cntrl[f] THEN refused ELSE "read")

(* Where a thread goes when setFlag returns: out of the lock, or on to work(). *)
back(t) == IF lock[flow(t)] = t THEN "leave" ELSE "enter"

(* isFlag() is read again before the call to the queue manager. *)
setFlag_read(t) ==
    /\ pc[t] = "read" /\ to(t, IF is_set_flag[flow(t)] THEN "put" ELSE "clear")
    /\ UNCHANGED <<mqVars, ctlVars, qVars, alarm, lock, at, at_q, cntVars, hisVars>>

(* Mutant: the message is put in a unit of work that is never committed. *)
putMsg_uncommitted(t) ==
    /\ pc[t] = "put" /\ to(t, back(t))
    /\ UNCHANGED <<mqVars, ctlVars, qVars, alarm, lock, at, at_q, cntVars, hisVars>>

(* mq_util.putMsg: a failure is logged and not reported. *)
putMsg(t) ==
    LET f == flow(t) IN
    /\ pc[t] = "put" /\ to(t, back(t))
    /\ \/ own' = [own EXCEPT ![f] = TRUE] /\ UNCHANGED <<upset, upsets>>
       \/ upsetBy(f, "fault") /\ UNCHANGED own
    /\ UNCHANGED <<depth, byHand, ctlVars, qVars, alarm, lock, at, at_q, cntVars, skipped>>

(* mq_util.clear: gets until there is no message; a failure is logged and ends it. *)
clear(t) ==
    LET f == flow(t) IN
    /\ pc[t] = "clear" /\ to(t, back(t))
    /\ \/ /\ own' = [own EXCEPT ![f] = FALSE] /\ byHand' = [byHand EXCEPT ![f] = FALSE]
          /\ UNCHANGED <<upset, upsets>>
       \/ upsetBy(f, "fault") /\ UNCHANGED <<own, byHand>>
    /\ UNCHANGED <<depth, ctlVars, qVars, alarm, lock, at, at_q, cntVars, skipped>>

----------------------------------------------------------------------------
(* fc_flowL.work, under the lock of the flow. *)
enter(t) ==
    LET f == flow(t) IN
    /\ pc[t] = "enter" /\ lock[f] = None
    /\ lock' = [lock EXCEPT ![f] = t]
    /\ to(t, "poll") /\ at_q' = [at_q EXCEPT ![t] = 1]
    /\ upset' = IF setting(f) # {} THEN [upset EXCEPT ![f] = @ \cup {"race"}] ELSE upset
    /\ UNCHANGED <<mqVars, ctlVars, qVars, alarm, at, cntVars, skipped, upsets>>

(* fc_QL.work of one queue: not opened, read, or read as 0 by a failure. *)
poll(t) ==
    LET f == flow(t)
        q == Queues[at_q[t]]
        seen(n) == deepQ' = [deepQ EXCEPT ![f][q] = n]
    IN  /\ pc[t] = "poll"
        /\ \/ seen(depth[f][q]) /\ open' = [open EXCEPT ![f] = @ \cup {q}] /\ UNCHANGED <<upset, upsets>>
           \/ seen(0) /\ upsetBy(f, "fault") /\ open' = [open EXCEPT ![f] = @ \cup {q}]
           \/ q \notin open[f] /\ seen(-1) /\ upsetBy(f, "fault") /\ UNCHANGED open
        /\ IF at_q[t] = Len(Queues) THEN to(t, "control") /\ UNCHANGED at_q
           ELSE at_q' = [at_q EXCEPT ![t] = @ + 1] /\ UNCHANGED pc
        /\ UNCHANGED <<mqVars, ctlVars, alarm, lock, at, cntVars, skipped>>

(* fc_controlL.work: reopen() of the two connections and the length of the *)
(* control queue.  Either may fail alone.                                  *)
control_length(t) ==
    LET f == flow(t)
        read == to(t, IF own[f] \/ byHand[f] THEN "some" ELSE "none")
    IN
    /\ pc[t] = "control"
    /\ \/ cntrl' = [cntrl EXCEPT ![f] = TRUE] /\ read /\ UNCHANGED <<upset, upsets>>
       \/ ~cntrl[f] /\ UNCHANGED cntrl /\ read /\ upsetBy(f, "fault")
       \/ /\ upsetBy(f, "fault") /\ to(t, "none")
          /\ \/ UNCHANGED cntrl
             \/ cntrl' = [cntrl EXCEPT ![f] = TRUE]
    /\ UNCHANGED <<mqVars, is_manual, is_set_flag, qVars, alarm, lock, at, at_q, cntVars, skipped>>

(* Mutant: a message is taken for one put by hand whatever the flag says. *)
control_flags_manual(t) ==
    LET f == flow(t) IN
    /\ pc[t] \in {"some", "none"} /\ to(t, "decide")
    /\ is_manual' = [is_manual EXCEPT ![f] = pc[t] = "some"]
    /\ is_set_flag' = [is_set_flag EXCEPT ![f] = @ /\ pc[t] = "some"]
    /\ UNCHANGED <<mqVars, cntrl, qVars, alarm, lock, at, at_q, cntVars, hisVars>>

(* fc_controlL.work: what the length says of the two flags. *)
control_flags(t) ==
    LET f == flow(t) IN
    /\ pc[t] \in {"some", "none"} /\ to(t, "decide")
    /\ is_manual' = [is_manual EXCEPT ![f] = pc[t] = "some" /\ ~is_set_flag[f]]
    /\ is_set_flag' = [is_set_flag EXCEPT ![f] = @ /\ pc[t] = "some"]
    /\ UNCHANGED <<mqVars, cntrl, qVars, alarm, lock, at, at_q, cntVars, hisVars>>

(* Mutant: the sum is to be below 0. *)
drained_below(f) == MapThenSumSet(LAMBDA q : deepQ[f][q], QueueSet) < 0

drained(f) == MapThenSumSet(LAMBDA q : deepQ[f][q], QueueSet) = 0
over(f)    == \E q \in QueueSet : deepQ[f][q] > DeepAlarm

(* Mutant: the alarm is not kept until the queues are empty. *)
decide_level(t) ==
    LET f == flow(t) IN
    /\ pc[t] = "decide"
    /\ alarm' = [alarm EXCEPT ![f] = IF @ THEN FALSE ELSE over(f)]
    /\ IF alarm'[f] # alarm[f]
       THEN /\ skipped' = [skipped EXCEPT ![f] = ~isControlStream]
            /\ IF isControlStream THEN setFlag(t, f, IF alarm'[f] THEN STOP ELSE RUN, "leave")
               ELSE to(t, "leave") /\ UNCHANGED is_set_flag
       ELSE to(t, "leave") /\ UNCHANGED <<is_set_flag, skipped>>
    /\ UNCHANGED <<mqVars, is_manual, cntrl, qVars, lock, at, at_q, cntVars, upset, upsets>>

(* The alarm starts with a queue over its limit and ends when the lengths  *)
(* add up to 0; only a change of it sets the flag, if the node controls.   *)
decide(t) ==
    LET f == flow(t) IN
    /\ pc[t] = "decide"
    /\ alarm' = [alarm EXCEPT ![f] = IF @ THEN ~drained(f) ELSE over(f)]
    /\ IF alarm'[f] # alarm[f]
       THEN /\ skipped' = [skipped EXCEPT ![f] = ~isControlStream]
            /\ IF isControlStream THEN setFlag(t, f, IF alarm'[f] THEN STOP ELSE RUN, "leave")
               ELSE to(t, "leave") /\ UNCHANGED is_set_flag
       ELSE to(t, "leave") /\ UNCHANGED <<is_set_flag, skipped>>
    /\ UNCHANGED <<mqVars, is_manual, cntrl, qVars, lock, at, at_q, cntVars, upset, upsets>>

(* The end of work(): the group goes on to its next flow, then counts. *)
leave(t) ==
    /\ pc[t] = "leave" /\ lock' = [lock EXCEPT ![flow(t)] = None]
    /\ IF t # Group THEN to(t, "idle") /\ at' = [at EXCEPT ![t] = 1]
       ELSE IF at[t] < Len(Flows) THEN to(t, "enter") /\ at' = [at EXCEPT ![t] = @ + 1]
       ELSE to(t, "count") /\ at' = [at EXCEPT ![t] = 1]
    /\ UNCHANGED <<mqVars, ctlVars, qVars, alarm, at_q, cntVars, hisVars>>

work(t) == enter(t) \/ poll(t) \/ control_length(t) \/ control_flags(t) \/ decide(t) \/ leave(t)

----------------------------------------------------------------------------
(* fc_groupL.work: the count is 0 from here until the flows were polled. *)
group_work ==
    /\ pc[Group] = "idle" /\ to(Group, "enter")
    /\ count_group' = 0
    /\ UNCHANGED <<mqVars, ctlVars, qVars, alarm, lock, at, at_q, count_node, hisVars>>

(* fc_groupL.work: its second loop, one flow. *)
group_count ==
    /\ pc[Group] = "count"
    /\ count_group' = count_group + (IF alarm[flow(Group)] THEN 0 ELSE 1)
    /\ IF at[Group] < Len(Flows) THEN at' = [at EXCEPT ![Group] = @ + 1] /\ UNCHANGED pc
       ELSE at' = [at EXCEPT ![Group] = 1] /\ to(Group, "idle")
    /\ UNCHANGED <<mqVars, ctlVars, qVars, alarm, lock, at_q, count_node, hisVars>>

(* fc_mngr.work and fc_node.work, by the task of the manager. *)
mngr_work ==
    /\ count_node' = count_group
    /\ UNCHANGED <<mqVars, ctlVars, qVars, alarm, lock, thrVars, count_group, hisVars>>

----------------------------------------------------------------------------
(* A command of the page: fc_flowL.setFlag, outside the lock, then work(). *)
web_setFlag(w) ==
    /\ pc[w] = "idle"
    /\ \E i \in 1..Len(Flows), flag \in {RUN, STOP} :
        LET f == Flows[i] IN
        /\ at' = [at EXCEPT ![w] = i]
        /\ setFlag(w, f, flag, "enter")
        /\ upsets < MaxUpsets /\ upsets' = upsets + 1
        /\ upset' = [upset EXCEPT ![f] = @ \cup {IF lock[f] = None /\ setting(f) = {} THEN "command" ELSE "race"}]
    /\ UNCHANGED <<mqVars, is_manual, cntrl, qVars, alarm, lock, at_q, cntVars, skipped>>

(* A command of the page: ClearQ empties a queue of a flow; mngr.work follows. *)
web_ClearQ(w) ==
    /\ pc[w] = "idle" /\ to(w, "mngr")
    /\ \E f \in FlowSet, q \in QueueSet :
        /\ depth[f][q] > 0
        /\ depth' = [depth EXCEPT ![f][q] = 0]
    /\ UNCHANGED <<own, byHand, ctlVars, qVars, alarm, lock, at, at_q, cntVars, hisVars>>

web_mngr(w) ==
    /\ pc[w] = "mngr" /\ to(w, "idle")
    /\ count_node' = count_group
    /\ UNCHANGED <<mqVars, ctlVars, qVars, alarm, lock, at, at_q, count_group, hisVars>>

(* The applications and an operator with other tools. *)
traffic ==
    /\ \E f \in FlowSet, q \in QueueSet, n \in 0..MaxDepth :
        n # depth[f][q] /\ depth' = [depth EXCEPT ![f][q] = n]
    /\ UNCHANGED <<own, byHand, ctlVars, qVars, alarm, lock, thrVars, cntVars, hisVars>>

by_hand ==
    /\ \E f \in FlowSet :
        /\ upsetBy(f, "hand")
        /\ \/ byHand' = [byHand EXCEPT ![f] = TRUE] /\ UNCHANGED own
           \/ byHand' = [byHand EXCEPT ![f] = FALSE] /\ own' = [own EXCEPT ![f] = FALSE]
    /\ UNCHANGED <<depth, ctlVars, qVars, alarm, lock, thrVars, cntVars, skipped>>

(* The process ends and is started again; the queues keep their messages. *)
restart ==
    /\ upsets < MaxUpsets /\ upsets' = upsets + 1
    /\ upset' = [f \in FlowSet |-> upset[f] \cup {"restart"}]
    /\ deepQ' = all(every(0)) /\ open' = all({}) /\ alarm' = all(FALSE)
    /\ is_manual' = all(FALSE) /\ is_set_flag' = all(FALSE) /\ cntrl' = all(TRUE)
    /\ lock' = all(None) /\ pc' = each("idle") /\ at' = each(1) /\ at_q' = each(1)
    /\ count_group' = 0 /\ count_node' = 0
    /\ UNCHANGED <<mqVars, skipped>>

step(t) == work(t) \/ setFlag_read(t) \/ putMsg(t) \/ clear(t)

Next ==
    \/ \E t \in Threads : step(t)
    \/ group_work \/ group_count \/ mngr_work
    \/ \E w \in Webs : web_setFlag(w) \/ web_ClearQ(w) \/ web_mngr(w)
    \/ traffic \/ by_hand \/ restart

Spec == Init /\ [][Next]_vars

(* The scheduler runs the tasks of the group and of the manager again and  *)
(* again; calls to a queue manager return.                                 *)
FairSpec ==
    /\ Spec
    /\ \A t \in Threads : WF_vars(step(t)) /\ SF_vars(enter(t))
    /\ WF_vars(group_work) /\ WF_vars(group_count) /\ WF_vars(mngr_work)
    /\ \A w \in Webs : WF_vars(web_mngr(w))

----------------------------------------------------------------------------
(* What may lead the polls of a flow astray. *)
Excused(f) == upset[f] \cap {"hand", "fault", "restart", "race"} # {}

(* A flow is taken for stopped by hand only if a message was put on its    *)
(* control queue by hand, a call failed, the program was started anew, or a*)
(* command of the page overlapped a poll of that flow or another command.  *)
(* Its own STOP, seen by its own polls, is never taken for a manual one.   *)
ManualIsExplained ==
    \A f \in FlowSet : is_manual[f] => Excused(f)

(* Nothing else acting on it, a flow is stopped exactly while it is in     *)
(* alarm, except when the node's count was below min_count_group at the    *)
(* last change of the alarm: that STOP or RUN is never made up for.        *)
StopTracksAlarm ==
    \A f \in FlowSet : upset[f] = {} /\ ~skipped[f] /\ setting(f) = {} => (alarm[f] <=> own[f])

(* A queue that stays over its limit puts its flow in alarm for good. *)
OverIsAlarmed ==
    \A f \in FlowSet, q \in QueueSet : <>[](depth[f][q] > DeepAlarm) => <>[]alarm[f]

(* A flow whose queues stay empty, and on whose control nobody else acted, *)
(* is let run again, unless the node's count was below min_count_group     *)
(* when the alarm last changed.                                            *)
DrainedIsRun ==
    \A f \in FlowSet :
        <>[](upset[f] = {} /\ ~skipped[f] /\ \A q \in QueueSet : depth[f][q] = 0) => <>[]~own[f]
=============================================================================
