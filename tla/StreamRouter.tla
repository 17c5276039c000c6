---------------------------- MODULE StreamRouter ----------------------------
(***************************************************************************)
(* org.little.mq.stream.Router with its Command thread, on top of the      *)
(* processors of StreamProcessor.                                          *)
(*                                                                         *)
(* Router.work reads configurations from a queue (browsing, so they stay   *)
(* there), stops the processors of the old one and starts those of the     *)
(* new one.  Command.run waits for a command on a queue it holds           *)
(* exclusively.  Threads stop each other with flags only: flag_state of    *)
(* the router, of the command thread and of every processor.               *)
(***************************************************************************)
EXTENDS Integers, Sequences, SequencesExt

CONSTANTS Procs, Ifaces, Sources, Queues, Msgs, source, error, route, size,
          BFRLNGTH_INIT, BFRLNGTH_MAX, TotalLength, NoIface, NoMsg, MaxFaults,
          Configs,     \* configuration messages
          ifaces,      \* ifaces[c]: the interfaces of c, << >> if c is malformed
          NoCfg,       \* str_cfg == null
          NoProc,      \* an entry of proc that is null
          MaxConfigs,  \* bound: configurations ever put on the queue
          MaxCommands, \* bound: commands ever put on the queue
          MaxRouterFaults, \* bound: failed calls of the router and the command thread
          MaxCrashes   \* bound: ends of the process

(* What StreamProcessor assumes of its constants. *)
ASSUME ProcessorAssumption ==
    /\ route \in [Ifaces -> [Msgs -> [to : Seq(Queues), throws : BOOLEAN]]]
    /\ source \in [Ifaces -> Sources]
    /\ error \in [Ifaces -> Queues]
    /\ size \in [Msgs -> Nat]
    /\ BFRLNGTH_INIT \in Nat /\ BFRLNGTH_MAX \in Nat /\ MaxFaults \in Nat
    /\ TotalLength \in BOOLEAN
    /\ NoIface \notin Ifaces /\ NoMsg \notin Msgs

ASSUME ConfigAssumption ==
    /\ ifaces \in [Configs -> Seq(Ifaces)]
    /\ NoCfg \notin Configs
    /\ NoProc \notin Procs
    /\ MaxConfigs \in Nat /\ MaxCommands \in Nat
    /\ MaxRouterFaults \in Nat /\ MaxCrashes \in Nat

VARIABLES in, arrived, out, held, puts, flag_state, pc, iface, cur, idx,
          max_size_msg, putFailed, faults

P == INSTANCE StreamProcessor

VARIABLES
    cfgq,      \* SYSTEM.STREAM.CONFIG
    cmdq,      \* SYSTEM.STREAM.COMMAND
    rpc,       \* where the router thread is
    rflag,     \* Router.flag_state
    str_cfg,   \* the configuration read but not started yet
    browsed,   \* browse cursor of q_cfg
    proc,      \* Router.proc; << >> when null
    k,         \* loop index over proc
    cpc,       \* where the command thread is
    cflag,     \* Command.flag_state
    cgot,      \* commands got in the command thread's unit of work
    rfaults,   \* calls of the router and the command thread that failed
    crashes

mqVars      == <<in, arrived, out, held, puts, putFailed>>
procVars    == <<flag_state, pc, iface, cur, idx, max_size_msg>>
pVars       == <<mqVars, procVars, faults>>
routerVars  == <<rpc, rflag, str_cfg, browsed, proc, k>>
commandVars == <<cpc, cflag, cgot>>
envVars     == <<cfgq, cmdq, crashes>>
vars == <<pVars, routerVars, commandVars, envVars, rfaults>>

(* A call of the router or the command thread that throws mqExcept. *)
Fault == rfaults < MaxRouterFaults /\ rfaults' = rfaults + 1

(* The texts of command messages: only whether it is empty matters. *)
EMPTY    == ""
Commands == {EMPTY, "stop"}

CMD_INIT == P!CMD_INIT
CMD_RUN  == P!CMD_RUN
CMD_STOP == P!CMD_STOP

(* Router.init has opened the manager and the configuration queue. *)
Init ==
    /\ P!Init
    /\ rpc = "start" /\ rflag = CMD_RUN /\ str_cfg = NoCfg /\ browsed = 0
    /\ proc = << >> /\ k = 1
    /\ cpc = "new" /\ cflag = CMD_INIT /\ cgot = 0
    /\ cfgq = << >> /\ cmdq = << >> /\ crashes = 0 /\ rfaults = 0

(* Mutants: one of the three flags is not looked at. *)
isStop_nocommand ==
    \/ rflag < CMD_RUN
    \/ \E j \in DOMAIN proc : P!isStop(proc[j])

isStop_noprocessor == rflag < CMD_RUN \/ cflag < CMD_RUN

isStop ==
    \/ rflag < CMD_RUN
    \/ cflag < CMD_RUN
    \/ \E j \in DOMAIN proc : P!isStop(proc[j])

rgoto(l) == rpc' = l

-----------------------------------------------------------------------------
(***************************************************************************)
(* The command thread.                                                     *)
(***************************************************************************)

(* while(!isStop()) *)
command_enter ==
    /\ cpc = "top" /\ cflag = CMD_RUN
    /\ cpc' = "get"
    /\ UNCHANGED <<pVars, routerVars, cflag, cgot, envVars, rfaults>>

(* An empty command is skipped; no command: delay and try again. *)
command_skip ==
    /\ cpc = "get"
    /\ \/ cgot < Len(cmdq) /\ cmdq[cgot + 1] = EMPTY /\ cgot' = cgot + 1
       \/ cgot = Len(cmdq) /\ UNCHANGED cgot
    /\ cpc' = "top"
    /\ UNCHANGED <<pVars, routerVars, cflag, envVars, rfaults>>

(* Any other command ends the loop, and so does an error: cmd_close. *)
command_break ==
    /\ cpc = "get"
    /\ \/ cgot < Len(cmdq) /\ cmdq[cgot + 1] # EMPTY /\ cgot' = cgot + 1 /\ UNCHANGED rfaults
       \/ Fault /\ UNCHANGED cgot
    /\ cflag' = CMD_STOP
    /\ cpc' = "close"
    /\ UNCHANGED <<pVars, routerVars, envVars>>

(* cmd_close and close(); disconnecting commits the gets. *)
command_close ==
    /\ cpc = "close" \/ (cpc = "top" /\ cflag # CMD_RUN)
    /\ cflag' = CMD_STOP
    /\ cmdq' = SubSeq(cmdq, cgot + 1, Len(cmdq))
    /\ cgot' = 0
    /\ cpc' = "closed"
    /\ UNCHANGED <<pVars, routerVars, cfgq, crashes, rfaults>>

command_run == command_enter \/ command_skip \/ command_break \/ command_close

-----------------------------------------------------------------------------
(***************************************************************************)
(* Router.work.                                                            *)
(***************************************************************************)

(* cmd.start(qm); when it fails, cmd_close() and close(). *)
work_start ==
    /\ rpc = "start"
    /\ \/ /\ cpc' = "top" /\ cflag' = CMD_RUN /\ rgoto("loop")
          /\ UNCHANGED rfaults
       \/ Fault /\ rgoto("close") /\ UNCHANGED <<cpc, cflag>>
    /\ UNCHANGED <<pVars, rflag, str_cfg, browsed, proc, k, cgot, envVars>>

(* while(!isStop()) *)
work_loop ==
    /\ rpc = "loop"
    /\ rgoto(IF isStop THEN "close" ELSE "get_cfg")
    /\ k' = 1
    /\ UNCHANGED <<pVars, rflag, str_cfg, browsed, proc, commandVars, envVars, rfaults>>

(* Mutant: the first configuration read is kept. *)
get_cfg_first ==
    /\ rpc = "get_cfg"
    /\ browsed < Len(cfgq)
    /\ browsed' = browsed + 1
    /\ str_cfg' = IF str_cfg = NoCfg THEN cfgq[browsed'] ELSE str_cfg
    /\ rgoto("loop")
    /\ UNCHANGED <<pVars, rflag, proc, k, commandVars, envVars, rfaults>>

(* get_cfg: the next configuration; RET_OK, so look for another one. *)
get_cfg ==
    /\ rpc = "get_cfg"
    /\ browsed < Len(cfgq)
    /\ browsed' = browsed + 1
    /\ str_cfg' = cfgq[browsed']
    /\ rgoto("loop")
    /\ UNCHANGED <<pVars, rflag, proc, k, commandVars, envVars, rfaults>>

(* Mutant: the old processors are not stopped. *)
get_cfg_nostop ==
    /\ rpc = "get_cfg"
    /\ browsed = Len(cfgq)
    /\ rgoto(IF str_cfg = NoCfg THEN "loop" ELSE "start_proc")
    /\ UNCHANGED <<pVars, rflag, str_cfg, browsed, proc, k, commandVars, envVars, rfaults>>

(* RET_WARN: nothing new; start the last one that was read, if any. *)
get_cfg_none ==
    /\ rpc = "get_cfg"
    /\ browsed = Len(cfgq)
    /\ rgoto(IF str_cfg = NoCfg THEN "loop"
             ELSE IF proc = << >> THEN "start_proc" ELSE "stop_proc")
    /\ UNCHANGED <<pVars, rflag, str_cfg, browsed, proc, k, commandVars, envVars, rfaults>>

(* RET_ERROR or RET_FATAL: break. *)
get_cfg_error ==
    /\ rpc = "get_cfg"
    /\ Fault
    /\ rgoto("close")
    /\ UNCHANGED <<pVars, rflag, str_cfg, browsed, proc, k, commandVars, envVars>>

(* Mutant: the threads are ended from outside instead of being told to stop. *)
stop_flags_abrupt ==
    /\ rpc \in {"stop_proc", "close_stop"}
    /\ k <= Len(proc)
    /\ flag_state' = [flag_state EXCEPT ![proc[k]] = CMD_STOP]
    /\ pc' = [pc EXCEPT ![proc[k]] = "closed"]
    /\ k' = k + 1
    /\ UNCHANGED <<mqVars, iface, cur, idx, max_size_msg, faults, rpc, rflag,
                   str_cfg, browsed, proc, commandVars, envVars, rfaults>>

(* proc[i].cmd_close() for every i. *)
stop_flags ==
    /\ rpc \in {"stop_proc", "close_stop"}
    /\ k <= Len(proc)
    /\ P!cmd_close(proc[k])
    /\ k' = k + 1
    /\ UNCHANGED <<rpc, rflag, str_cfg, browsed, proc, commandVars, envVars, rfaults>>

(* Mutant: the loop index is not reset. *)
stop_wait_index ==
    /\ rpc \in {"stop_proc", "close_stop"}
    /\ k > Len(proc)
    /\ \A j \in DOMAIN proc : P!isStop(proc[j])
    /\ proc' = << >>
    /\ rgoto(IF rpc = "stop_proc" THEN "start_proc" ELSE "ended")
    /\ UNCHANGED <<pVars, rflag, str_cfg, browsed, k, commandVars, envVars, rfaults>>

(* The wait loop of stop_proc: it waits for the flags of the processors,   *)
(* not for their threads.                                                  *)
stop_wait ==
    /\ rpc \in {"stop_proc", "close_stop"}
    /\ k > Len(proc)
    /\ \A j \in DOMAIN proc : P!isStop(proc[j])
    /\ proc' = << >>
    /\ k' = 1
    /\ rgoto(IF rpc = "stop_proc" THEN "start_proc" ELSE "ended")
    /\ UNCHANGED <<pVars, rflag, str_cfg, browsed, commandVars, envVars, rfaults>>

(* start_proc up to the loop: a configuration without an interface, or one *)
(* that does not parse, is RET_ERROR, and the router closes.               *)
start_proc ==
    /\ rpc = "start_proc"
    /\ IF ifaces[str_cfg] = << >>
       THEN rgoto("close") /\ UNCHANGED proc
       ELSE rgoto("spawn") /\ proc' = [j \in DOMAIN ifaces[str_cfg] |-> NoProc]
    /\ k' = 1
    /\ UNCHANGED <<pVars, rflag, str_cfg, browsed, commandVars, envVars, rfaults>>

NewProc == CHOOSE p \in Procs : pc[p] = "new"

(* proc[i].init and proc[i].fork. *)
start_one ==
    /\ rpc = "spawn"
    /\ k <= Len(proc)
    /\ \E p \in Procs : pc[p] = "new"
    /\ P!init(NewProc, ifaces[str_cfg][k])
    /\ proc' = [proc EXCEPT ![k] = NewProc]
    /\ k' = k + 1
    /\ UNCHANGED <<rpc, rflag, str_cfg, browsed, commandVars, envVars, rfaults>>

(* init fails: cmd_close() of the router, and RET_ERROR. *)
start_error ==
    /\ rpc = "spawn"
    /\ k <= Len(proc)
    /\ \E p \in Procs : pc[p] = "new"
    /\ P!init_error(NewProc, ifaces[str_cfg][k])
    /\ proc' = [proc EXCEPT ![k] = NewProc]
    /\ rgoto("close")
    /\ k' = 1
    /\ UNCHANGED <<rflag, str_cfg, browsed, commandVars, envVars, rfaults>>

start_done ==
    /\ rpc = "spawn"
    /\ k > Len(proc)
    /\ str_cfg' = NoCfg
    /\ rgoto("loop")
    /\ UNCHANGED <<pVars, rflag, browsed, proc, k, commandVars, envVars, rfaults>>

(* Mutant: the command thread is not told to stop. *)
close_flags_nocommand ==
    /\ rpc = "close"
    /\ rflag' = CMD_STOP
    /\ \/ /\ k <= Len(proc) /\ proc[k] # NoProc
          /\ P!cmd_close(proc[k])
          /\ k' = k + 1
          /\ UNCHANGED rpc
       \/ /\ k > Len(proc)
          /\ k' = 1
          /\ rgoto("close_stop")
          /\ UNCHANGED pVars
    /\ UNCHANGED <<str_cfg, browsed, proc, commandVars, envVars, rfaults>>

(***************************************************************************)
(* Router.cmd_close: the router's flag, every processor's, the command     *)
(* thread's.  It is called on a failed start and again by close(), which   *)
(* follows immediately; one pass stands for both.  An entry of proc that   *)
(* is still null ends the router thread with a NullPointerException.       *)
(***************************************************************************)
close_flags ==
    /\ rpc = "close"
    /\ rflag' = CMD_STOP
    /\ \/ /\ k <= Len(proc) /\ proc[k] # NoProc
          /\ P!cmd_close(proc[k])
          /\ k' = k + 1
          /\ UNCHANGED <<rpc, cflag>>
       \/ /\ k <= Len(proc) /\ proc[k] = NoProc
          /\ rgoto("npe")
          /\ UNCHANGED <<pVars, k, cflag>>
       \/ /\ k > Len(proc)
          /\ cflag' = CMD_STOP
          /\ k' = 1
          /\ rgoto("close_stop")
          /\ UNCHANGED pVars
    /\ UNCHANGED <<str_cfg, browsed, proc, cpc, cgot, envVars, rfaults>>

work ==
    \/ work_start \/ work_loop
    \/ get_cfg \/ get_cfg_none \/ get_cfg_error
    \/ stop_flags \/ stop_wait
    \/ start_proc \/ start_one \/ start_error \/ start_done
    \/ close_flags

-----------------------------------------------------------------------------
(***************************************************************************)
(* The environment: operators put configurations and commands (RouterStop  *)
(* puts "stop routing"), the process may end at any time and is started    *)
(* again when the queue manager has ended its connections.                 *)
(***************************************************************************)
put_config(c) ==
    /\ Len(cfgq) < MaxConfigs
    /\ cfgq' = Append(cfgq, c)
    /\ UNCHANGED <<pVars, routerVars, commandVars, cmdq, crashes, rfaults>>

send_command(x) ==
    /\ Len(cmdq) < MaxCommands
    /\ cmdq' = Append(cmdq, x)
    /\ UNCHANGED <<pVars, routerVars, commandVars, cfgq, crashes, rfaults>>

crash ==
    /\ rpc # "killed" /\ crashes < MaxCrashes
    /\ crashes' = crashes + 1
    /\ rgoto("killed") /\ cpc' = "killed"
    /\ UNCHANGED <<pVars, rflag, str_cfg, browsed, proc, k, cflag, cgot, cfgq, cmdq, rfaults>>

break_connection(p) ==
    /\ rpc = "killed"
    /\ P!kill(p)
    /\ UNCHANGED <<routerVars, commandVars, envVars, rfaults>>

restart ==
    /\ rpc = "killed"
    /\ \A p \in Procs : pc[p] \in {"new", "closed", "killed"}
    /\ rpc' = "start" /\ rflag' = CMD_RUN /\ str_cfg' = NoCfg /\ browsed' = 0
    /\ proc' = << >> /\ k' = 1
    /\ cpc' = "new" /\ cflag' = CMD_INIT /\ cgot' = 0
    /\ UNCHANGED <<pVars, envVars, rfaults>>

arrive ==
    /\ \E s \in Sources, m \in Msgs : P!arrive(s, m)
    /\ UNCHANGED <<routerVars, commandVars, envVars, rfaults>>

processor_run(p) ==
    /\ rpc # "killed"
    /\ P!run(p)
    /\ UNCHANGED <<routerVars, commandVars, envVars, rfaults>>

Next ==
    \/ work \/ command_run
    \/ \E p \in Procs : processor_run(p) \/ break_connection(p)
    \/ arrive \/ crash \/ restart
    \/ \E c \in Configs : put_config(c)
    \/ \E x \in Commands : send_command(x)

Spec == Init /\ [][Next]_vars

(* Every thread of the process is scheduled. *)
Fairness ==
    /\ WF_vars(work)
    /\ WF_vars(command_run)
    /\ \A p \in Procs : WF_vars(processor_run(p))

FairSpec == Spec /\ Fairness
-----------------------------------------------------------------------------
RouterLocations ==
    {"start", "loop", "get_cfg", "stop_proc", "start_proc", "spawn", "close",
     "close_stop", "ended", "npe", "killed"}

TypeOK ==
    /\ P!TypeOK
    /\ cfgq \in Seq(Configs)
    /\ cmdq \in Seq(Commands)
    /\ rpc \in RouterLocations
    /\ rflag \in {CMD_STOP, CMD_RUN}
    /\ str_cfg \in Configs \cup {NoCfg}
    /\ browsed \in 0 .. Len(cfgq)
    /\ proc \in Seq(Procs \cup {NoProc})
    /\ k \in 1 .. Len(proc) + 1
    /\ cpc \in {"new", "top", "get", "close", "closed", "killed"}
    /\ cflag \in {CMD_STOP, CMD_INIT, CMD_RUN}
    /\ cgot \in 0 .. Len(cmdq)
    /\ crashes \in 0 .. MaxCrashes
    /\ rfaults \in 0 .. MaxRouterFaults

(***************************************************************************)
(* The router never loses sight of a processor that was not told to stop:  *)
(* whatever it read, started, failed to start or stopped, such a processor *)
(* is in Router.proc, where cmd_close and stop_proc reach it.              *)
(***************************************************************************)
RunningIsTracked ==
    rpc # "killed" =>
        \A p \in Procs :
            flag_state[p] = CMD_RUN /\ pc[p] # "killed" => p \in ToSet(proc)

(***************************************************************************)
(* When the router is between configurations, its processors are those of  *)
(* the last configuration it read: work() drains the queue, stops the old  *)
(* processors and starts one for each interface, in order.                 *)
(***************************************************************************)
RunsLastConfiguration ==
    rpc \in {"loop", "get_cfg"} /\ str_cfg = NoCfg /\ browsed > 0 =>
        /\ Len(proc) = Len(ifaces[cfgq[browsed]])
        /\ \A j \in DOMAIN proc : iface[proc[j]] = ifaces[cfgq[browsed]][j]

(***************************************************************************)
(* A router that ended normally has told every thread to stop; one that    *)
(* died in cmd_close (a failed start before the last interface) has told   *)
(* every processor, and only the command thread is left running.           *)
(***************************************************************************)
EndStopsThreads ==
    /\ rpc \in {"ended", "npe"} =>
          \A p \in Procs : pc[p] \in {"new", "killed"} \/ P!isStop(p)
    /\ rpc = "ended" => cflag = CMD_STOP

(***************************************************************************)
(* The comments in Router.work: the old processors are stopped, then the   *)
(* new ones are started.  So no old thread is still moving messages when a *)
(* new processor has been started.                                         *)
(***************************************************************************)
StoppedBeforeStart ==
    rpc = "spawn" =>
        \A p \in Procs : P!isStop(p) => pc[p] \in {"new", "closed", "killed"}

Ended ==
    /\ rpc \in {"ended", "npe", "killed"}
    /\ cpc \in {"new", "closed", "killed"}
    /\ rpc # "killed" => \A p \in Procs : pc[p] \in {"new", "closed", "dead", "killed"}

(***************************************************************************)
(* A stop command ends the router, the command thread and every processor, *)
(* whatever the router is doing when it comes.                             *)
(***************************************************************************)
StopCommandStops == ("stop" \in ToSet(cmdq)) ~> Ended

(***************************************************************************)
(* A processor that stopped by itself is noticed: the router ends or has   *)
(* replaced it (Router.isStop looks at every processor).                   *)
(***************************************************************************)
StoppedProcessorIsNoticed ==
    \A p \in Procs :
        (p \in ToSet(proc) /\ P!isStop(p)) ~>
            (p \notin ToSet(proc) \/ rpc \in {"ended", "npe", "killed"})

(***************************************************************************)
(* The router drives its processors only through what Processor offers:    *)
(* every behaviour of the system is one of StreamProcessor.                *)
(***************************************************************************)
ProcessorSpec == P!Init /\ [][P!Next]_pVars
=============================================================================
