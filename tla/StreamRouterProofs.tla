------------------------- MODULE StreamRouterProofs -------------------------
(***************************************************************************)
(* Proofs about StreamRouter, for every set of configurations, processors, *)
(* interfaces, queues and messages: the router keeps its processors inside *)
(* StreamProcessor, so that what is proved there holds of the whole        *)
(* process, and it never loses a processor it started.                     *)
(***************************************************************************)
EXTENDS StreamRouter, TLAPS

-----------------------------------------------------------------------------
(***************************************************************************)
(* The inductive invariant.                                                *)
(***************************************************************************)

(* The types of the router's state, and of the state it shares with the    *)
(* processors.                                                             *)
RouterType ==
    /\ cfgq \in Seq(Configs)
    /\ cmdq \in Seq(Commands)
    /\ rpc \in RouterLocations
    /\ rflag \in {CMD_STOP, CMD_RUN}
    /\ str_cfg \in Configs \cup {NoCfg}
    /\ browsed \in 0 .. Len(cfgq)
    /\ proc \in Seq(Procs \cup {NoProc})
    /\ k \in 1 .. Len(proc) + 1
    /\ cpc \in {"new", "top", "get", "close", "closed", "killed"}
    /\ cflag \in {CMD_STOP, CMD_INIT, CMD_RUN}
    /\ cgot \in 0 .. Len(cmdq)
    /\ crashes \in 0 .. MaxCrashes
    /\ rfaults \in 0 .. MaxRouterFaults

ProcType ==
    /\ flag_state \in [Procs -> {CMD_STOP, CMD_INIT, CMD_RUN}]
    /\ pc \in [Procs -> P!Locations]
    /\ iface \in [Procs -> Ifaces \cup {NoIface}]

(* The flag of a processor tells whether it was initialised and closed. *)
Flags ==
    \A p \in Procs :
        /\ pc[p] = "new" <=> flag_state[p] = CMD_INIT
        /\ pc[p] = "closed" => flag_state[p] = CMD_STOP

(* What is in Router.proc while the router looks for configurations, stops *)
(* processors and starts them: an entry is null only between the creation  *)
(* of the array and the end of the loop over it, or after that loop failed.*)
Entries ==
    /\ \A j \in DOMAIN proc : proc[j] \in Procs => pc[proc[j]] # "new"
    /\ rpc \in {"start", "start_proc", "ended"} => proc = << >>
    /\ rpc \in {"loop", "get_cfg", "stop_proc", "close_stop"} =>
          \A j \in DOMAIN proc : proc[j] \in Procs
    /\ rpc = "get_cfg" => k = 1

Spawning ==
    rpc = "spawn" =>
        /\ Len(proc) = Len(ifaces[str_cfg])
        /\ \A j \in DOMAIN proc :
              /\ j < k => proc[j] \in Procs /\ iface[proc[j]] = ifaces[str_cfg][j]
              /\ j >= k => proc[j] = NoProc

(* The loop of cmd_close: the processors before the index were told to     *)
(* stop, and null entries are at the end.                                  *)
Closing ==
    /\ rpc \in {"close", "npe"} =>
          /\ \A j \in DOMAIN proc :
                j < k => proc[j] \in Procs /\ flag_state[proc[j]] = CMD_STOP
          /\ \A i, j \in DOMAIN proc : i < j /\ proc[i] = NoProc => proc[j] = NoProc
    /\ rpc = "npe" => k <= Len(proc) /\ proc[k] = NoProc
    /\ rpc \in {"close_stop", "ended"} => cflag = CMD_STOP

(* str_cfg is the last configuration that was read. *)
Reading ==
    /\ rpc = "start" => browsed = 0
    /\ rpc \in {"stop_proc", "start_proc", "spawn"} => str_cfg # NoCfg
    /\ str_cfg # NoCfg => browsed > 0 /\ str_cfg = cfgq[browsed]

IInv ==
    /\ RouterType
    /\ ProcType
    /\ Flags
    /\ Entries
    /\ Spawning
    /\ Closing
    /\ Reading
    /\ RunningIsTracked
    /\ RunsLastConfiguration

-----------------------------------------------------------------------------
(***************************************************************************)
(* What the steps of StreamProcessor do to the state the router shares     *)
(* with its processors.                                                    *)
(***************************************************************************)

(* A step that initialises no processor: a stop flag stays, no flag is     *)
(* raised, and a processor keeps its interface.                            *)
Keeps ==
    /\ iface' = iface
    /\ \A p \in Procs :
          /\ flag_state'[p] = CMD_RUN => flag_state[p] = CMD_RUN
          /\ flag_state[p] = CMD_STOP => flag_state'[p] = CMD_STOP
          /\ pc'[p] = "new" <=> pc[p] = "new"
          /\ pc[p] = "killed" => pc'[p] = "killed"

(* Processor.cmd_close sets the flag and nothing else. *)
LEMMA CmdClose ==
    ASSUME ProcType, Flags, NEW p \in Procs, P!cmd_close(p)
    PROVE  ProcType' /\ Flags' /\ Keeps /\ flag_state'[p] = CMD_STOP /\ pc' = pc
  BY DEF ProcType, Flags, Keeps, P!cmd_close, P!CMD_STOP, P!CMD_RUN, P!CMD_INIT,
         CMD_STOP, CMD_RUN, CMD_INIT

(* A step of Processor.run. *)
LEMMA ProcessorRun ==
    ASSUME ProcType, Flags, NEW p \in Procs, P!run(p)
    PROVE  ProcType' /\ Flags' /\ Keeps
<1> DEFINE Moves(L) ==
      /\ pc[p] \in {"top", "get", "route", "put"}
      /\ \E l \in L : pc' = [pc EXCEPT ![p] = l]
<1> DEFINE Later == {"top", "get", "route", "put", "dead"}
<1>1. /\ iface' = iface
      /\ \/ Moves(Later) /\ flag_state' = flag_state
         \/ Moves(Later) /\ flag_state' = [flag_state EXCEPT ![p] = CMD_STOP]
         \/ Moves({"closed"}) /\ flag_state[p] < CMD_RUN /\ flag_state' = flag_state
         \/ pc' = pc /\ flag_state' = flag_state
  <2>1. CASE P!run_enter(p)
    BY <2>1 DEF P!run_enter, P!goto
  <2>2. CASE P!close(p)
    BY <2>2 DEF P!close, P!goto, P!isStop, CMD_RUN
  <2>3. CASE P!get(p)
    BY <2>3 DEF P!get, P!goto
  <2>4. CASE P!get_none(p)
    BY ZenonT(60), <2>4 DEF P!get_none, P!goto
  <2>5. CASE P!get_resize(p)
    BY ZenonT(60), <2>5 DEF P!get_resize, P!goto, CMD_STOP
  <2>6. CASE P!get_error(p)
    BY ZenonT(60), <2>6 DEF P!get_error, P!goto, CMD_STOP
  <2>7. CASE P!do_route(p)
    <3>1. CASE route[iface[p]][cur[p]].throws
      BY <2>7, <3>1, ZenonT(30) DEF P!do_route, P!goto
    <3>2. CASE ~route[iface[p]][cur[p]].throws
      BY <2>7, <3>2, ZenonT(30) DEF P!do_route, P!goto
    <3> QED
      BY ZenonT(60), <3>1, <3>2
  <2>8. CASE P!put(p)
    <3>1. pc' = pc /\ flag_state' = flag_state /\ iface' = iface
      BY <2>8, ZenonT(30) DEF P!put
    <3> QED
      BY ZenonT(60), <3>1
  <2>9. CASE P!put_error(p) \/ P!commit(p) \/ P!commit_error(p)
    BY ZenonT(60), <2>9 DEF P!put_error, P!commit, P!commit_error, P!goto
  <2> QED
    BY ZenonT(60), <2>1, <2>2, <2>3, <2>4, <2>5, <2>6, <2>7, <2>8, <2>9 DEF P!run
<1> QED
  BY SMTT(30), <1>1 DEF ProcType, Flags, Keeps, P!Locations, P!CMD_STOP, P!CMD_RUN, P!CMD_INIT,
              CMD_STOP, CMD_RUN, CMD_INIT

(* The end of a processor's connection. *)
LEMMA ProcessorKill ==
    ASSUME ProcType, Flags, NEW p \in Procs, P!kill(p)
    PROVE  ProcType' /\ Flags' /\ Keeps
  BY DEF ProcType, Flags, Keeps, P!kill, P!goto, P!Locations, P!CMD_STOP, P!CMD_RUN, P!CMD_INIT,
         CMD_STOP, CMD_RUN, CMD_INIT

(* Processor.init, whether it succeeds or not, is for a new processor. *)
LEMMA ProcessorInit ==
    ASSUME ProcType, Flags, NEW p \in Procs, NEW i \in Ifaces,
           P!init(p, i) \/ P!init_error(p, i)
    PROVE  /\ ProcType' /\ Flags'
           /\ pc[p] = "new" /\ pc'[p] # "new" /\ iface'[p] = i
           /\ \A r \in Procs \ {p} :
                 flag_state'[r] = flag_state[r] /\ pc'[r] = pc[r] /\ iface'[r] = iface[r]
  BY DEF ProcType, Flags, P!init, P!init_error, P!Locations, P!CMD_STOP, P!CMD_RUN, P!CMD_INIT,
         CMD_STOP, CMD_RUN, CMD_INIT

-----------------------------------------------------------------------------
(***************************************************************************)
(* Every step keeps the inductive invariant.                               *)
(***************************************************************************)

(* A step of which the router and the command thread are not part. *)
LEMMA Bystanders ==
    ASSUME IInv, ProcType', Flags', Keeps,
           UNCHANGED <<routerVars, commandVars, envVars, rfaults>>
    PROVE  IInv'
<1> USE DEF IInv, routerVars, commandVars, envVars
<1>1. RouterType'
  BY DEF RouterType
<1>2. Entries' /\ Spawning'
  BY ZenonT(60) DEF Entries, Spawning, Keeps
<1>3. Closing' /\ Reading'
  BY ZenonT(60) DEF Closing, Reading, Keeps
<1>4. RunningIsTracked'
  BY ZenonT(60) DEF RunningIsTracked, Keeps
<1>5. RunsLastConfiguration'
  BY DEF RunsLastConfiguration, Keeps
<1> QED
  BY ZenonT(60), <1>1, <1>2, <1>3, <1>4, <1>5

(* The command thread and the applications that put configurations and     *)
(* commands.                                                               *)
LEMMA Outside ==
    ASSUME IInv,
           \/ command_run
           \/ \E c \in Configs : put_config(c)
           \/ \E x \in Commands : send_command(x)
    PROVE  IInv'
<1> USE DEF IInv
<1>0. UNCHANGED <<pVars, routerVars, crashes>>
  BY ZenonT(60) DEF command_run, command_enter, command_skip, command_break, command_close, put_config,
         send_command, envVars
<1>1. /\ cfgq' \in Seq(Configs) /\ Len(cfgq') >= Len(cfgq)
      /\ \A j \in 1 .. Len(cfgq) : cfgq'[j] = cfgq[j]
  <2> USE DEF RouterType
  <2>1. CASE command_run \/ \E x \in Commands : send_command(x)
    <3>1. cfgq' = cfgq
      BY ZenonT(60), <2>1 DEF command_run, command_enter, command_skip, command_break, command_close,
                  send_command, envVars
    <3> QED
      BY SMTT(30), <3>1
  <2>2. CASE \E c \in Configs : put_config(c)
    <3>1. PICK c \in Configs : cfgq' = Append(cfgq, c)
      BY ZenonT(60), <2>2 DEF put_config
    <3> QED
      BY SMTT(30), <3>1
  <2> QED
    BY ZenonT(60), <2>1, <2>2
<1>2. cflag' = cflag \/ cflag' = CMD_STOP
  BY DEF command_run, command_enter, command_skip, command_break, command_close, put_config,
         send_command, commandVars
<1>3. /\ cmdq' \in Seq(Commands) /\ cgot' \in 0 .. Len(cmdq')
      /\ cpc' \in {"new", "top", "get", "close", "closed", "killed"}
      /\ rfaults' \in 0 .. MaxRouterFaults
  <2> USE DEF RouterType, envVars
  <2>1. CASE command_enter \/ command_skip
    BY <2>1 DEF command_enter, command_skip
  <2>2. CASE command_break
    BY SMTT(30), <2>2, ConfigAssumption DEF command_break, Fault
  <2>3. CASE command_close
    BY SMTT(30), <2>3 DEF command_close
  <2>4. CASE \E c \in Configs : put_config(c)
    BY ZenonT(60), <2>4 DEF put_config, commandVars
  <2>5. CASE \E x \in Commands : send_command(x)
    <3>1. PICK x \in Commands : cmdq' = Append(cmdq, x)
      BY ZenonT(60), <2>5 DEF send_command
    <3>2. UNCHANGED <<cpc, cgot, rfaults>>
      BY ZenonT(60), <2>5 DEF send_command, commandVars
    <3> QED
      BY SMTT(30), <3>1, <3>2
  <2> QED
    BY ZenonT(60), <2>1, <2>2, <2>3, <2>4, <2>5 DEF command_run
<1>4. RouterType'
  BY SMTT(30), <1>0, <1>1, <1>2, <1>3 DEF RouterType, routerVars
<1>5. ProcType' /\ Flags'
  BY ZenonT(60), <1>0 DEF pVars, procVars, ProcType, Flags
<1>6. Entries' /\ Spawning'
  BY ZenonT(60), <1>0 DEF pVars, procVars, routerVars, Entries, Spawning
<1>7. Closing'
  BY ZenonT(60), <1>0, <1>2 DEF pVars, procVars, routerVars, Closing
<1>8. Reading'
  BY SMTT(30), <1>0, <1>1 DEF routerVars, Reading, RouterType
<1>9. RunningIsTracked'
  BY ZenonT(60), <1>0 DEF pVars, procVars, routerVars, RunningIsTracked
<1>10. RunsLastConfiguration'
  BY SMTT(30), <1>0, <1>1 DEF pVars, procVars, routerVars, RunsLastConfiguration, RouterType
<1> QED
  BY ZenonT(60), <1>4, <1>5, <1>6, <1>7, <1>8, <1>9, <1>10

(* The steps of Router.work that do not touch the processors. *)
LEMMA Looking ==
    ASSUME IInv, work_start \/ work_loop \/ get_cfg \/ get_cfg_none \/ get_cfg_error
    PROVE  IInv'
<1> USE DEF IInv
<1>0. UNCHANGED <<pVars, rflag, proc, cgot, envVars>>
  BY ZenonT(60) DEF work_start, work_loop, get_cfg, get_cfg_none, get_cfg_error, commandVars
<1>1. RouterType'
  <2> USE <1>0 DEF RouterType, RouterLocations, commandVars, envVars, rgoto
  <2>1. CASE work_start
    BY SMTT(30), <2>1, ConfigAssumption DEF work_start, Fault
  <2>2. CASE work_loop
    BY SMTT(30), <2>2 DEF work_loop
  <2>3. CASE get_cfg
    BY SMTT(30), <2>3 DEF get_cfg
  <2>4. CASE get_cfg_none
    BY ZenonT(60), <2>4 DEF get_cfg_none
  <2>5. CASE get_cfg_error
    BY SMTT(30), <2>5, ConfigAssumption DEF get_cfg_error, Fault
  <2> QED
    BY ZenonT(60), <2>1, <2>2, <2>3, <2>4, <2>5
<1>2. ProcType' /\ Flags'
  BY ZenonT(60), <1>0 DEF pVars, procVars, ProcType, Flags
<1>3. Entries'
  BY SMTT(30), <1>0 DEF pVars, procVars, Entries, work_start, work_loop, get_cfg, get_cfg_none,
              get_cfg_error, rgoto
<1>4. rpc' # "spawn" /\ rpc' \notin {"npe", "close_stop", "ended"}
  BY ZenonT(60) DEF work_start, work_loop, get_cfg, get_cfg_none, get_cfg_error, rgoto
<1>5. rpc' = "close" => k' = 1 /\ (proc = << >> \/ \A j \in DOMAIN proc : proc[j] \in Procs)
  BY SMTT(30) DEF Entries, RouterType, work_start, work_loop, get_cfg, get_cfg_none, get_cfg_error, rgoto
<1>6. Closing'
  BY SMTT(30), <1>0, <1>4, <1>5, ConfigAssumption DEF Closing, RouterType
<1>7. Reading'
  <2> USE <1>0 DEF Reading, RouterType, envVars, rgoto
  <2>1. CASE work_start \/ work_loop
    BY ZenonT(60), <2>1 DEF work_start, work_loop
  <2>2. CASE get_cfg
    BY SMTT(30), <2>2 DEF get_cfg
  <2>3. CASE get_cfg_none \/ get_cfg_error
    BY ZenonT(60), <2>3 DEF get_cfg_none, get_cfg_error
  <2> QED
    BY ZenonT(60), <2>1, <2>2, <2>3
<1>8. RunningIsTracked'
  BY ZenonT(60), <1>0, <1>4 DEF pVars, procVars, RunningIsTracked, work_start, work_loop, get_cfg,
     get_cfg_none, get_cfg_error
<1>9. RunsLastConfiguration'
  <2> USE <1>0 DEF pVars, procVars, envVars, RunsLastConfiguration, RouterType
  <2>1. CASE work_start
    BY SMTT(30), <2>1 DEF work_start, rgoto, Reading
  <2>2. CASE work_loop \/ get_cfg_none \/ get_cfg_error
    BY ZenonT(30), <2>2 DEF work_loop, get_cfg_none, get_cfg_error, rgoto
  <2>3. CASE get_cfg
    <3>1. str_cfg' \in Configs
      BY SMTT(30), <2>3 DEF get_cfg
    <3> QED
      BY ZenonT(60), <3>1, ConfigAssumption
  <2> QED
    BY ZenonT(30), <2>1, <2>2, <2>3
<1> QED
  BY ZenonT(60), <1>1, <1>2, <1>3, <1>4, <1>6, <1>7, <1>8, <1>9 DEF Spawning

(* The loop of stop_proc that tells the processors to stop. *)
LEMMA StopFlags == ASSUME IInv, stop_flags PROVE IInv'
<1> USE DEF IInv
<1>0. /\ rpc \in {"stop_proc", "close_stop"} /\ k <= Len(proc) /\ k' = k + 1
      /\ UNCHANGED <<rpc, rflag, str_cfg, browsed, proc, commandVars, envVars, rfaults>>
  BY DEF stop_flags
<1>1. proc[k] \in Procs
  BY SMTT(30), <1>0 DEF Entries, RouterType
<1>2. ProcType' /\ Flags' /\ Keeps
  BY ZenonT(60), <1>1, CmdClose DEF stop_flags
<1>3. RouterType'
  BY SMTT(30), <1>0 DEF RouterType, commandVars, envVars
<1>4. Entries'
  BY ZenonT(60), <1>0, <1>2 DEF Entries, Keeps
<1>5. Spawning' /\ Closing' /\ RunsLastConfiguration'
  BY ZenonT(60), <1>0 DEF Spawning, Closing, RunsLastConfiguration, commandVars
<1>6. Reading'
  BY ZenonT(60), <1>0 DEF Reading, envVars
<1>7. RunningIsTracked'
  BY ZenonT(60), <1>0, <1>2 DEF RunningIsTracked, Keeps
<1> QED
  BY ZenonT(60), <1>2, <1>3, <1>4, <1>5, <1>6, <1>7

(* The loop of stop_proc that waits for the flags. *)
LEMMA StopWait == ASSUME IInv, stop_wait PROVE IInv'
<1> USE DEF IInv
<1>0. /\ rpc \in {"stop_proc", "close_stop"}
      /\ rpc' = IF rpc = "stop_proc" THEN "start_proc" ELSE "ended"
      /\ proc' = << >> /\ k' = 1
      /\ UNCHANGED <<pVars, rflag, str_cfg, browsed, commandVars, envVars, rfaults>>
  BY ZenonT(60) DEF stop_wait, rgoto
<1>1. ProcType' /\ Flags'
  BY ZenonT(60), <1>0 DEF pVars, procVars, ProcType, Flags
<1>2. RouterType'
  BY SMTT(30), <1>0 DEF RouterType, RouterLocations, commandVars, envVars
<1>3. Entries' /\ Spawning'
  BY SMTT(30), <1>0 DEF Entries, Spawning
<1>4. Closing' /\ RunsLastConfiguration'
  BY ZenonT(60), <1>0 DEF Closing, RunsLastConfiguration, commandVars
<1>5. Reading'
  BY ZenonT(60), <1>0 DEF Reading, envVars
<1>6. \A p \in Procs : p \in ToSet(proc) => flag_state[p] # CMD_RUN
  BY SMTT(30) DEF stop_wait, P!isStop, CMD_RUN, P!CMD_RUN, ToSet
<1>7. RunningIsTracked'
  BY ZenonT(60), <1>0, <1>6 DEF RunningIsTracked, pVars, procVars
<1> QED
  BY ZenonT(60), <1>1, <1>2, <1>3, <1>4, <1>5, <1>7

(* start_proc reads the configuration, and the end of its loop. *)
LEMMA StartProc == ASSUME IInv, start_proc \/ start_done PROVE IInv'
<1> USE DEF IInv
<1>0. /\ UNCHANGED <<pVars, rflag, browsed, commandVars, envVars, rfaults>>
      /\ rpc' \in {"close", "spawn", "loop"}
  BY ZenonT(60) DEF start_proc, start_done, rgoto
<1>1. ProcType' /\ Flags'
  BY ZenonT(60), <1>0 DEF pVars, procVars, ProcType, Flags
<1>2. CASE start_proc
  <2>1. /\ rpc = "start_proc" /\ proc = << >> /\ k' = 1 /\ str_cfg' = str_cfg
        /\ str_cfg \in Configs /\ ifaces[str_cfg] \in Seq(Ifaces)
    BY ZenonT(60), <1>2, ConfigAssumption DEF start_proc, Entries, Reading, RouterType
  <2>2. \/ rpc' = "close" /\ proc' = << >>
        \/ rpc' = "spawn" /\ proc' = [j \in 1 .. Len(ifaces[str_cfg]) |-> NoProc]
    BY SMTT(30), <1>2, <2>1 DEF start_proc, rgoto
  <2>3. /\ proc' \in Seq({NoProc}) /\ \A j \in DOMAIN proc' : proc'[j] = NoProc
        /\ rpc' = "spawn" => Len(proc') = Len(ifaces[str_cfg])
    <3> DEFINE n == Len(ifaces[str_cfg])
               nulls == [j \in 1 .. n |-> NoProc]
    <3>1. n \in Nat
      BY SMTT(30), <2>1
    <3> HIDE DEF n
    <3>2. nulls \in Seq({NoProc}) /\ Len(nulls) = n /\ \A j \in DOMAIN nulls : nulls[j] = NoProc
      BY SMTT(30), <3>1
    <3>3. \/ rpc' = "close" /\ proc' = << >>
          \/ rpc' = "spawn" /\ proc' = nulls
      BY ZenonT(60), <2>2 DEF n
    <3> HIDE DEF nulls
    <3>4. CASE proc' = << >> /\ rpc' = "close"
      BY SMTT(30), <3>4
    <3>5. CASE proc' = nulls
      BY ZenonT(60), <3>5, <3>2 DEF n
    <3> QED
      BY ZenonT(60), <3>3, <3>4, <3>5
  <2>4. RouterType'
    BY SMTT(30), <1>0, <2>1, <2>2, <2>3 DEF RouterType, RouterLocations, commandVars, envVars
  <2>5. Entries' /\ Spawning'
    BY SMTT(30), <2>1, <2>2, <2>3, ConfigAssumption DEF Entries, Spawning
  <2>6. Closing' /\ RunsLastConfiguration'
    BY SMTT(30), <2>1, <2>2 DEF Closing, RunsLastConfiguration
  <2>7. Reading'
    BY ZenonT(60), <1>0, <2>1, <2>2 DEF Reading, envVars
  <2>8. RunningIsTracked'
    BY SMTT(30), <1>0, <2>1 DEF RunningIsTracked, pVars, procVars, ToSet
  <2> QED
    BY ZenonT(60), <1>1, <2>4, <2>5, <2>6, <2>7, <2>8
<1>3. CASE start_done
  <2>1. /\ rpc = "spawn" /\ rpc' = "loop" /\ k > Len(proc) /\ str_cfg' = NoCfg
        /\ UNCHANGED <<proc, k>>
    BY ZenonT(60), <1>3 DEF start_done, rgoto
  <2>2. RouterType'
    BY ZenonT(60), <1>0, <2>1 DEF RouterType, RouterLocations, commandVars, envVars
  <2>3. \A j \in DOMAIN proc : proc[j] \in Procs /\ iface[proc[j]] = ifaces[str_cfg][j]
    BY SMTT(30), <2>1 DEF Spawning, RouterType
  <2>4. Entries' /\ Spawning' /\ Closing' /\ Reading'
    BY ZenonT(60), <1>0, <2>1, <2>3 DEF Entries, Spawning, Closing, Reading, pVars, procVars
  <2>5. RunsLastConfiguration'
    BY ZenonT(30), <1>0, <2>1, <2>3 DEF RunsLastConfiguration, Reading, Spawning, pVars, procVars, envVars
  <2>6. RunningIsTracked'
    BY ZenonT(30), <1>0, <2>1 DEF RunningIsTracked, pVars, procVars
  <2> QED
    BY ZenonT(60), <1>1, <2>2, <2>4, <2>5, <2>6
<1> QED
  BY ZenonT(60), <1>2, <1>3

(* The processor that the loop of start_proc creates is a new one, and its *)
(* interface is the one of the configuration.                              *)
LEMMA Created ==
    ASSUME IInv, start_one \/ start_error
    PROVE  /\ NewProc \in Procs /\ pc[NewProc] = "new"
           /\ rpc = "spawn" /\ k \in DOMAIN proc /\ ifaces[str_cfg][k] \in Ifaces
<1> USE DEF IInv
<1>1. rpc = "spawn" /\ k <= Len(proc) /\ \E p \in Procs : pc[p] = "new"
  BY DEF start_one, start_error
<1>2. NewProc \in Procs /\ pc[NewProc] = "new"
  BY ZenonT(60), <1>1 DEF NewProc
<1>3. ifaces[str_cfg] \in Seq(Ifaces)
  BY ZenonT(60), <1>1, ConfigAssumption DEF RouterType, Reading
<1>4. k \in DOMAIN proc /\ k \in DOMAIN ifaces[str_cfg]
  BY SMTT(30), <1>1, <1>3 DEF RouterType, Spawning
<1> QED
  BY SMTT(30), <1>1, <1>2, <1>3, <1>4

(* One turn of the loop of start_proc. *)
LEMMA StartOne == ASSUME IInv, start_one \/ start_error PROVE IInv'
<1> USE DEF IInv
<1> DEFINE new == NewProc
           i == ifaces[str_cfg][k]
<1>0. /\ new \in Procs /\ pc[new] = "new" /\ rpc = "spawn"
      /\ k \in DOMAIN proc /\ i \in Ifaces
  BY ZenonT(60), Created
<1>1. /\ proc' = [proc EXCEPT ![k] = new]
      /\ P!init(new, i) \/ P!init_error(new, i)
      /\ \/ start_one /\ rpc' = "spawn" /\ k' = k + 1
         \/ start_error /\ rpc' = "close" /\ k' = 1
      /\ UNCHANGED <<rflag, str_cfg, browsed, commandVars, envVars, rfaults>>
  BY ZenonT(60), <1>0 DEF start_one, start_error, rgoto
<1> HIDE DEF new, i
<1>2. /\ ProcType' /\ Flags' /\ pc'[new] # "new" /\ iface'[new] = i
      /\ \A r \in Procs \ {new} :
            flag_state'[r] = flag_state[r] /\ pc'[r] = pc[r] /\ iface'[r] = iface[r]
  BY ZenonT(60), <1>0, <1>1, ProcessorInit
<1>3. /\ proc \in Seq(Procs \cup {NoProc}) /\ k \in 1 .. Len(proc)
      /\ proc' \in Seq(Procs \cup {NoProc}) /\ Len(proc') = Len(proc)
      /\ \A j \in 1 .. Len(proc) : proc'[j] = IF j = k THEN new ELSE proc[j]
  BY SMTT(30), <1>0, <1>1 DEF RouterType
<1>4. RouterType'
  BY SMTT(30), <1>1, <1>3 DEF RouterType, RouterLocations, commandVars, envVars
<1>5. \A j \in 1 .. Len(proc) : proc[j] # new
  BY SMTT(30), <1>0, <1>3, ConfigAssumption DEF Entries
<1>6. Entries'
  BY ZenonT(60), <1>0, <1>1, <1>2, <1>3, <1>5 DEF Entries
<1>7. /\ Len(proc) = Len(ifaces[str_cfg])
      /\ \A j \in 1 .. Len(proc) :
            /\ j < k => proc[j] \in Procs /\ iface[proc[j]] = ifaces[str_cfg][j]
            /\ j >= k => proc[j] = NoProc
  <2>1. DOMAIN proc = 1 .. Len(proc)
    BY SMTT(30), <1>3
  <2>2. Spawning /\ rpc = "spawn"
    BY ZenonT(60), <1>0
  <2> QED
    BY ZenonT(60), <2>1, <2>2 DEF Spawning
<1>8. Spawning'
  <2> SUFFICES ASSUME rpc' = "spawn" PROVE Spawning'
    BY DEF Spawning
  <2>1. k' = k + 1 /\ str_cfg' = str_cfg
    BY ZenonT(60), <1>1
  <2>2. ASSUME NEW j \in 1 .. Len(proc)
        PROVE  /\ j < k' => proc'[j] \in Procs /\ iface'[proc'[j]] = ifaces[str_cfg][j]
               /\ j >= k' => proc'[j] = NoProc
    <3>1. CASE j < k
      BY SMTT(30), <1>2, <1>3, <1>5, <1>7, <2>1, <3>1
    <3>2. CASE j = k
      BY SMTT(30), <1>0, <1>2, <1>3, <2>1, <3>2 DEF i
    <3>3. CASE j > k
      <4>1. proc'[j] = proc[j]
        BY SMTT(30), <1>3, <3>3
      <4>2. proc[j] = NoProc
        BY SMTT(30), <1>3, <1>7, <3>3
      <4>3. ~(j < k')
        BY SMTT(30), <1>3, <2>1, <3>3
      <4> QED
        BY ZenonT(60), <4>1, <4>2, <4>3
    <3> QED
      BY SMTT(30), <1>3, <3>1, <3>2, <3>3
  <2> QED
    BY SMTT(30), <1>3, <1>7, <2>1, <2>2 DEF Spawning
<1>9. Closing'
  <2> SUFFICES ASSUME rpc' = "close" PROVE Closing'
    BY ZenonT(60), <1>1 DEF Closing
  <2>1. k' = 1
    BY ZenonT(60), <1>1
  <2>2. ASSUME NEW a \in 1 .. Len(proc), NEW b \in 1 .. Len(proc), a < b, proc'[a] = NoProc
        PROVE  proc'[b] = NoProc
    <3>1. a # k
      BY ZenonT(60), <1>0, <1>3, <2>2, ConfigAssumption
    <3>2. proc[a] = NoProc
      BY ZenonT(60), <1>3, <2>2, <3>1
    <3>3. ~(a < k)
      BY ZenonT(60), <1>7, <3>2, ConfigAssumption
    <3>4. b > k
      BY SMTT(30), <1>3, <2>2, <3>1, <3>3
    <3> QED
      BY SMTT(30), <1>3, <1>7, <3>4
  <2>3. DOMAIN proc' = 1 .. Len(proc)
    BY SMTT(30), <1>3
  <2>4. rpc' # "npe" /\ rpc' \notin {"close_stop", "ended"}
    BY ZenonT(60)
  <2>5. \A j \in 1 .. Len(proc) : ~(j < k')
    BY SMTT(30), <2>1
  <2> QED
    BY ZenonT(30), <2>2, <2>3, <2>4, <2>5 DEF Closing
<1>10. Reading'
  BY ZenonT(60), <1>0, <1>1 DEF Reading, envVars
<1>11. RunningIsTracked'
  <2> SUFFICES ASSUME NEW p \in Procs, flag_state'[p] = CMD_RUN, pc'[p] # "killed"
               PROVE  \E j \in 1 .. Len(proc) : proc'[j] = p
    BY SMTT(30), <1>3 DEF RunningIsTracked, ToSet
  <2>1. CASE p = new
    BY ZenonT(60), <1>3, <2>1
  <2>2. CASE p # new
    <3>1. p \in ToSet(proc)
      BY ZenonT(60), <1>0, <1>2, <2>2 DEF RunningIsTracked
    <3>2. PICK j \in 1 .. Len(proc) : proc[j] = p
      BY SMTT(30), <1>3, <3>1 DEF ToSet
    <3>3. j # k
      BY SMTT(30), <1>3, <1>7, <3>2, ConfigAssumption
    <3> QED
      BY ZenonT(60), <1>3, <3>2, <3>3
  <2> QED
    BY ZenonT(60), <2>1, <2>2
<1>12. RunsLastConfiguration'
  BY ZenonT(60), <1>1 DEF RunsLastConfiguration
<1> QED
  BY ZenonT(60), <1>2, <1>4, <1>6, <1>8, <1>9, <1>10, <1>11, <1>12

(* One turn of the loop of cmd_close, or its end. *)
LEMMA CloseFlags == ASSUME IInv, close_flags PROVE IInv'
<1> USE DEF IInv
<1>0. rpc = "close" /\ rflag' = CMD_STOP /\ UNCHANGED <<str_cfg, browsed, proc, cpc, cgot, envVars, rfaults>>
  BY ZenonT(60) DEF close_flags
<1>1. CASE k <= Len(proc) /\ proc[k] # NoProc
  <2>1. P!cmd_close(proc[k]) /\ k' = k + 1 /\ UNCHANGED <<rpc, cflag>>
    BY SMTT(30), <1>1 DEF close_flags, RouterType
  <2>2. proc[k] \in Procs
    BY SMTT(30), <1>1 DEF RouterType
  <2>3. ProcType' /\ Flags' /\ Keeps /\ flag_state'[proc[k]] = CMD_STOP
    BY ZenonT(60), <2>1, <2>2, CmdClose
  <2>4. RouterType'
    BY SMTT(30), <1>0, <1>1, <2>1 DEF RouterType, envVars
  <2>5. Entries'
    BY ZenonT(60), <1>0, <2>1, <2>3 DEF Entries, Keeps
  <2>6. Closing'
    <3>1. \A j \in DOMAIN proc : j < k + 1 => proc[j] \in Procs /\ flag_state'[proc[j]] = CMD_STOP
      BY SMTT(30), <1>0, <2>2, <2>3 DEF Closing, Keeps, RouterType
    <3> QED
      BY ZenonT(60), <1>0, <2>1, <3>1 DEF Closing
  <2>7. Spawning' /\ Reading' /\ RunsLastConfiguration'
    BY ZenonT(60), <1>0, <2>1 DEF Spawning, Reading, RunsLastConfiguration, envVars
  <2>8. RunningIsTracked'
    BY ZenonT(60), <1>0, <2>1, <2>3 DEF RunningIsTracked, Keeps
  <2> QED
    BY ZenonT(60), <2>3, <2>4, <2>5, <2>6, <2>7, <2>8
<1>2. CASE ~(k <= Len(proc) /\ proc[k] # NoProc)
  <2>1. /\ UNCHANGED pVars
        /\ \/ k <= Len(proc) /\ proc[k] = NoProc /\ rpc' = "npe" /\ UNCHANGED <<k, cflag>>
           \/ k > Len(proc) /\ cflag' = CMD_STOP /\ k' = 1 /\ rpc' = "close_stop"
    BY ZenonT(60), <1>2 DEF close_flags, rgoto
  <2>2. ProcType' /\ Flags'
    BY ZenonT(60), <2>1 DEF pVars, procVars, ProcType, Flags
  <2>3. RouterType'
    BY SMTT(30), <1>0, <2>1 DEF RouterType, RouterLocations, envVars
  <2>4. k > Len(proc) => \A j \in DOMAIN proc : proc[j] \in Procs
    BY SMTT(30), <1>0 DEF Closing, RouterType
  <2>5. Entries'
    BY ZenonT(60), <1>0, <2>1, <2>4 DEF Entries, pVars, procVars
  <2>6. Closing'
    BY ZenonT(60), <1>0, <2>1 DEF Closing, pVars, procVars
  <2>7. Spawning' /\ Reading' /\ RunsLastConfiguration'
    BY ZenonT(60), <1>0, <2>1 DEF Spawning, Reading, RunsLastConfiguration, envVars
  <2>8. RunningIsTracked'
    BY ZenonT(30), <1>0, <2>1 DEF RunningIsTracked, pVars, procVars
  <2> QED
    BY ZenonT(60), <2>2, <2>3, <2>5, <2>6, <2>7, <2>8
<1> QED
  BY ZenonT(60), <1>1, <1>2

(* The end of the process and its restart. *)
LEMMA Crashes == ASSUME IInv, crash \/ restart PROVE IInv'
<1> USE DEF IInv
<1>0. UNCHANGED <<pVars, cfgq, cmdq, rfaults>>
  BY ZenonT(60) DEF crash, restart, envVars
<1>1. ProcType' /\ Flags'
  BY ZenonT(60), <1>0 DEF pVars, procVars, ProcType, Flags
<1>2. CASE crash
  <2>1. /\ rpc' = "killed" /\ cpc' = "killed" /\ crashes' = crashes + 1 /\ crashes < MaxCrashes
        /\ UNCHANGED <<rflag, str_cfg, browsed, proc, k, cflag, cgot>>
    BY ZenonT(60), <1>2 DEF crash, rgoto
  <2>2. RouterType'
    BY SMTT(30), <1>0, <2>1, ConfigAssumption DEF RouterType, RouterLocations
  <2>3. Entries' /\ Spawning' /\ Closing' /\ Reading'
    BY ZenonT(60), <1>0, <2>1 DEF Entries, Spawning, Closing, Reading, pVars, procVars
  <2>4. RunningIsTracked' /\ RunsLastConfiguration'
    BY ZenonT(60), <2>1 DEF RunningIsTracked, RunsLastConfiguration
  <2> QED
    BY ZenonT(60), <1>1, <2>2, <2>3, <2>4
<1>3. CASE restart
  <2>1. /\ rpc' = "start" /\ rflag' = CMD_RUN /\ str_cfg' = NoCfg /\ browsed' = 0
        /\ proc' = << >> /\ k' = 1 /\ cpc' = "new" /\ cflag' = CMD_INIT /\ cgot' = 0
        /\ crashes' = crashes
    BY ZenonT(60), <1>3 DEF restart, envVars
  <2>2. RouterType'
    BY SMTT(30), <1>0, <2>1 DEF RouterType, RouterLocations
  <2>3. Entries' /\ Spawning' /\ Closing' /\ Reading' /\ RunsLastConfiguration'
    <3>1. Entries'
      BY SMTT(30), <2>1 DEF Entries
    <3>2. Spawning' /\ Closing'
      BY ZenonT(60), <2>1 DEF Spawning, Closing
    <3>3. Reading' /\ RunsLastConfiguration'
      BY ZenonT(60), <2>1 DEF Reading, RunsLastConfiguration
    <3> QED
      BY ZenonT(60), <3>1, <3>2, <3>3
  <2>4. RunningIsTracked'
    <3>1. \A p \in Procs : pc[p] = "killed" \/ flag_state[p] # CMD_RUN
      BY SMTT(30), <1>3 DEF restart, Flags, CMD_RUN, CMD_STOP, CMD_INIT, P!CMD_RUN, P!CMD_STOP, P!CMD_INIT
    <3> QED
      BY ZenonT(60), <1>0, <3>1 DEF RunningIsTracked, pVars, procVars
  <2> QED
    BY ZenonT(60), <1>1, <2>2, <2>3, <2>4
<1> QED
  BY ZenonT(60), <1>2, <1>3

-----------------------------------------------------------------------------
(***************************************************************************)
(* The inductive invariant, and what follows from it.                      *)
(***************************************************************************)
(* The router starts with no configuration and no processor. *)
LEMMA InvInit == Init => IInv
<1> SUFFICES ASSUME Init PROVE IInv
  BY ZenonT(60)
<1>1. RouterType
  BY SMTT(30), ConfigAssumption DEF Init, RouterType, RouterLocations
<1>2. ProcType /\ Flags
  BY ZenonT(60) DEF Init, P!Init, ProcType, Flags, P!Locations, CMD_INIT, CMD_STOP, CMD_RUN
<1>3. Entries /\ Spawning /\ Closing /\ Reading
  BY SMTT(30) DEF Init, Entries, Spawning, Closing, Reading
<1>4. RunningIsTracked /\ RunsLastConfiguration
  BY SMTT(30), <1>2 DEF Init, P!Init, RunningIsTracked, RunsLastConfiguration,
              CMD_INIT, CMD_RUN, P!CMD_INIT, P!CMD_RUN
<1> QED
  BY ZenonT(60), <1>1, <1>2, <1>3, <1>4 DEF IInv

(* One case per step of the system. *)
LEMMA InvStep == ASSUME IInv, [Next]_vars PROVE IInv'
<1>1. CASE work
  BY ZenonT(60), <1>1, Looking, StopFlags, StopWait, StartProc, StartOne, CloseFlags DEF work
<1>2. CASE \/ command_run
           \/ \E c \in Configs : put_config(c)
           \/ \E x \in Commands : send_command(x)
  BY ZenonT(60), <1>2, Outside
<1>3. ASSUME NEW p \in Procs, processor_run(p) PROVE IInv'
  BY ZenonT(60), <1>3, ProcessorRun, Bystanders DEF processor_run, IInv
<1>4. ASSUME NEW p \in Procs, break_connection(p) PROVE IInv'
  BY ZenonT(60), <1>4, ProcessorKill, Bystanders DEF break_connection, IInv
<1>5. CASE arrive \/ UNCHANGED vars
  <2>1. UNCHANGED <<flag_state, pc, iface, routerVars, commandVars, envVars, rfaults>>
    BY <1>5, ZenonT(30) DEF arrive, P!arrive, P!procVars, vars, pVars, procVars
  <2>2. ProcType' /\ Flags' /\ Keeps
    BY ZenonT(60), <2>1 DEF IInv, ProcType, Flags, Keeps
  <2> QED
    BY ZenonT(60), <2>1, <2>2, Bystanders
<1>6. CASE crash \/ restart
  BY ZenonT(60), <1>6, Crashes
<1> QED
  BY ZenonT(60), <1>1, <1>2, <1>3, <1>4, <1>5, <1>6 DEF Next

(***************************************************************************)
(* The inductive invariant holds in every reachable state.                 *)
(***************************************************************************)
THEOREM Invariance == Spec => []IInv
  BY InvInit, InvStep, PTL DEF Spec

(***************************************************************************)
(* The router never loses sight of a processor that was not told to stop.  *)
(***************************************************************************)
THEOREM Tracked == Spec => []RunningIsTracked
<1>1. IInv => RunningIsTracked
  BY ZenonT(60) DEF IInv
<1> QED
  BY <1>1, Invariance, PTL

(***************************************************************************)
(* Between configurations the processors are those of the last one read.   *)
(***************************************************************************)
THEOREM LastConfiguration == Spec => []RunsLastConfiguration
<1>1. IInv => RunsLastConfiguration
  BY ZenonT(60) DEF IInv
<1> QED
  BY <1>1, Invariance, PTL

(***************************************************************************)
(* A router that ended, or died in cmd_close, has told every processor to  *)
(* stop; one that ended has told the command thread too.                   *)
(***************************************************************************)
THEOREM EndStops == Spec => []EndStopsThreads
<1>1. IInv => EndStopsThreads
  <2> SUFFICES ASSUME IInv PROVE EndStopsThreads
    BY ZenonT(60)
  <2> USE DEF IInv
  <2>1. ASSUME rpc \in {"ended", "npe"}, NEW p \in Procs
        PROVE  pc[p] \in {"new", "killed"} \/ flag_state[p] < CMD_RUN
    <3>1. ASSUME NEW j \in DOMAIN proc, proc[j] \in Procs PROVE flag_state[proc[j]] = CMD_STOP
      <4>1. rpc = "npe"
        BY SMTT(30), <2>1, <3>1 DEF Entries
      <4>2. j < k
        <5>1. k \in DOMAIN proc /\ proc[k] = NoProc
          BY SMTT(30), <4>1 DEF Closing, RouterType
        <5>2. ~(k < j) /\ j # k
          BY ZenonT(60), <3>1, <4>1, <5>1, ConfigAssumption DEF Closing
        <5> QED
          BY SMTT(30), <5>1, <5>2 DEF RouterType
      <4> QED
        BY ZenonT(30), <3>1, <4>1, <4>2 DEF Closing
    <3>2. flag_state[p] = CMD_RUN => pc[p] = "killed"
      BY SMTT(30), <2>1, <3>1 DEF RunningIsTracked, ToSet, CMD_RUN, CMD_STOP, P!CMD_RUN, P!CMD_STOP
    <3> QED
      BY SMTT(30), <3>2 DEF ProcType, CMD_RUN, CMD_STOP, CMD_INIT, P!CMD_RUN, P!CMD_STOP, P!CMD_INIT
  <2>2. rpc = "ended" => cflag = CMD_STOP
    BY ZenonT(60) DEF Closing
  <2> QED
    BY ZenonT(60), <2>1, <2>2 DEF EndStopsThreads, P!isStop, CMD_RUN
<1> QED
  BY <1>1, Invariance, PTL

-----------------------------------------------------------------------------
(***************************************************************************)
(* The router refines StreamProcessor.                                     *)
(***************************************************************************)

(* Every step of the system is a step of the processors or leaves them     *)
(* alone.                                                                  *)
LEMMA RefinesStep == ASSUME IInv, [Next]_vars PROVE [P!Next]_pVars
<1>1. CASE work_start \/ work_loop \/ get_cfg \/ get_cfg_none \/ get_cfg_error
  BY ZenonT(60), <1>1 DEF work_start, work_loop, get_cfg, get_cfg_none, get_cfg_error
<1>2. CASE stop_wait \/ start_proc \/ start_done
  BY ZenonT(60), <1>2 DEF stop_wait, start_proc, start_done
<1>3. CASE stop_flags
  <2>1. proc[k] \in Procs
    BY SMTT(30), <1>3 DEF stop_flags, IInv, Entries, RouterType
  <2>2. P!cmd_close(proc[k])
    BY ZenonT(60), <1>3 DEF stop_flags
  <2> QED
    BY ZenonT(60), <2>1, <2>2 DEF P!Next
<1>4. CASE start_one \/ start_error
  <2>1. P!init(NewProc, ifaces[str_cfg][k]) \/ P!init_error(NewProc, ifaces[str_cfg][k])
    BY ZenonT(60), <1>4 DEF start_one, start_error
  <2> QED
    BY ZenonT(60), <1>4, <2>1, Created DEF P!Next
<1>5. CASE close_flags
  <2>1. CASE UNCHANGED pVars
    BY ZenonT(60), <2>1
  <2>2. CASE k <= Len(proc) /\ proc[k] # NoProc /\ P!cmd_close(proc[k])
    <3>1. proc[k] \in Procs
      BY SMTT(30), <2>2 DEF IInv, RouterType
    <3> QED
      BY ZenonT(60), <2>2, <3>1 DEF P!Next
  <2> QED
    BY ZenonT(60), <1>5, <2>1, <2>2 DEF close_flags
<1>6. CASE \/ command_run
           \/ \E c \in Configs : put_config(c)
           \/ \E x \in Commands : send_command(x)
  BY ZenonT(60), <1>6 DEF command_run, command_enter, command_skip, command_break, command_close, put_config,
              send_command
<1>7. CASE \E p \in Procs : processor_run(p) \/ break_connection(p)
  BY ZenonT(60), <1>7 DEF processor_run, break_connection, P!Next
<1>8. CASE arrive
  BY ZenonT(60), <1>8 DEF arrive, P!Next
<1>9. CASE crash \/ restart
  BY ZenonT(60), <1>9 DEF crash, restart
<1>10. CASE UNCHANGED vars
  BY ZenonT(60), <1>10 DEF vars
<1> QED
  BY ZenonT(60), <1>1, <1>2, <1>3, <1>4, <1>5, <1>6, <1>7, <1>8, <1>9, <1>10 DEF Next, work

(***************************************************************************)
(* The router drives its processors only through what Processor offers.    *)
(***************************************************************************)
THEOREM RefinesProcessors == Spec => ProcessorSpec
<1>1. Init => P!Init
  BY ZenonT(60) DEF Init
<1> QED
  BY <1>1, RefinesStep, Invariance, PTL DEF Spec, ProcessorSpec

-----------------------------------------------------------------------------
(***************************************************************************)
(* What is proved about StreamProcessor holds of the whole process.        *)
(***************************************************************************)

(* The processors of the router, with the theorems proved about them. *)
PP == INSTANCE StreamProcessorProofs

(* P and PP are the same module: the same initial states, *)
LEMMA SameInit == P!Init => PP!Init
  BY ZenonT(60) DEF P!Init, PP!Init, P!NoPuts, PP!NoPuts, P!CMD_INIT, PP!CMD_INIT

(* the same units of work, faults and flags, *)
LEMMA SameUnits ==
    ASSUME NEW p \in Procs
    PROVE  /\ P!CommitUnit(p) => PP!CommitUnit(p)
           /\ P!BackoutUnit(p) => PP!BackoutUnit(p)
           /\ P!Fault => PP!Fault
           /\ P!isStop(p) <=> PP!isStop(p)
           /\ P!Locked = PP!Locked
  BY ZenonT(60) DEF P!CommitUnit, PP!CommitUnit, P!BackoutUnit, PP!BackoutUnit, P!NoPuts, PP!NoPuts,
         P!Fault, PP!Fault, P!isStop, PP!isStop, P!CMD_RUN, PP!CMD_RUN, P!Locked, PP!Locked

(* the same destinations, *)
LEMMA SameDest ==
    ASSUME NEW i, NEW m PROVE P!Dest(i, m) = PP!Dest(i, m)
  BY ZenonT(30) DEF P!Dest, PP!Dest

(* the same steps of a processor thread *)
LEMMA SameRun == ASSUME NEW p \in Procs, P!run(p) PROVE PP!run(p)
<1> USE DEF P!goto, PP!goto, P!mqVars, PP!mqVars
<1>1. CASE P!run_enter(p)
  BY <1>1, SameUnits, ZenonT(30) DEF P!run_enter, PP!run_enter, PP!run
<1>2. CASE P!close(p)
  BY <1>2, SameUnits, ZenonT(30) DEF P!close, PP!close, PP!run
<1>3. CASE P!get(p)
  BY <1>3, SameUnits, ZenonT(30) DEF P!get, PP!get, PP!run
<1>4. CASE P!get_none(p)
  BY <1>4, SameUnits, ZenonT(30) DEF P!get_none, PP!get_none, PP!run
<1>5. CASE P!get_resize(p)
  BY <1>5, SameUnits, ZenonT(30) DEF P!get_resize, PP!get_resize, P!getLen, PP!getLen, PP!run, P!CMD_STOP, PP!CMD_STOP
<1>6. CASE P!get_error(p)
  BY <1>6, SameUnits, ZenonT(30) DEF P!get_error, PP!get_error, PP!run, P!CMD_STOP, PP!CMD_STOP
<1>7. CASE P!do_route(p)
  BY <1>7, ZenonT(30) DEF P!do_route, PP!do_route, PP!run
<1>8. CASE P!put(p)
  BY <1>8, SameDest, ZenonT(30) DEF P!put, PP!put, PP!run
<1>9. CASE P!put_error(p)
  BY <1>9, SameUnits, SameDest, ZenonT(30) DEF P!put_error, PP!put_error, PP!run
<1>10. CASE P!commit(p) \/ P!commit_error(p)
  BY <1>10, SameUnits, SameDest, ZenonT(30) DEF P!commit, P!commit_error, PP!commit, PP!commit_error, PP!run
<1> QED
  BY ZenonT(60), <1>1, <1>2, <1>3, <1>4, <1>5, <1>6, <1>7, <1>8, <1>9, <1>10 DEF P!run

(* and the same steps of the system of processors. *)
LEMMA SameNext == [P!Next]_pVars => [PP!Next]_PP!vars
<1> USE DEF P!mqVars, PP!mqVars, P!procVars, PP!procVars
<1>1. ASSUME NEW s \in Sources, NEW m \in Msgs, P!arrive(s, m) PROVE PP!arrive(s, m)
  BY <1>1, ZenonT(30) DEF P!arrive, PP!arrive
<1>2. ASSUME NEW p \in Procs, NEW i \in Ifaces, P!init(p, i) PROVE PP!init(p, i)
  BY <1>2, ZenonT(30) DEF P!init, PP!init, P!CMD_RUN, PP!CMD_RUN
<1>3. ASSUME NEW p \in Procs, NEW i \in Ifaces, P!init_error(p, i) PROVE PP!init_error(p, i)
  BY <1>3, SameUnits, ZenonT(30) DEF P!init_error, PP!init_error, P!CMD_STOP, PP!CMD_STOP
<1>4. ASSUME NEW p \in Procs, P!cmd_close(p) PROVE PP!cmd_close(p)
  BY <1>4, ZenonT(30) DEF P!cmd_close, PP!cmd_close, P!CMD_STOP, PP!CMD_STOP
<1>5. ASSUME NEW p \in Procs, P!kill(p) PROVE PP!kill(p)
  BY <1>5, SameUnits, ZenonT(30) DEF P!kill, PP!kill, P!goto, PP!goto
<1>6. P!Next => PP!Next
  BY <1>1, <1>2, <1>3, <1>4, <1>5, SameRun, ZenonT(30) DEF P!Next, PP!Next
<1>7. UNCHANGED pVars => UNCHANGED PP!vars
  BY Zenon DEF pVars, mqVars, procVars, PP!vars
<1> QED
  BY ZenonT(60), <1>6, <1>7

(* The processors of the router behave as StreamProcessor describes. *)
LEMMA Lifted == Spec => PP!Spec
  BY RefinesProcessors, SameInit, SameNext, PTL DEF ProcessorSpec, PP!Spec

(***************************************************************************)
(* Type correctness of the router, its processors and the queues.          *)
(***************************************************************************)
THEOREM RouterTypeCorrect == Spec => []TypeOK
<1>1. PP!Spec => []PP!TypeOK
  BY ZenonT(60), PP!TypeCorrect, ProcessorAssumption
<1>2. PP!TypeOK => P!TypeOK
  BY ZenonT(60) DEF P!TypeOK, PP!TypeOK, P!Locations, PP!Locations, P!CMD_STOP, P!CMD_RUN, P!CMD_INIT,
         PP!CMD_STOP, PP!CMD_RUN, PP!CMD_INIT
<1>3. IInv /\ P!TypeOK => TypeOK
  BY ZenonT(60) DEF IInv, RouterType, TypeOK
<1> QED
  BY <1>1, <1>2, <1>3, Invariance, Lifted, PTL

(***************************************************************************)
(* Whatever the router does, reads new configurations, stops and restarts  *)
(* its processors, fails to start them, ends or is killed and started      *)
(* again, a message that left its source queue is on exactly its           *)
(* destinations, unless one of its own puts failed.                        *)
(***************************************************************************)
THEOREM RouterExactDelivery == Spec => []P!ConsumedIsDelivered
<1>1. PP!Spec => []PP!ConsumedIsDelivered
  BY ZenonT(60), PP!ExactDelivery, ProcessorAssumption
<1>2. ASSUME NEW i, NEW m PROVE P!Whole(i, m) <=> PP!Whole(i, m)
  <2>1. P!Dest(i, m) = PP!Dest(i, m)
    BY ZenonT(60), SameDest
  <2>2. \A to, n, q : P!Occurs(to, n, q) = PP!Occurs(to, n, q)
    BY ZenonT(60) DEF P!Occurs, PP!Occurs, P!Cardinality, PP!Cardinality
  <2> QED
    BY ZenonT(60), <2>1, <2>2 DEF P!Whole, PP!Whole
<1>3. P!Pending = PP!Pending
  BY Zenon DEF P!Pending, PP!Pending
<1>4. PP!ConsumedIsDelivered => P!ConsumedIsDelivered
  BY <1>2, <1>3, ZenonT(30) DEF P!ConsumedIsDelivered, PP!ConsumedIsDelivered
<1> QED
  BY <1>1, <1>4, Lifted, PTL

(***************************************************************************)
(* The whole process implements MessageMove: across reconfigurations,      *)
(* crashes and restarts, messages move in single steps, each with exactly  *)
(* the copies that Processor.route decided on.                             *)
(***************************************************************************)
THEOREM RouterMoves == Spec => PP!MovesExactlyOnce
<1>1. PP!Spec => PP!MovesExactlyOnce
  BY ZenonT(60), PP!Refinement, ProcessorAssumption
<1> QED
  BY <1>1, Lifted, PTL
=============================================================================
