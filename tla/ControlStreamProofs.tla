------------------------- MODULE ControlStreamProofs -------------------------
(***************************************************************************)
(* The proof that the controller takes a flow for stopped by hand only with*)
(* an excuse, for every group of flows, every number of page threads and   *)
(* any number of failures, commands and restarts.                          *)
(*                                                                         *)
(* The argument: as long as a flow has no excuse, at most one thread is    *)
(* inside the setFlag of its control, no poll runs beside it, and outside  *)
(* of setFlag a message of the controller on the control queue means that  *)
(* is_set_flag is true.  So a poll that finds a message finds the flag set.*)
(***************************************************************************)
EXTENDS ControlStream, TLAPS

Setting == {"read", "put", "clear"}
Inside == {"poll", "control", "some", "none", "decide", "leave"}
Labels == Setting \cup Inside \cup {"idle", "enter", "count", "mngr"}

Causes == {"hand", "fault", "restart", "race", "command"}

(* The types the argument needs. *)
Types ==
    /\ own \in [FlowSet -> BOOLEAN] /\ byHand \in [FlowSet -> BOOLEAN]
    /\ is_manual \in [FlowSet -> BOOLEAN] /\ is_set_flag \in [FlowSet -> BOOLEAN]
    /\ cntrl \in [FlowSet -> BOOLEAN]
    /\ lock \in [FlowSet -> Threads \cup {None}]
    /\ pc \in [Threads -> Labels] /\ at \in [Threads -> 1..Len(Flows)]
    /\ upset \in [FlowSet -> SUBSET Causes]

(* A thread inside work() holds the lock of its flow, and the group is     *)
(* inside setFlag only from there.                                         *)
Holds(t) ==
    pc[t] \in Inside \/ (t = Group /\ pc[t] \in Setting) => lock[flow(t)] = t

(* What holds of the control of a flow without an excuse. *)
Sound(f) ==
    /\ ~is_manual[f] /\ ~byHand[f] /\ cntrl[f]
    /\ \A t, u \in setting(f) : t = u
    /\ \A t \in setting(f) : lock[f] \in {None, t}
    /\ setting(f) = {} /\ own[f] => is_set_flag[f]
    /\ \A t \in setting(f) :
        /\ pc[t] = "put" => is_set_flag[f]
        /\ pc[t] = "clear" => ~is_set_flag[f]
    /\ \A t \in Threads : flow(t) = f =>
        /\ pc[t] = "some" => is_set_flag[f]
        /\ pc[t] = "none" => ~own[f]

IInv ==
    /\ Types
    /\ \A t \in Threads : Holds(t)
    /\ \A f \in FlowSet : Excused(f) \/ Sound(f)

(* A thread is always at a flow of the group. *)
LEMMA AtAFlow == ASSUME Types PROVE \A t \in Threads : flow(t) \in FlowSet
  BY DEF Types, FlowSet, flow

(* An excuse is never taken back. *)
LEMMA ExcuseStays == ASSUME NEW g \in FlowSet, Excused(g), upset[g] \subseteq upset'[g] PROVE Excused(g)'
  BY DEF Excused

(* What upset collects keeps its type. *)
LEMMA UpsetTyped ==
    ASSUME Types, NEW g \in FlowSet, NEW why \in Causes, upset' = [upset EXCEPT ![g] = @ \cup {why}]
    PROVE  upset' \in [FlowSet -> SUBSET Causes] /\ why \in upset'[g]
  BY DEF Types

(* A step elsewhere does not disturb the control of a flow. *)
LEMMA Elsewhere ==
    ASSUME NEW g \in FlowSet, Excused(g) \/ Sound(g),
           upset'[g] = upset[g], own'[g] = own[g], byHand'[g] = byHand[g], cntrl'[g] = cntrl[g],
           is_manual'[g] = is_manual[g], is_set_flag'[g] = is_set_flag[g], lock'[g] = lock[g],
           \A u \in Threads :
             \/ flow(u)' = flow(u) /\ pc'[u] = pc[u]
             \/ /\ flow(u) # g \/ pc[u] \notin Setting \cup {"some", "none"}
                /\ flow(u)' # g \/ pc'[u] \notin Setting \cup {"some", "none"}
    PROVE  (Excused(g) \/ Sound(g))'
  <1>1. setting(g)' = setting(g)
    BY DEF setting, Setting
  <1>2. \A u \in setting(g) : pc'[u] = pc[u]
    BY DEF setting, Setting
  <1> QED BY <1>1, <1>2 DEF Excused, Sound, Setting

(* Beside a thread inside setFlag nobody polls the flow. *)
LEMMA NoPollBeside ==
    ASSUME IInv, NEW f \in FlowSet, ~Excused(f), setting(f) # {}
    PROVE  \A u \in Threads : flow(u) = f => pc[u] \notin Inside
  <1>1. PICK t \in setting(f) : TRUE
    OBVIOUS
  <1>2. t \in Threads /\ pc[t] \in Setting /\ lock[f] \in {None, t}
    BY DEF IInv, Sound, setting, Setting
  <1> QED BY <1>2, ControlAssumption DEF IInv, Holds, Setting, Inside

(* A poll is alone at its flow, unless there is an excuse. *)
LEMMA PollsAlone ==
    ASSUME IInv, NEW t \in Threads, pc[t] \in Inside, ~Excused(flow(t))
    PROVE  /\ setting(flow(t)) = {}
           /\ \A u \in Threads \ {t} : flow(u) = flow(t) => pc[u] \notin Inside
  <1>1. flow(t) \in FlowSet
    BY AtAFlow DEF IInv
  <1>2. lock[flow(t)] = t /\ t # None
    BY ControlAssumption DEF IInv, Holds
  <1> QED BY <1>1, <1>2, NoPollBeside DEF IInv, Holds

(* What is to be shown of a flow when nobody is inside its setFlag. *)
LEMMA SoundOutside ==
    ASSUME NEW f \in FlowSet, setting(f)' = {}, ~is_manual'[f], ~byHand'[f], cntrl'[f],
           own'[f] => is_set_flag'[f],
           \A u \in Threads : flow(u)' = f => /\ pc'[u] = "some" => is_set_flag'[f]
                                              /\ pc'[u] = "none" => ~own'[f]
    PROVE  Sound(f)'
  BY DEF Sound

(* setFlag reads the flag again. *)
LEMMA setFlag_readKeeps == ASSUME IInv, NEW t \in Threads, setFlag_read(t) PROVE IInv'
  <1> DEFINE f == flow(t)
  <1>0. f \in FlowSet /\ None \notin Threads /\ Group \in Threads
    BY AtAFlow, ControlAssumption DEF IInv, Threads
  <1>1. Types'
    BY <1>0, ControlAssumption
       DEF IInv, Types, Causes, setFlag_read, mqVars, ctlVars, back, hisVars, to, Setting,
           Inside, Labels
  <1>2. ASSUME NEW u \in Threads PROVE Holds(u)'
    BY <1>0, <1>2
       DEF IInv, Types, Holds, setFlag_read, mqVars, ctlVars, back, hisVars, to, Setting, Inside,
           flow
  <1>3. ASSUME NEW g \in FlowSet PROVE (Excused(g) \/ Sound(g))'
    <2>1. CASE g # f
      BY <1>0, <1>3, <2>1, Elsewhere
         DEF IInv, Types, setFlag_read, mqVars, ctlVars, back, hisVars, to, Setting, flow
    <2>2. CASE Excused(g)
      BY <1>0, <1>3, <2>2, ExcuseStays DEF IInv, Types, setFlag_read, mqVars, ctlVars, back, hisVars
    <2>3. CASE g = f /\ ~Excused(g)
      BY <1>0, <1>3, <2>3
         DEF IInv, Types, Holds, Excused, Sound, setFlag_read, mqVars, ctlVars, back, hisVars,
             to, Setting, Inside, flow, setting
    <2> QED BY <2>1, <2>2, <2>3
  <1> QED BY <1>1, <1>2, <1>3 DEF IInv

(* The STOP message is put, or its failure is the excuse. *)
LEMMA putMsgKeeps == ASSUME IInv, NEW t \in Threads, putMsg(t) PROVE IInv'
  <1> DEFINE f == flow(t)
  <1>0. f \in FlowSet /\ None \notin Threads /\ Group \in Threads
    BY AtAFlow, ControlAssumption DEF IInv, Threads
  <1>1. Types'
    <2>1. upset' \in [FlowSet -> SUBSET Causes]
      BY <1>0, UpsetTyped DEF IInv, Types, Causes, putMsg, upsetBy, hisVars
    <2> QED BY ZenonT(60), <2>1, <1>0, ControlAssumption
       DEF IInv, Types, putMsg, mqVars, ctlVars, upsetBy, back, hisVars, to, Setting, Inside,
           Labels
  <1>2. ASSUME NEW u \in Threads PROVE Holds(u)'
    BY <1>0, <1>2
       DEF IInv, Types, Holds, putMsg, mqVars, ctlVars, upsetBy, back, hisVars, to, Setting,
           Inside, flow
  <1>3. ASSUME NEW g \in FlowSet PROVE (Excused(g) \/ Sound(g))'
    <2>1. CASE g # f
      BY <1>0, <1>3, <2>1, Elsewhere
         DEF IInv, Types, putMsg, mqVars, ctlVars, upsetBy, back, hisVars, to, Setting, flow
    <2>2. CASE Excused(g)
      BY <1>0, <1>3, <2>2, ExcuseStays
         DEF IInv, Types, putMsg, mqVars, ctlVars, upsetBy, back, hisVars
    <2>3. CASE g = f /\ ~Excused(g)
      <3>1. Sound(g) /\ g = flow(t)
        BY <1>0, <2>3 DEF IInv
      <3>2. setting(g) = {t}
        BY <3>1 DEF setting, Sound, putMsg
      <3>3. setting(g)' = {} /\ pc'[t] \notin {"some", "none"}
        BY <3>2 DEF IInv, Types, setting, flow, putMsg, mqVars, ctlVars, upsetBy, back, to
      <3>4. CASE own' = [own EXCEPT ![g] = TRUE] /\ upset' = upset
        <4>1. \A u \in Threads : flow(u) = g => pc[u] \notin Inside
          BY <1>0, <2>3, <3>2, NoPollBeside
        <4>2. at' = at /\ \E l \in {"leave", "enter"} : pc' = [pc EXCEPT ![t] = l]
          BY ZenonT(60) DEF putMsg, to, back
        <4>3. \A u \in Threads : flow(u)' = g => pc'[u] \notin {"some", "none"}
          BY <4>1, <4>2 DEF IInv, Types, flow, Inside
        <4>4. ~is_manual'[g] /\ ~byHand'[g] /\ cntrl'[g] /\ (own'[g] => is_set_flag'[g])
          BY <3>1, <3>2, <3>4 DEF IInv, Types, Sound, putMsg, ctlVars
        <4> QED BY <2>3, <3>1, <3>3, <4>3, <4>4, SoundOutside
      <3>5. CASE upsetBy(g, "fault")
        BY ZenonT(60), <2>3, <3>1, <3>5, UpsetTyped DEF IInv, Excused, upsetBy, Causes
      <3> QED BY <3>1, <3>4, <3>5 DEF putMsg
    <2> QED BY <2>1, <2>2, <2>3
  <1> QED BY <1>1, <1>2, <1>3 DEF IInv

(* The control queue is cleared, or the failure is the excuse. *)
LEMMA clearKeeps == ASSUME IInv, NEW t \in Threads, clear(t) PROVE IInv'
  <1> DEFINE f == flow(t)
  <1>0. f \in FlowSet /\ None \notin Threads /\ Group \in Threads
    BY AtAFlow, ControlAssumption DEF IInv, Threads
  <1>1. Types'
    <2>1. upset' \in [FlowSet -> SUBSET Causes]
      BY ZenonT(60), <1>0, UpsetTyped DEF IInv, Types, Causes, clear, upsetBy, hisVars
    <2> QED BY ZenonT(60), <2>1, <1>0, ControlAssumption
       DEF IInv, Types, clear, mqVars, ctlVars, upsetBy, back, hisVars, to, Setting, Inside,
           Labels
  <1>2. ASSUME NEW u \in Threads PROVE Holds(u)'
    BY <1>0, <1>2
       DEF IInv, Types, Holds, clear, mqVars, ctlVars, upsetBy, back, hisVars, to, Setting,
           Inside, flow
  <1>3. ASSUME NEW g \in FlowSet PROVE (Excused(g) \/ Sound(g))'
    <2>1. CASE g # f
      BY <1>0, <1>3, <2>1, Elsewhere
         DEF IInv, Types, clear, mqVars, ctlVars, upsetBy, back, hisVars, to, Setting, flow
    <2>2. CASE Excused(g)
      BY ZenonT(60), <1>0, <1>3, <2>2, ExcuseStays
         DEF IInv, Types, clear, mqVars, ctlVars, upsetBy, back, hisVars
    <2>3. CASE g = f /\ ~Excused(g)
      <3>1. Sound(g) /\ g = flow(t)
        BY <1>0, <2>3 DEF IInv
      <3>2. setting(g) = {t}
        BY <3>1 DEF setting, Sound, clear
      <3>3. setting(g)' = {} /\ pc'[t] \notin {"some", "none"}
        BY <3>2 DEF IInv, Types, setting, flow, clear, mqVars, ctlVars, upsetBy, back, to
      <3>4. CASE own' = [own EXCEPT ![g] = FALSE] /\ byHand' = [byHand EXCEPT ![g] = FALSE]
        <4>1. \A u \in Threads : flow(u) = g => pc[u] \notin Inside
          BY <1>0, <2>3, <3>2, NoPollBeside
        <4>2. at' = at /\ \E l \in {"leave", "enter"} : pc' = [pc EXCEPT ![t] = l]
          BY ZenonT(60) DEF clear, to, back
        <4>3. \A u \in Threads : flow(u)' = g => pc'[u] \notin {"some", "none"}
          BY <4>1, <4>2 DEF IInv, Types, flow, Inside
        <4>4. ~is_manual'[g] /\ ~byHand'[g] /\ cntrl'[g] /\ (own'[g] => is_set_flag'[g])
          BY <3>1, <3>2, <3>4 DEF IInv, Types, Sound, clear, ctlVars
        <4> QED BY <2>3, <3>1, <3>3, <4>3, <4>4, SoundOutside
      <3>5. CASE upsetBy(g, "fault")
        BY ZenonT(60), <2>3, <3>1, <3>5, UpsetTyped DEF IInv, Excused, upsetBy, Causes
      <3> QED BY <3>1, <3>4, <3>5 DEF clear
    <2> QED BY <2>1, <2>2, <2>3
  <1> QED BY <1>1, <1>2, <1>3 DEF IInv

(* A poll takes the lock; beside a command it has the excuse of the race. *)
LEMMA enterKeeps == ASSUME IInv, NEW t \in Threads, enter(t) PROVE IInv'
  <1> DEFINE f == flow(t)
  <1>0. f \in FlowSet /\ None \notin Threads /\ Group \in Threads
    BY AtAFlow, ControlAssumption DEF IInv, Threads
  <1>1. Types'
    BY <1>0, ControlAssumption
       DEF IInv, Types, Causes, enter, mqVars, ctlVars, hisVars, to, Setting, Inside, Labels
  <1>2. ASSUME NEW u \in Threads PROVE Holds(u)'
    BY <1>0, <1>2 DEF IInv, Types, Holds, enter, mqVars, ctlVars, hisVars, to, Setting, Inside, flow
  <1>3. ASSUME NEW g \in FlowSet PROVE (Excused(g) \/ Sound(g))'
    <2>1. CASE g # f
      BY <1>0, <1>3, <2>1, Elsewhere
         DEF IInv, Types, enter, mqVars, ctlVars, hisVars, to, Setting, flow
    <2>2. CASE Excused(g)
      BY <1>0, <1>3, <2>2, ExcuseStays DEF IInv, Types, enter, mqVars, ctlVars, hisVars
    <2>3. CASE g = f /\ ~Excused(g)
      <3>1. Sound(g) /\ g = flow(t) /\ lock[g] = None
        BY <1>0, <2>3 DEF IInv, enter
      <3>2. CASE setting(g) # {}
        BY ZenonT(60), <2>3, <3>1, <3>2, UpsetTyped DEF IInv, Excused, enter, Causes
      <3>3. CASE setting(g) = {}
        <4>1. \A u \in Threads : flow(u) = g => pc[u] \notin Inside
          BY <1>0, <3>1 DEF IInv, Holds
        <4>2. setting(g)' = {}
          BY <1>0, <3>3 DEF IInv, Types, setting, flow, enter, to
        <4>3. at' = at /\ pc' = [pc EXCEPT ![t] = "poll"]
          BY DEF enter, to
        <4>4. \A u \in Threads : flow(u)' = g => pc'[u] \notin {"some", "none"}
          BY ZenonT(60), <4>1, <4>3 DEF IInv, Types, flow, Inside
        <4>5. ~is_manual'[g] /\ ~byHand'[g] /\ cntrl'[g] /\ (own'[g] => is_set_flag'[g])
          BY <3>1, <3>3 DEF Sound, enter, mqVars, ctlVars
        <4> QED BY <2>3, <3>1, <4>2, <4>4, <4>5, SoundOutside
      <3> QED BY <3>2, <3>3
    <2> QED BY <2>1, <2>2, <2>3
  <1> QED BY <1>1, <1>2, <1>3 DEF IInv

(* The poll of a queue leaves the control alone. *)
LEMMA pollKeeps == ASSUME IInv, NEW t \in Threads, poll(t) PROVE IInv'
  <1> DEFINE f == flow(t)
  <1>0. f \in FlowSet /\ None \notin Threads /\ Group \in Threads
    BY AtAFlow, ControlAssumption DEF IInv, Threads
  <1>1. Types'
    <2>1. upset' \in [FlowSet -> SUBSET Causes]
      BY ZenonT(60), <1>0, UpsetTyped DEF IInv, Types, Causes, poll, upsetBy, hisVars
    <2> QED BY ZenonT(60), <2>1, <1>0, ControlAssumption
       DEF IInv, Types, poll, mqVars, ctlVars, upsetBy, hisVars, to, Setting, Inside, Labels
  <1>2. ASSUME NEW u \in Threads PROVE Holds(u)'
    BY ZenonT(60), <1>0, <1>2
       DEF IInv, Types, Holds, poll, mqVars, ctlVars, upsetBy, hisVars, to, Setting, Inside, flow
  <1>3. ASSUME NEW g \in FlowSet PROVE (Excused(g) \/ Sound(g))'
    <2>1. CASE g # f
      BY ZenonT(60), <1>0, <1>3, <2>1, Elsewhere
         DEF IInv, Types, poll, mqVars, ctlVars, upsetBy, hisVars, to, Setting, flow
    <2>2. CASE Excused(g)
      <3>1. upset[g] \subseteq upset'[g]
        BY <1>0, <1>3 DEF IInv, Types, poll, upsetBy, hisVars
      <3> QED
        BY <1>3, <2>2, <3>1, ExcuseStays
    <2>3. CASE g = f /\ ~Excused(g)
      <3>1. Sound(g) /\ g = flow(t)
        BY <1>0, <2>3 DEF IInv
      <3>2. setting(g) = {} /\ \A u \in Threads \ {t} : flow(u) = g => pc[u] \notin Inside
        BY <2>3, PollsAlone DEF poll, Inside
      <3>3. setting(g)' = {}
        BY ZenonT(60), <1>0, <3>2 DEF IInv, Types, setting, flow, poll, to
      <3>4. \A u \in Threads \ {t} : flow(u)' = g => pc'[u] \notin {"some", "none"}
        BY <1>0, <3>2 DEF IInv, Types, flow, poll, to, Inside
      <3>5. pc'[t] \notin {"some", "none"}
        <4>1. pc[t] = "poll" /\ (pc' = pc \/ pc' = [pc EXCEPT ![t] = "control"])
          BY ZenonT(60) DEF poll, to
        <4> QED BY <4>1 DEF IInv, Types
      <3>6. ~is_manual'[g] /\ ~byHand'[g] /\ cntrl'[g] /\ (own'[g] => is_set_flag'[g])
        BY <3>1, <3>2 DEF Sound, poll, mqVars, ctlVars
      <3> QED BY <2>3, <3>1, <3>3, <3>4, <3>5, <3>6, SoundOutside
    <2> QED BY <2>1, <2>2, <2>3
  <1> QED BY <1>1, <1>2, <1>3 DEF IInv

(* A length above 0 is a message of the controller, so the flag is set. *)
LEMMA control_lengthKeeps == ASSUME IInv, NEW t \in Threads, control_length(t) PROVE IInv'
  <1> DEFINE f == flow(t)
  <1>0. f \in FlowSet /\ None \notin Threads /\ Group \in Threads
    BY AtAFlow, ControlAssumption DEF IInv, Threads
  <1>1. Types'
    <2>1. upset' \in [FlowSet -> SUBSET Causes]
      BY <1>0, UpsetTyped DEF IInv, Types, Causes, control_length, upsetBy, hisVars
    <2> QED BY ZenonT(60), <2>1, <1>0, ControlAssumption
       DEF IInv, Types, control_length, mqVars, upsetBy, hisVars, to, Setting, Inside, Labels
  <1>2. ASSUME NEW u \in Threads PROVE Holds(u)'
    BY <1>0, <1>2
       DEF IInv, Types, Holds, control_length, mqVars, upsetBy, hisVars, to, Setting, Inside, flow
  <1>3. ASSUME NEW g \in FlowSet PROVE (Excused(g) \/ Sound(g))'
    <2>1. CASE g # f
      BY <1>0, <1>3, <2>1, Elsewhere
         DEF IInv, Types, control_length, mqVars, upsetBy, hisVars, to, Setting, flow
    <2>2. CASE Excused(g)
      BY ZenonT(60), <1>0, <1>3, <2>2, ExcuseStays DEF IInv, Types, control_length, mqVars, upsetBy, hisVars
    <2>3. CASE g = f /\ ~Excused(g)
      <3>1. Sound(g) /\ g = flow(t)
        BY <1>0, <2>3 DEF IInv
      <3>2. setting(g) = {} /\ \A u \in Threads \ {t} : flow(u) = g => pc[u] \notin Inside
        BY <2>3, PollsAlone DEF control_length, Inside
      <3>3. setting(g)' = {}
        BY <1>0, <3>2 DEF IInv, Types, setting, flow, control_length, to
      <3>4. \A u \in Threads \ {t} : flow(u)' = g => pc'[u] \notin {"some", "none"}
        BY ZenonT(60), <1>0, <3>2 DEF IInv, Types, flow, control_length, to, Inside
      <3>5. CASE /\ cntrl' = [cntrl EXCEPT ![g] = TRUE]
                 /\ to(t, IF own[g] \/ byHand[g] THEN "some" ELSE "none")
        <4>1. (own[g] => is_set_flag[g]) /\ ~byHand[g] /\ ~is_manual[g] /\ cntrl'[g]
          BY <3>1, <3>2, <3>5 DEF IInv, Types, Sound
        <4>2. pc'[t] = IF own[g] THEN "some" ELSE "none"
          BY ZenonT(60), <3>5, <4>1 DEF IInv, Types, to
        <4>3. own' = own /\ byHand' = byHand /\ is_manual' = is_manual /\ is_set_flag' = is_set_flag
          BY DEF control_length, mqVars
        <4> QED BY ZenonT(60), <2>3, <3>1, <3>3, <3>4, <4>1, <4>2, <4>3, SoundOutside
      <3>6. CASE upsetBy(g, "fault")
        BY ZenonT(60), <2>3, <3>1, <3>6, UpsetTyped DEF IInv, Excused, upsetBy, Causes
      <3> QED BY <3>1, <3>5, <3>6 DEF control_length
    <2> QED BY <2>1, <2>2, <2>3
  <1> QED BY <1>1, <1>2, <1>3 DEF IInv

(* The flag and the message agree, so nothing is manual. *)
LEMMA control_flagsKeeps == ASSUME IInv, NEW t \in Threads, control_flags(t) PROVE IInv'
  <1> DEFINE f == flow(t)
  <1>0. f \in FlowSet /\ None \notin Threads /\ Group \in Threads
    BY AtAFlow, ControlAssumption DEF IInv, Threads
  <1>1. Types'
    BY <1>0, ControlAssumption
       DEF IInv, Types, Causes, control_flags, mqVars, ctlVars, hisVars, to, Setting, Inside,
           Labels
  <1>2. ASSUME NEW u \in Threads PROVE Holds(u)'
    BY <1>0, <1>2
       DEF IInv, Types, Holds, control_flags, mqVars, ctlVars, hisVars, to, Setting, Inside, flow
  <1>3. ASSUME NEW g \in FlowSet PROVE (Excused(g) \/ Sound(g))'
    <2>1. CASE g # f
      BY <1>0, <1>3, <2>1, Elsewhere
         DEF IInv, Types, control_flags, mqVars, ctlVars, hisVars, to, Setting, flow
    <2>2. CASE Excused(g)
      BY ZenonT(60), <1>0, <1>3, <2>2, ExcuseStays DEF IInv, Types, control_flags, mqVars, ctlVars, hisVars
    <2>3. CASE g = f /\ ~Excused(g)
      BY <1>0, <1>3, <2>3
         DEF IInv, Types, Holds, Excused, Sound, control_flags, mqVars, ctlVars, hisVars, to,
             Setting, Inside, flow, setting
    <2> QED BY <2>1, <2>2, <2>3
  <1> QED BY <1>1, <1>2, <1>3 DEF IInv

(* A change of the alarm enters setFlag, alone. *)
LEMMA decideKeeps == ASSUME IInv, NEW t \in Threads, decide(t) PROVE IInv'
  <1> DEFINE f == flow(t)
  <1>0. f \in FlowSet /\ None \notin Threads /\ Group \in Threads
    BY AtAFlow, ControlAssumption DEF IInv, Threads
  <1>1. Types'
    BY ZenonT(30), <1>0, ControlAssumption
       DEF IInv, Types, Causes, decide, mqVars, setFlag, STOP, RUN, hisVars, to, Setting, Inside,
           Labels
  <1>2. ASSUME NEW u \in Threads PROVE Holds(u)'
    BY ZenonT(60), <1>0, <1>2
       DEF IInv, Types, Holds, decide, mqVars, setFlag, STOP, RUN, hisVars, to, Setting, Inside,
           flow
  <1>3. ASSUME NEW g \in FlowSet PROVE (Excused(g) \/ Sound(g))'
    <2>1. CASE g # f
      BY ZenonT(60), <1>0, <1>3, <2>1, Elsewhere
         DEF IInv, Types, decide, mqVars, setFlag, STOP, RUN, hisVars, to, Setting, flow
    <2>2. CASE Excused(g)
      BY ZenonT(60), <1>0, <1>3, <2>2, ExcuseStays DEF IInv, Types, decide, mqVars, setFlag, STOP, RUN, hisVars
    <2>3. CASE g = f /\ ~Excused(g)
      <3>0. pc[t] = "decide" /\ at' = at /\ lock' = lock /\ \E l \in {"leave", "read"} : pc' = [pc EXCEPT ![t] = l]
        BY DEF decide, setFlag, to
      <3>1. Sound(g) /\ g = flow(t)
        BY <1>0, <2>3 DEF IInv
      <3>2. setting(g) = {} /\ \A u \in Threads \ {t} : flow(u) = g => pc[u] \notin Inside
        BY <2>3, PollsAlone DEF decide, Inside
      <3>3. \A u \in Threads : flow(u)' = g => pc'[u] \notin {"some", "none"}
        BY SMTT(30), <3>0, <3>2 DEF IInv, Types, flow, Inside
      <3>4. CASE pc' = [pc EXCEPT ![t] = "leave"] /\ is_set_flag' = is_set_flag
        <4>1. setting(g)' = {}
          BY SMTT(30), <3>0, <3>2, <3>4 DEF IInv, Types, setting, flow
        <4>2. ~is_manual'[g] /\ ~byHand'[g] /\ cntrl'[g] /\ (own'[g] => is_set_flag'[g])
          BY ZenonT(30), <3>1, <3>2, <3>4 DEF Sound, decide, mqVars
        <4> QED BY <2>3, <3>1, <3>3, <4>1, <4>2, SoundOutside
      <3>5. CASE pc' = [pc EXCEPT ![t] = "read"]
        <4>1. setting(g)' = {t} /\ pc'[t] = "read" /\ lock'[g] = t
          BY ZenonT(60), <3>0, <3>1, <3>2, <3>5 DEF IInv, Types, Holds, Inside, setting, flow
        <4>2. ~is_manual'[g] /\ ~byHand'[g] /\ cntrl'[g]
          BY ZenonT(60), <3>1 DEF Sound, decide, mqVars
        <4> QED BY ZenonT(60), <2>3, <3>3, <4>1, <4>2 DEF Sound
      <3> QED BY <1>0, <3>1, <3>4, <3>5 DEF Sound, decide, setFlag, to
    <2> QED BY <2>1, <2>2, <2>3
  <1> QED BY <1>1, <1>2, <1>3 DEF IInv

(* The lock is given back when nobody is inside setFlag. *)
LEMMA leaveKeeps == ASSUME IInv, NEW t \in Threads, leave(t) PROVE IInv'
  <1> DEFINE f == flow(t)
  <1>0. f \in FlowSet /\ None \notin Threads /\ Group \in Threads
    BY AtAFlow, ControlAssumption DEF IInv, Threads
  <1>1. Types'
    BY <1>0, ControlAssumption
       DEF IInv, Types, Causes, leave, mqVars, ctlVars, hisVars, to, Setting, Inside, Labels
  <1>2. ASSUME NEW u \in Threads PROVE Holds(u)'
    BY <1>0, <1>2 DEF IInv, Types, Holds, leave, mqVars, ctlVars, hisVars, to, Setting, Inside, flow
  <1>3. ASSUME NEW g \in FlowSet PROVE (Excused(g) \/ Sound(g))'
    <2>1. CASE g # f
      BY ZenonT(30), <1>0, <1>3, <2>1, Elsewhere
         DEF IInv, Types, leave, mqVars, ctlVars, hisVars, to, Setting, flow
    <2>2. CASE Excused(g)
      BY <1>0, <1>3, <2>2, ExcuseStays DEF IInv, Types, leave, mqVars, ctlVars, hisVars
    <2>3. CASE g = f /\ ~Excused(g)
      <3>0. pc[t] = "leave" /\ \E l \in {"idle", "enter", "count"} : pc' = [pc EXCEPT ![t] = l]
        BY DEF leave, to
      <3>1. Sound(g) /\ g = flow(t)
        BY <1>0, <2>3 DEF IInv
      <3>2. setting(g) = {} /\ \A u \in Threads \ {t} : flow(u) = g => pc[u] \notin Inside
        BY <2>3, PollsAlone DEF leave, Inside
      <3>3. setting(g)' = {}
        <4>1. \A u \in Threads \ {t} : at'[u] = at[u]
          BY DEF IInv, Types, leave
        <4> QED BY <3>0, <3>2, <4>1 DEF IInv, Types, setting, flow
      <3>4. \A u \in Threads \ {t} : flow(u)' = g => pc'[u] \notin {"some", "none"}
        BY <1>0, <3>2 DEF IInv, Types, flow, leave, to, Inside
      <3>5. pc'[t] \notin {"some", "none"}
        BY SMTT(30), <3>0 DEF IInv, Types
      <3>6. ~is_manual'[g] /\ ~byHand'[g] /\ cntrl'[g] /\ (own'[g] => is_set_flag'[g])
        BY ZenonT(60), <3>1, <3>2 DEF Sound, leave, mqVars, ctlVars
      <3> QED BY <2>3, <3>1, <3>3, <3>4, <3>5, <3>6, SoundOutside
    <2> QED BY <2>1, <2>2, <2>3
  <1> QED BY <1>1, <1>2, <1>3 DEF IInv

(* A command of the page enters setFlag, alone or with an excuse. *)
LEMMA web_setFlagKeeps == ASSUME IInv, NEW w \in Webs, web_setFlag(w) PROVE IInv'
  <1>0. w \in Threads /\ w # Group /\ None \notin Threads
    BY ControlAssumption DEF Threads
  <1>1. PICK i \in 1..Len(Flows), flag \in {RUN, STOP} :
            /\ at' = [at EXCEPT ![w] = i]
            /\ setFlag(w, Flows[i], flag, "enter")
            /\ upset' = [upset EXCEPT ![Flows[i]] =
                   @ \cup {IF lock[Flows[i]] = None /\ setting(Flows[i]) = {} THEN "command" ELSE "race"}]
    BY ZenonT(60) DEF web_setFlag
  <1>2. Flows[i] \in FlowSet /\ flag \in BOOLEAN
    BY ZenonT(60) DEF FlowSet, RUN, STOP
  <1>3. /\ pc[w] = "idle" /\ lock' = lock /\ own' = own /\ byHand' = byHand
        /\ is_manual' = is_manual /\ cntrl' = cntrl
    BY DEF web_setFlag, mqVars
  <1>4. PICK l \in {"enter", "read"} :
            pc' = [pc EXCEPT ![w] = l] /\ (l = "enter" => is_manual[Flows[i]] \/ ~cntrl[Flows[i]])
    BY ZenonT(60), <1>1 DEF setFlag, to
  <1>5. Types'
    <2>1. upset' \in [FlowSet -> SUBSET Causes]
      BY ZenonT(60), <1>1, <1>2, UpsetTyped DEF IInv, Causes
    <2>2. is_set_flag' \in [FlowSet -> BOOLEAN]
      BY ZenonT(60), <1>1, <1>2 DEF IInv, Types, setFlag
    <2> QED BY <1>0, <1>1, <1>3, <1>4, <2>1, <2>2 DEF IInv, Types, Labels, Setting
  <1>6. ASSUME NEW u \in Threads PROVE Holds(u)'
    BY ZenonT(60), <1>0, <1>1, <1>3, <1>4, <1>6 DEF IInv, Types, Holds, Setting, Inside, flow
  <1>7. ASSUME NEW g \in FlowSet PROVE (Excused(g) \/ Sound(g))'
    <2>1. CASE g # Flows[i]
      <3>1. upset'[g] = upset[g] /\ is_set_flag'[g] = is_set_flag[g]
        BY <1>1, <1>2, <2>1 DEF IInv, Types, setFlag
      <3>2. \A u \in Threads \ {w} : flow(u)' = flow(u) /\ pc'[u] = pc[u]
        BY ZenonT(60), <1>0, <1>1, <1>4 DEF IInv, Types, flow
      <3>3. flow(w)' # g /\ pc[w] \notin Setting \cup {"some", "none"}
        BY <1>0, <1>1, <1>3, <2>1 DEF IInv, Types, flow, Setting
      <3> QED BY ZenonT(60), <1>3, <1>7, <3>1, <3>2, <3>3, Elsewhere DEF IInv
    <2>2. CASE Excused(g)
      BY SMTT(30), <1>1, <1>2, <2>2, ExcuseStays DEF IInv, Types
    <2>3. CASE g = Flows[i] /\ ~Excused(g) /\ ~(lock[g] = None /\ setting(g) = {})
      BY ZenonT(30), <1>1, <2>3, UpsetTyped DEF IInv, Excused, Causes
    <2>4. CASE g = Flows[i] /\ ~Excused(g) /\ lock[g] = None /\ setting(g) = {}
      <3>1. Sound(g)
        BY SMTT(30), <2>4 DEF IInv
      <3>2. pc' = [pc EXCEPT ![w] = "read"]
        BY ZenonT(60), <1>4, <2>4, <3>1 DEF Sound
      <3>3. setting(g)' = {w} /\ pc'[w] = "read"
        BY <1>0, <1>1, <1>3, <2>4, <3>2 DEF IInv, Types, setting, flow
      <3>4. \A u \in Threads : flow(u)' = g => pc'[u] \notin {"some", "none"}
        <4>1. \A u \in Threads : flow(u) = g => pc[u] \notin {"some", "none"}
          BY <1>0, <2>4 DEF IInv, Holds, Inside
        <4> QED BY ZenonT(60), <1>0, <1>1, <3>2, <4>1 DEF IInv, Types, flow
      <3> QED BY ZenonT(60), <1>3, <2>4, <3>1, <3>3, <3>4 DEF Sound
    <2> QED BY ZenonT(60), <2>1, <2>2, <2>3, <2>4
  <1> QED BY <1>5, <1>6, <1>7 DEF IInv

(* Steps that change nothing of a control, and no label that matters here. *)
LEMMA AsideKeeps ==
    ASSUME IInv, UNCHANGED <<own, byHand, is_manual, is_set_flag, cntrl, lock, upset>>,
           pc' \in [Threads -> Labels], at' \in [Threads -> 1..Len(Flows)],
           \A u \in Threads :
             \/ at'[u] = at[u] /\ pc'[u] = pc[u]
             \/ {pc[u], pc'[u]} \subseteq {"idle", "enter", "count", "mngr"}
    PROVE  IInv'
  <1>1. Types'
    BY DEF IInv, Types
  <1>2. ASSUME NEW u \in Threads PROVE Holds(u)'
    BY ZenonT(60), <1>2 DEF IInv, Holds, flow, Setting, Inside
  <1>3. ASSUME NEW g \in FlowSet PROVE (Excused(g) \/ Sound(g))'
    BY <1>3, Elsewhere DEF IInv, flow, Setting
  <1> QED BY <1>1, <1>2, <1>3 DEF IInv

(* The tasks of the group and of the manager, and the traffic, leave the controls alone. *)
LEMMA OthersKeep ==
    ASSUME IInv,
           \/ group_work \/ group_count \/ mngr_work \/ traffic
           \/ \E w \in Webs : web_ClearQ(w) \/ web_mngr(w)
           \/ UNCHANGED vars
    PROVE  IInv'
  <1>0. Group \in Threads /\ Webs \subseteq Threads /\ 1 \in 1..Len(Flows) /\ Len(Flows) \in Nat
    BY SMTT(30), ControlAssumption DEF Threads
  <1>1. CASE group_work
    BY SMTT(30), <1>0, <1>1, AsideKeeps DEF group_work, to, IInv, Types, Labels, mqVars, ctlVars, hisVars
  <1>2. CASE group_count
    <2>0. \/ at[Group] < Len(Flows) /\ at' = [at EXCEPT ![Group] = @ + 1] /\ pc' = pc
          \/ at' = [at EXCEPT ![Group] = 1] /\ pc' = [pc EXCEPT ![Group] = "idle"]
      BY <1>2 DEF group_count, to
    <2>1. at' \in [Threads -> 1..Len(Flows)] /\ pc' \in [Threads -> Labels]
      <3>1. at[Group] < Len(Flows) => at[Group] + 1 \in 1..Len(Flows)
        BY <1>0 DEF IInv, Types
      <3> QED BY ZenonT(60), <1>0, <2>0, <3>1 DEF IInv, Types, Labels
    <2>2. \A u \in Threads : \/ at'[u] = at[u] /\ pc'[u] = pc[u]
                             \/ {pc[u], pc'[u]} \subseteq {"idle", "enter", "count", "mngr"}
      BY ZenonT(60), <1>0, <1>2 DEF group_count, to, IInv, Types
    <2> QED BY ZenonT(60), <1>2, <2>1, <2>2, AsideKeeps DEF group_count, mqVars, ctlVars, hisVars
  <1>3. CASE mngr_work
    BY ZenonT(60), <1>3, AsideKeeps DEF mngr_work, IInv, Types, mqVars, ctlVars, thrVars, hisVars
  <1>4. CASE traffic
    BY SMTT(30), <1>4, AsideKeeps DEF traffic, IInv, Types, ctlVars, thrVars, hisVars
  <1>5. ASSUME NEW w \in Webs, web_ClearQ(w) \/ web_mngr(w) PROVE IInv'
    BY ZenonT(60), <1>0, <1>5, AsideKeeps
       DEF web_ClearQ, web_mngr, to, IInv, Types, Labels, mqVars, ctlVars, hisVars
  <1>6. CASE UNCHANGED vars
    BY <1>6, AsideKeeps DEF vars, IInv, Types, mqVars, ctlVars, thrVars, hisVars
  <1> QED BY <1>1, <1>2, <1>3, <1>4, <1>5, <1>6

(* A message put or removed by hand is the excuse. *)
LEMMA by_handKeeps == ASSUME IInv, by_hand PROVE IInv'
  <1>1. PICK f \in FlowSet :
            /\ upset' = [upset EXCEPT ![f] = @ \cup {"hand"}]
            /\ \/ byHand' = [byHand EXCEPT ![f] = TRUE] /\ own' = own
               \/ byHand' = [byHand EXCEPT ![f] = FALSE] /\ own' = [own EXCEPT ![f] = FALSE]
    BY ZenonT(60) DEF by_hand, upsetBy
  <1>2. UNCHANGED <<is_manual, is_set_flag, cntrl, lock, pc, at>>
    BY DEF by_hand, ctlVars, thrVars
  <1>3. upset' \in [FlowSet -> SUBSET Causes] /\ "hand" \in upset'[f]
    BY ZenonT(60), <1>1, UpsetTyped DEF IInv, Causes
  <1>4. Types'
    BY ZenonT(60), <1>1, <1>2, <1>3 DEF IInv, Types
  <1>5. ASSUME NEW u \in Threads PROVE Holds(u)'
    BY <1>2, <1>5 DEF IInv, Holds, flow
  <1>6. ASSUME NEW g \in FlowSet PROVE (Excused(g) \/ Sound(g))'
    <2>1. CASE g # f
      <3>1. upset'[g] = upset[g] /\ own'[g] = own[g] /\ byHand'[g] = byHand[g]
        BY <1>1, <2>1 DEF IInv, Types
      <3> QED BY ZenonT(60), <1>2, <1>6, <3>1, Elsewhere DEF IInv, flow
    <2>2. CASE g = f
      BY <1>3, <2>2 DEF Excused
    <2> QED BY <2>1, <2>2
  <1> QED BY <1>4, <1>5, <1>6 DEF IInv

(* A restart is an excuse for every flow. *)
LEMMA restartKeeps == ASSUME IInv, restart PROVE IInv'
  <1>0. 1 \in 1..Len(Flows)
    BY ControlAssumption
  <1>1. Types'
    BY <1>0 DEF IInv, Types, restart, mqVars, all, each, Causes, Labels
  <1>2. ASSUME NEW u \in Threads PROVE Holds(u)'
    BY <1>2 DEF Holds, restart, each, Setting, Inside
  <1>3. ASSUME NEW g \in FlowSet PROVE Excused(g)'
    BY <1>3 DEF Excused, restart
  <1> QED BY <1>1, <1>2, <1>3 DEF IInv

(* Initially every control has its connection or the excuse of its failure. *)
LEMMA InitHolds == ASSUME Init PROVE IInv
  <1>0. 1 \in 1..Len(Flows)
    BY ControlAssumption
  <1>1. Types
    BY ZenonT(60), <1>0 DEF Init, Types, all, each, Causes, Labels
  <1>2. \A u \in Threads : Holds(u)
    BY ZenonT(60) DEF Init, each, Holds, Setting, Inside
  <1>3. ASSUME NEW g \in FlowSet PROVE Excused(g) \/ Sound(g)
    <2>1. setting(g) = {}
      BY DEF Init, each, setting
    <2> QED BY ZenonT(60), <1>3, <2>1 DEF Init, all, each, Excused, Sound
  <1> QED BY <1>1, <1>2, <1>3 DEF IInv

(* Every step of every thread keeps the invariant. *)
LEMMA NextKeeps == ASSUME IInv, [Next]_vars PROVE IInv'
  <1>1. ASSUME NEW t \in Threads, step(t) PROVE IInv'
    BY <1>1, setFlag_readKeeps, putMsgKeeps, clearKeeps, enterKeeps, pollKeeps, control_lengthKeeps,
       control_flagsKeeps, decideKeeps, leaveKeeps DEF step, work
  <1>2. ASSUME NEW w \in Webs, web_setFlag(w) PROVE IInv'
    BY <1>2, web_setFlagKeeps
  <1> QED BY <1>1, <1>2, OthersKeep, by_handKeeps, restartKeeps DEF Next

(* fc_controlL.work takes a flow for stopped by hand (is_manual) only if a *)
(* message was put on its control queue by hand, a call failed, the program*)
(* was restarted, or a command overlapped a poll or another command: the   *)
(* controller's own STOP alone never makes it give up a flow.              *)
THEOREM ManualExplained == Spec => []ManualIsExplained
  <1>1. IInv => ManualIsExplained
    BY ZenonT(60) DEF IInv, Sound, ManualIsExplained
  <1> QED BY <1>1, InitHolds, NextKeeps, PTL DEF Spec
-----------------------------------------------------------------------------
(* Nothing else acting on a flow, its control follows its alarm: the flag  *)
(* that setFlag reads again, and then its call, are those of the alarm, and*)
(* after the call the control queue is.                                    *)
Tracked(f) ==
    upset[f] = {} /\ ~skipped[f] =>
        /\ setting(f) = {} => (alarm[f] <=> own[f])
        /\ \A t \in setting(f) :
            /\ pc[t] = "read" => (is_set_flag[f] <=> alarm[f])
            /\ pc[t] = "put" => alarm[f]
            /\ pc[t] = "clear" => ~alarm[f]

AlarmTypes == alarm \in [FlowSet -> BOOLEAN] /\ skipped \in [FlowSet -> BOOLEAN]

TInv == IInv /\ AlarmTypes /\ \A f \in FlowSet : Tracked(f)

(* A step that is not one of setFlag leaves the control and the alarm of a flow as they are. *)
LEMMA TrackedAside ==
    ASSUME NEW g \in FlowSet, Tracked(g), upset[g] \subseteq upset'[g],
           skipped'[g] = skipped[g], alarm'[g] = alarm[g], own'[g] = own[g],
           is_set_flag'[g] = is_set_flag[g] \/ setting(g) = {},
           \A u \in Threads :
             \/ flow(u)' = flow(u) /\ pc'[u] = pc[u]
             \/ /\ flow(u) # g \/ pc[u] \notin Setting
                /\ flow(u)' # g \/ pc'[u] \notin Setting
    PROVE  Tracked(g)'
  <1>1. setting(g)' = setting(g)
    BY ZenonT(60) DEF setting, Setting
  <1>2. \A u \in setting(g) : pc'[u] = pc[u]
    BY ZenonT(60) DEF setting, Setting
  <1>3. upset'[g] = {} => upset[g] = {}
    OBVIOUS
  <1> QED BY ZenonT(60), <1>1, <1>2, <1>3 DEF Tracked

(* Whoever else acts on a flow is recorded for good. *)
LEMMA UpsetIs ==
    ASSUME Types, NEW f \in FlowSet, NEW why, upset' = [upset EXCEPT ![f] = @ \cup {why}]
    PROVE  upset'[f] # {} /\ \A g \in FlowSet : upset[g] \subseteq upset'[g]
  BY ZenonT(60) DEF Types

(* Without an excuse the thread inside setFlag is the only one there. *)
LEMMA SetsAlone ==
    ASSUME IInv, NEW t \in Threads, pc[t] \in Setting, upset[flow(t)] = {}
    PROVE  setting(flow(t)) = {t} /\ Sound(flow(t))
  <1>1. flow(t) \in FlowSet /\ ~Excused(flow(t))
    BY ZenonT(60), AtAFlow DEF IInv, Excused
  <1>2. Sound(flow(t)) /\ t \in setting(flow(t))
    BY ZenonT(60), <1>1 DEF IInv, setting, Setting
  <1> QED BY ZenonT(60), <1>2 DEF Sound

(* The flag read again is the one the alarm has set. *)
LEMMA setFlag_readTracks == ASSUME TInv, NEW t \in Threads, setFlag_read(t) PROVE \A g \in FlowSet : Tracked(g)'
  <1> SUFFICES ASSUME NEW g \in FlowSet PROVE Tracked(g)'
    OBVIOUS
  <1>0. flow(t) \in FlowSet
    BY AtAFlow DEF TInv, IInv
  <1>1. /\ pc[t] = "read" /\ pc' = [pc EXCEPT ![t] = IF is_set_flag[flow(t)] THEN "put" ELSE "clear"]
        /\ UNCHANGED <<own, is_set_flag, alarm, at, skipped, upset>>
    BY DEF setFlag_read, to, mqVars, ctlVars, hisVars
  <1>2. \A u \in Threads : flow(u)' = flow(u) /\ (u # t => pc'[u] = pc[u])
    BY SMTT(30), <1>1 DEF TInv, IInv, Types, flow
  <1>3. CASE g # flow(t)
    BY ZenonT(60), <1>1, <1>2, <1>3, TrackedAside DEF TInv
  <1>4. CASE g = flow(t) /\ upset[g] = {} /\ ~skipped[g]
    <2>1. setting(g) = {t}
      BY ZenonT(60), <1>1, <1>4, SetsAlone DEF TInv, Setting
    <2>2. is_set_flag[g] <=> alarm[g]
      BY <1>1, <1>4, <2>1 DEF TInv, Tracked
    <2>3. pc'[t] = IF is_set_flag[g] THEN "put" ELSE "clear"
      BY ZenonT(60), <1>1, <1>4 DEF TInv, IInv, Types
    <2>4. setting(g)' = {t}
      BY ZenonT(60), <1>2, <2>1, <2>3 DEF setting
    <2> QED BY SMTT(30), <1>1, <2>2, <2>3, <2>4 DEF Tracked
  <1> QED BY <1>1, <1>3, <1>4 DEF Tracked

(* The message of a flow in alarm is put, or its failure is recorded. *)
LEMMA putMsgTracks == ASSUME TInv, NEW t \in Threads, putMsg(t) PROVE \A g \in FlowSet : Tracked(g)'
  <1> SUFFICES ASSUME NEW g \in FlowSet PROVE Tracked(g)'
    OBVIOUS
  <1>0. flow(t) \in FlowSet
    BY AtAFlow DEF TInv, IInv
  <1>1. /\ pc[t] = "put" /\ UNCHANGED <<is_set_flag, alarm, at, skipped>>
        /\ \E l \in {"leave", "enter"} : pc' = [pc EXCEPT ![t] = l]
        /\ \/ own' = [own EXCEPT ![flow(t)] = TRUE] /\ upset' = upset
           \/ own' = own /\ upset' = [upset EXCEPT ![flow(t)] = @ \cup {"fault"}]
    BY ZenonT(60) DEF putMsg, to, back, ctlVars, upsetBy
  <1>2. \A u \in Threads : flow(u)' = flow(u) /\ (u # t => pc'[u] = pc[u])
    BY <1>1 DEF TInv, IInv, Types, flow
  <1>3. pc'[t] \notin Setting
    BY <1>1 DEF TInv, IInv, Types, Setting
  <1>4. upset[g] \subseteq upset'[g]
    BY ZenonT(60), <1>0, <1>1, UpsetIs DEF TInv, IInv
  <1>5. CASE g # flow(t)
    <2>1. own'[g] = own[g]
      BY ZenonT(60), <1>0, <1>1, <1>5 DEF TInv, IInv, Types
    <2> QED BY ZenonT(60), <1>1, <1>2, <1>4, <1>5, <2>1, TrackedAside DEF TInv
  <1>6. CASE g = flow(t) /\ upset'[g] = {} /\ ~skipped[g]
    <2>1. upset[g] = {} /\ own'[g]
      BY ZenonT(60), <1>0, <1>1, <1>4, <1>6, UpsetIs DEF TInv, IInv, Types
    <2>2. setting(g) = {t}
      BY ZenonT(60), <1>1, <1>6, <2>1, SetsAlone DEF TInv, Setting
    <2>3. alarm[g]
      BY <1>1, <1>6, <2>1, <2>2 DEF TInv, Tracked
    <2>4. setting(g)' = {}
      BY ZenonT(60), <1>2, <1>3, <2>2 DEF setting, Setting
    <2> QED BY SMTT(30), <1>1, <2>1, <2>3, <2>4 DEF Tracked
  <1> QED BY SMTT(30), <1>1, <1>5, <1>6 DEF Tracked

(* The control queue of a flow out of alarm is cleared, or the failure is recorded. *)
LEMMA clearTracks == ASSUME TInv, NEW t \in Threads, clear(t) PROVE \A g \in FlowSet : Tracked(g)'
  <1> SUFFICES ASSUME NEW g \in FlowSet PROVE Tracked(g)'
    OBVIOUS
  <1>0. flow(t) \in FlowSet
    BY AtAFlow DEF TInv, IInv
  <1>1. /\ pc[t] = "clear" /\ UNCHANGED <<is_set_flag, alarm, at, skipped>>
        /\ \E l \in {"leave", "enter"} : pc' = [pc EXCEPT ![t] = l]
        /\ \/ own' = [own EXCEPT ![flow(t)] = FALSE] /\ upset' = upset
           \/ own' = own /\ upset' = [upset EXCEPT ![flow(t)] = @ \cup {"fault"}]
    BY ZenonT(60) DEF clear, to, back, ctlVars, upsetBy
  <1>2. \A u \in Threads : flow(u)' = flow(u) /\ (u # t => pc'[u] = pc[u])
    BY <1>1 DEF TInv, IInv, Types, flow
  <1>3. pc'[t] \notin Setting
    BY <1>1 DEF TInv, IInv, Types, Setting
  <1>4. upset[g] \subseteq upset'[g]
    BY ZenonT(60), <1>0, <1>1, UpsetIs DEF TInv, IInv
  <1>5. CASE g # flow(t)
    <2>1. own'[g] = own[g]
      BY ZenonT(60), <1>0, <1>1, <1>5 DEF TInv, IInv, Types
    <2> QED BY ZenonT(60), <1>1, <1>2, <1>4, <1>5, <2>1, TrackedAside DEF TInv
  <1>6. CASE g = flow(t) /\ upset'[g] = {} /\ ~skipped[g]
    <2>1. upset[g] = {} /\ ~own'[g]
      BY ZenonT(60), <1>0, <1>1, <1>4, <1>6, UpsetIs DEF TInv, IInv, Types
    <2>2. setting(g) = {t}
      BY ZenonT(60), <1>1, <1>6, <2>1, SetsAlone DEF TInv, Setting
    <2>3. ~alarm[g]
      BY <1>1, <1>6, <2>1, <2>2 DEF TInv, Tracked
    <2>4. setting(g)' = {}
      BY <1>2, <1>3, <2>2 DEF setting, Setting
    <2> QED BY SMTT(30), <1>1, <2>1, <2>3, <2>4 DEF Tracked
  <1> QED BY SMTT(30), <1>1, <1>5, <1>6 DEF Tracked

(* A change of the alarm that is acted on enters setFlag with the new alarm, alone. *)
LEMMA decideTracks ==
    ASSUME TInv, NEW t \in Threads, decide(t)
    PROVE  AlarmTypes' /\ \A g \in FlowSet : Tracked(g)'
  <1>0. PICK f \in FlowSet : f = flow(t)
    BY AtAFlow DEF TInv, IInv
  <1> DEFINE new == IF alarm[f] THEN ~drained(f) ELSE over(f)
  <1>1. new \in BOOLEAN
    BY ZenonT(60) DEF drained, over
  <1>2. /\ pc[t] = "decide" /\ alarm' = [alarm EXCEPT ![f] = new]
        /\ UNCHANGED <<own, is_manual, cntrl, at, upset>>
    BY <1>0 DEF decide, mqVars
  <1>3. alarm'[f] = new
    BY <1>0, <1>2 DEF TInv, AlarmTypes
  <1> HIDE DEF new
  <1>4. \/ /\ new # alarm[f] /\ isControlStream /\ skipped' = [skipped EXCEPT ![f] = FALSE]
           /\ setFlag(t, f, new, "leave")
        \/ /\ new # alarm[f] /\ skipped' = [skipped EXCEPT ![f] = TRUE]
           /\ pc' = [pc EXCEPT ![t] = "leave"] /\ is_set_flag' = is_set_flag
        \/ /\ new = alarm[f] /\ skipped' = skipped
           /\ pc' = [pc EXCEPT ![t] = "leave"] /\ is_set_flag' = is_set_flag
    <2>1. (IF new THEN STOP ELSE RUN) = new
      BY ZenonT(60), <1>1 DEF STOP, RUN
    <2>2. (~isControlStream) \in BOOLEAN
      BY ZenonT(60) DEF isControlStream
    <2>3. IF alarm'[f] # alarm[f]
          THEN /\ skipped' = [skipped EXCEPT ![f] = ~isControlStream]
               /\ IF isControlStream THEN setFlag(t, f, IF alarm'[f] THEN STOP ELSE RUN, "leave")
                  ELSE to(t, "leave") /\ UNCHANGED is_set_flag
          ELSE to(t, "leave") /\ UNCHANGED <<is_set_flag, skipped>>
      BY <1>0 DEF decide
    <2>4. IF new # alarm[f]
          THEN /\ skipped' = [skipped EXCEPT ![f] = ~isControlStream]
               /\ IF isControlStream THEN setFlag(t, f, new, "leave")
                  ELSE to(t, "leave") /\ UNCHANGED is_set_flag
          ELSE to(t, "leave") /\ UNCHANGED <<is_set_flag, skipped>>
      BY <1>3, <2>1, <2>3, Zenon
    <2> QED BY ZenonT(60), <2>2, <2>4 DEF to
  <1>5. AlarmTypes'
    BY ZenonT(60), <1>0, <1>1, <1>2, <1>4 DEF TInv, AlarmTypes
  <1>6. \E l \in {"leave", "read"} : pc' = [pc EXCEPT ![t] = l]
    BY ZenonT(60), <1>4 DEF setFlag, to
  <1>7. \A u \in Threads : flow(u)' = flow(u) /\ (u # t => pc'[u] = pc[u])
    BY <1>2, <1>6 DEF TInv, IInv, Types, flow
  <1>8. ASSUME NEW g \in FlowSet, g # f PROVE Tracked(g)'
    <2>1. alarm'[g] = alarm[g] /\ skipped'[g] = skipped[g] /\ is_set_flag'[g] = is_set_flag[g]
      BY ZenonT(60), <1>0, <1>2, <1>4, <1>8 DEF TInv, AlarmTypes, IInv, Types, setFlag
    <2> QED BY ZenonT(60), <1>0, <1>2, <1>7, <1>8, <2>1, TrackedAside DEF TInv
  <1>9. ASSUME upset[f] = {}, ~skipped'[f] PROVE Tracked(f)'
    <2>1. ~Excused(f)
      BY <1>9 DEF Excused
    <2>2. setting(f) = {} /\ Sound(f)
      BY <1>0, <1>2, <2>1, PollsAlone DEF TInv, IInv, Inside
    <2>3. CASE new = alarm[f] /\ skipped' = skipped /\ pc' = [pc EXCEPT ![t] = "leave"]
      <3>1. setting(f)' = {}
        BY SMTT(30), <1>7, <2>2, <2>3 DEF TInv, IInv, Types, setting
      <3>2. alarm[f] <=> own[f]
        BY ZenonT(60), <1>0, <1>9, <2>2, <2>3 DEF TInv, Tracked
      <3> QED BY ZenonT(60), <1>2, <1>3, <2>3, <3>1, <3>2 DEF Tracked
    <2>4. CASE setFlag(t, f, new, "leave")
      <3>1. ~is_manual[f] /\ cntrl[f]
        BY <2>2 DEF Sound
      <3>2. pc' = [pc EXCEPT ![t] = "read"] /\ is_set_flag' = [is_set_flag EXCEPT ![f] = new]
        BY ZenonT(60), <2>4, <3>1 DEF setFlag, to
      <3>3. setting(f)' = {t} /\ pc'[t] = "read" /\ is_set_flag'[f] = new
        BY ZenonT(60), <1>0, <1>7, <2>2, <3>2 DEF TInv, IInv, Types, setting
      <3> QED BY ZenonT(60), <1>3, <3>3 DEF Tracked
    <2>5. skipped' # [skipped EXCEPT ![f] = TRUE]
      BY ZenonT(60), <1>0, <1>9 DEF TInv, AlarmTypes
    <2> QED BY <1>4, <2>3, <2>4, <2>5
  <1>10. Tracked(f)'
    BY <1>2, <1>9 DEF Tracked
  <1> QED BY <1>5, <1>8, <1>10

(* The other steps of work() are outside of setFlag. *)
LEMMA WorkTracks ==
    ASSUME TInv, NEW t \in Threads,
           enter(t) \/ poll(t) \/ control_length(t) \/ control_flags(t) \/ leave(t)
    PROVE  AlarmTypes' /\ \A g \in FlowSet : Tracked(g)'
  <1>0. flow(t) \in FlowSet
    BY ZenonT(60), AtAFlow DEF TInv, IInv
  <1>1. UNCHANGED <<alarm, own, skipped>>
    BY DEF enter, poll, control_length, control_flags, leave, mqVars, hisVars
  <1>2. \A u \in Threads \ {t} : flow(u)' = flow(u) /\ pc'[u] = pc[u]
    <2>1. at' = at \/ \E k : at' = [at EXCEPT ![t] = k]
      BY ZenonT(60) DEF enter, poll, control_length, control_flags, leave
    <2>2. pc' = pc \/ \E l : pc' = [pc EXCEPT ![t] = l]
      BY DEF enter, poll, control_length, control_flags, leave, to
    <2> QED BY ZenonT(60), <2>1, <2>2 DEF TInv, IInv, Types, flow
  <1>3. pc[t] \notin Setting /\ pc'[t] \notin Setting
    <2>1. pc[t] \in Inside \cup {"enter"}
      BY ZenonT(60) DEF enter, poll, control_length, control_flags, leave, Inside
    <2>2. pc' = pc \/ \E l \in Inside \cup {"idle", "enter", "count"} : pc' = [pc EXCEPT ![t] = l]
      BY DEF enter, poll, control_length, control_flags, leave, to, Inside
    <2> QED BY ZenonT(60), <2>1, <2>2 DEF TInv, IInv, Types, Setting, Inside
  <1>4. \A g \in FlowSet : upset[g] \subseteq upset'[g]
    <2>1. upset' = upset \/ \E why : upset' = [upset EXCEPT ![flow(t)] = @ \cup {why}]
      BY ZenonT(60) DEF enter, poll, control_length, control_flags, leave, upsetBy, hisVars
    <2> QED BY ZenonT(60), <1>0, <2>1, UpsetIs DEF TInv, IInv
  <1>5. ASSUME NEW g \in FlowSet, upset[g] = {} PROVE is_set_flag'[g] = is_set_flag[g] \/ setting(g) = {}
    <2>1. CASE ~control_flags(t) \/ g # flow(t)
      BY ZenonT(60), <1>0, <2>1 DEF enter, poll, control_length, control_flags, leave, ctlVars, TInv, IInv, Types
    <2>2. CASE control_flags(t) /\ g = flow(t)
      BY ZenonT(60), <1>5, <2>2, PollsAlone DEF TInv, control_flags, Inside, Excused
    <2> QED BY <2>1, <2>2
  <1>6. ASSUME NEW g \in FlowSet PROVE Tracked(g)'
    <2>1. CASE upset[g] = {}
      BY ZenonT(60), <1>1, <1>2, <1>3, <1>4, <1>5, <2>1, TrackedAside DEF TInv
    <2>2. CASE upset[g] # {}
      BY ZenonT(60), <1>4, <2>2 DEF Tracked
    <2> QED BY ZenonT(60), <2>1, <2>2
  <1> QED BY <1>1, <1>6 DEF TInv, AlarmTypes

(* A command of the page and a message put or removed by hand are recorded; *)
(* the flows they are not about stay as they are.                           *)
LEMMA OutsideTracks ==
    ASSUME TInv, by_hand \/ restart \/ \E w \in Webs : web_setFlag(w)
    PROVE  AlarmTypes' /\ \A g \in FlowSet : Tracked(g)'
  <1>1. CASE by_hand
    <2>1. PICK f \in FlowSet : /\ upset' = [upset EXCEPT ![f] = @ \cup {"hand"}]
                               /\ own' = own \/ own' = [own EXCEPT ![f] = FALSE]
      BY ZenonT(60), <1>1 DEF by_hand, upsetBy
    <2>2. UNCHANGED <<is_set_flag, alarm, pc, at, skipped>>
      BY <1>1 DEF by_hand, ctlVars, thrVars
    <2>3. upset'[f] # {} /\ \A g \in FlowSet : upset[g] \subseteq upset'[g]
      BY ZenonT(60), <2>1, UpsetIs DEF TInv, IInv
    <2>4. ASSUME NEW g \in FlowSet PROVE Tracked(g)'
      <3>1. CASE g = f
        BY ZenonT(60), <2>3, <3>1 DEF Tracked
      <3>2. CASE g # f
        <4>1. own'[g] = own[g]
          BY ZenonT(60), <2>1, <3>2 DEF TInv, IInv, Types
        <4> QED BY ZenonT(60), <2>2, <2>3, <4>1, TrackedAside DEF TInv, flow
      <3> QED BY <3>1, <3>2
    <2> QED BY <2>2, <2>4 DEF TInv, AlarmTypes
  <1>2. CASE restart
    <2>1. \A g \in FlowSet : upset'[g] # {}
      BY ZenonT(60), <1>2 DEF restart
    <2>2. AlarmTypes'
      BY <1>2 DEF restart, all, TInv, AlarmTypes
    <2> QED BY ZenonT(60), <2>1, <2>2 DEF Tracked
  <1>3. ASSUME NEW w \in Webs, web_setFlag(w) PROVE AlarmTypes' /\ \A g \in FlowSet : Tracked(g)'
    <2>0. w \in Threads
      BY SMTT(30) DEF Threads
    <2>1. PICK i \in 1..Len(Flows), flag \in {RUN, STOP} :
              /\ at' = [at EXCEPT ![w] = i]
              /\ setFlag(w, Flows[i], flag, "enter")
              /\ \E why : upset' = [upset EXCEPT ![Flows[i]] = @ \cup {why}]
      BY ZenonT(60), <1>3 DEF web_setFlag
    <2>2. PICK f \in FlowSet : f = Flows[i]
      BY DEF FlowSet
    <2>3. pc[w] = "idle" /\ UNCHANGED <<own, alarm, skipped>>
      BY ZenonT(60), <1>3 DEF web_setFlag, mqVars
    <2>4. upset'[f] # {} /\ \A g \in FlowSet : upset[g] \subseteq upset'[g]
      BY ZenonT(60), <2>1, <2>2, UpsetIs DEF TInv, IInv
    <2>5. ASSUME NEW g \in FlowSet PROVE Tracked(g)'
      <3>1. CASE g = f
        BY ZenonT(60), <2>4, <3>1 DEF Tracked
      <3>2. CASE g # f
        <4>1. is_set_flag'[g] = is_set_flag[g]
          BY SMTT(30), <2>1, <2>2, <3>2 DEF TInv, IInv, Types, setFlag
        <4>2. \A u \in Threads \ {w} : flow(u)' = flow(u) /\ pc'[u] = pc[u]
          BY SMTT(30), <2>0, <2>1 DEF TInv, IInv, Types, flow, setFlag, to
        <4>3. flow(w)' # g /\ pc[w] \notin Setting
          BY <2>0, <2>1, <2>2, <2>3, <3>2 DEF TInv, IInv, Types, flow, Setting
        <4> QED BY ZenonT(60), <2>3, <2>4, <4>1, <4>2, <4>3, TrackedAside DEF TInv
      <3> QED BY <3>1, <3>2
    <2> QED BY <2>3, <2>5 DEF TInv, AlarmTypes
  <1> QED BY <1>1, <1>2, <1>3

(* The tasks, the traffic and the other commands touch no control. *)
LEMMA OthersTrack ==
    ASSUME TInv,
           \/ group_work \/ group_count \/ mngr_work \/ traffic
           \/ \E w \in Webs : web_ClearQ(w) \/ web_mngr(w)
           \/ UNCHANGED vars
    PROVE  AlarmTypes' /\ \A g \in FlowSet : Tracked(g)'
  <1>1. UNCHANGED <<own, is_set_flag, alarm, skipped, upset>>
    BY SMTT(30) DEF group_work, group_count, mngr_work, traffic, web_ClearQ, web_mngr, vars, mqVars, ctlVars, hisVars
  <1>2. \A u \in Threads : \/ at'[u] = at[u] /\ pc'[u] = pc[u]
                           \/ {pc[u], pc'[u]} \subseteq {"idle", "enter", "count", "mngr"}
    <2>1. CASE group_work \/ group_count
      BY ZenonT(60), <2>1 DEF group_work, group_count, to, TInv, IInv, Types, Threads
    <2>2. CASE mngr_work \/ traffic \/ UNCHANGED vars
      BY ZenonT(60), <2>2 DEF mngr_work, traffic, vars, thrVars
    <2>3. ASSUME NEW w \in Webs, web_ClearQ(w) \/ web_mngr(w)
          PROVE  at' = at /\ pc[w] \in {"idle", "mngr"} /\ \E l \in {"idle", "mngr"} : pc' = [pc EXCEPT ![w] = l]
      BY ZenonT(60), <2>3 DEF web_ClearQ, web_mngr, to
    <2>4. CASE \E w \in Webs : web_ClearQ(w) \/ web_mngr(w)
      BY ZenonT(60), <2>3, <2>4 DEF TInv, IInv, Types, Threads
    <2> QED BY ZenonT(60), <2>1, <2>2, <2>4
  <1>3. ASSUME NEW g \in FlowSet PROVE Tracked(g)'
    <2>1. \A u \in Threads : \/ flow(u)' = flow(u) /\ pc'[u] = pc[u]
                             \/ pc[u] \notin Setting /\ pc'[u] \notin Setting
      BY <1>2 DEF flow, Setting
    <2> QED BY ZenonT(60), <1>1, <2>1, TrackedAside DEF TInv
  <1> QED BY SMTT(30), <1>1, <1>3 DEF TInv, AlarmTypes

(* Every step keeps the flows tracked. *)
LEMMA NextTracks == ASSUME TInv, [Next]_vars PROVE TInv'
  <1>1. IInv'
    BY NextKeeps DEF TInv
  <1>2. ASSUME NEW t \in Threads, step(t) PROVE AlarmTypes' /\ \A g \in FlowSet : Tracked(g)'
    <2>1. CASE setFlag_read(t) \/ putMsg(t) \/ clear(t)
      <3>1. AlarmTypes'
        BY <2>1 DEF setFlag_read, putMsg, clear, hisVars, TInv, AlarmTypes
      <3> QED BY ZenonT(60), <2>1, <3>1, setFlag_readTracks, putMsgTracks, clearTracks
    <2>2. CASE work(t)
      BY <2>2, WorkTracks, decideTracks DEF work
    <2> QED BY ZenonT(60), <1>2, <2>1, <2>2 DEF step
  <1>3. AlarmTypes' /\ \A g \in FlowSet : Tracked(g)'
    BY <1>2, OutsideTracks, OthersTrack DEF Next
  <1> QED BY <1>1, <1>3 DEF TInv

(* While nobody but the controller acts on a flow, its control queue holds *)
(* the STOP exactly while the flow is in alarm, except inside setFlag and  *)
(* after a change of the alarm that fc_node.isControlStream left alone.    *)
THEOREM StopFollowsAlarm == Spec => []StopTracksAlarm
  <1>1. Init => TInv
    <2>1. ASSUME Init PROVE TInv
      <3>1. AlarmTypes
        BY ZenonT(60), <2>1 DEF Init, all, AlarmTypes
      <3>2. \A g \in FlowSet : setting(g) = {}
        BY ZenonT(60), <2>1 DEF Init, each, setting
      <3>3. \A g \in FlowSet : ~alarm[g] /\ ~own[g]
        BY ZenonT(60), <2>1 DEF Init, all
      <3> QED BY ZenonT(60), <2>1, <3>1, <3>2, <3>3, InitHolds DEF TInv, Tracked
    <2> QED BY ZenonT(60), <2>1
  <1>2. TInv => StopTracksAlarm
    BY DEF TInv, Tracked, StopTracksAlarm
  <1> QED BY <1>1, <1>2, NextTracks, PTL DEF Spec
=============================================================================
