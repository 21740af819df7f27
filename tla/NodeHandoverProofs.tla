-------------------------- MODULE NodeHandoverProofs -------------------------
(***************************************************************************)
(* Handing the volume from node to node, and what the kubelets are told,   *)
(* for a node plugin that runs without REMOUNT: any number of nodes,       *)
(* goroutines, faults and events.                                          *)
(*                                                                         *)
(* The invariants are proved in layers, each from the ones before it:      *)
(*   KubeletInv, ReleaseInv   as they stand;                               *)
(*   WantedInv                when pods do not overlap;                    *)
(*   ClearedInv, RecordInv    when, in addition, nodes stay ready;         *)
(*   SessionInv               when, in addition, sessions are not lost;    *)
(*   ShownInv                 when, instead, mounts are not damaged.       *)
(* A step is one of a goroutine, summarised in NodeMoves, or one of the    *)
(* kubelet, the driver process or the environment, summarised here         *)
(* (Background).                                                           *)
(***************************************************************************)
EXTENDS NodeMoves

\* A CVA that is left alone or collected.
Kept(c, d) ==
  /\ "node" \in d.finalizers =>
       "node" \in c.finalizers /\ d.exists = c.exists /\ d.staging = c.staging
  /\ d.exists => c.exists
  /\ d.deleting => c.deleting
  /\ OnRecord(c) => OnRecord(d)

\* The node m has been rebooted.
Wiped(m) ==
  /\ stg'[m] = 0
  /\ co'[m].st # "staged"
  /\ co'[m].pub # "yes"
  /\ \A t \in Threads : pc'[m][t] = "idle"

\* What becomes of a goroutine t of m that does not move by itself: it goes on later,
\* its process dies, or it starts, as a Cleanup or to serve a call.
Begins(m, t) ==
  \/ /\ pc'[m][t] = pc[m][t] /\ arg'[m][t] = arg[m][t]
     /\ t \in call'[m] => t \in call[m] /\ co'[m].st = co[m].st
  \/ pc'[m][t] \in {"idle", "expand_get"}
  \/ pc'[m][t] = "cleanup_detach" /\ cva[m].deleting
  \/ pc'[m][t] = "stage_list" /\ co[m].want /\ co'[m].st = "maybe"
  \/ pc'[m][t] = "unstage_get" /\ co'[m].st = "maybe"
  \/ pc'[m][t] = "publish_get" /\ co[m].st = "staged" /\ co'[m].st = "staged"
  \/ pc'[m][t] = "unpublish_check" /\ co'[m].pub # "yes"

\* What a step that is none of a goroutine may do to node m.
Background(m) ==
  /\ Kept(cva[m], cva'[m])
  /\ co'[m].st \in {co[m].st, "maybe"}
  /\ co'[m].pub \in {co[m].pub, "maybe"}
  /\ co'[m].pub = "yes" => co'[m].st = co[m].st \/ co[m].st # "staged"
  /\ co'[m].want => co[m].want \/ SchedulePod(m)
  /\ \A t \in Threads : Begins(m, t)
  /\ \/ stg'[m] = stg[m] /\ tgt'[m] = tgt[m]
     \/ Wiped(m)
     \/ "damage" \in FaultKinds /\ stg'[m] \in {0, stg[m]}
  /\ m \in session => m \in session' \/ Wiped(m) \/ "logout" \in FaultKinds

-----------------------------------------------------------------------------
(* Steps that are none of a goroutine *)

\* Collecting garbage keeps a CVA or ends one that nobody holds.
LEMMA CollectedKept ==
  ASSUME NEW c \in CVARecord
  PROVE  Kept(c, c) /\ Kept(c, Collected(c))
<1> DEFINE d == [c EXCEPT !.finalizers = @ \ {"foreground"}]
<1>1. /\ d.exists = c.exists /\ d.staging = c.staging /\ d.deleting = c.deleting
      /\ "node" \in d.finalizers <=> "node" \in c.finalizers
  BY DEF CVARecord
<1>2. Collected(c) = d \/ (Collected(c) = Absent /\ d.finalizers = {})
  BY DEF Collected, Settle
<1> HIDE DEF d
<1> QED BY <1>1, <1>2 DEF Kept, OnRecord, Absent

\* A node that a step leaves alone.
LEMMA Aside ==
  ASSUME NEW m \in Nodes, Kept(cva[m], cva'[m]), co'[m] = co[m],
         pc'[m] = pc[m], arg'[m] = arg[m], call'[m] = call[m],
         stg'[m] = stg[m], tgt'[m] = tgt[m], m \in session => m \in session'
  PROVE  Background(m)
  BY DEF Background, Begins

\* The driver process or the node dies.
LEMMA DeathBackground ==
  ASSUME IInv, NEW n \in Nodes, DriverCrash(n) \/ Reboot(n), NEW m \in Nodes
  PROVE  Background(m) /\ UNCHANGED ready
<1>0. /\ TypeOK /\ co \in [Nodes -> KubeletRecord] /\ cva[m] \in CVARecord
      /\ co[n] \in KubeletRecord
  BY TypeParts DEF IInv, KubeletOK, TypeOK
<1>1. /\ ProcessDies(n)
      /\ UNCHANGED <<cva, ready>>
  BY DEF DriverCrash, Reboot
<1>2. /\ \A t \in Threads : pc'[n][t] = "idle"
      /\ m # n => pc'[m] = pc[m] /\ arg'[m] = arg[m] /\ call'[m] = call[m]
  BY <1>0, <1>1 DEF ProcessDies, TypeOK
<1>3. Kept(cva[m], cva'[m])
  BY <1>0, <1>1, CollectedKept
<1>4. CASE DriverCrash(n)
  <2>1. UNCHANGED <<co, stg, tgt, session>>
    BY <1>4 DEF DriverCrash, host
  <2>2. CASE m = n
    BY <1>1, <1>2, <1>3, <2>1, <2>2 DEF Background, Begins
  <2>3. CASE m # n
    BY <1>1, <1>2, <1>3, <2>1, <2>3, Aside
  <2> QED BY <1>1, <2>2, <2>3
<1>5. CASE Reboot(n)
  <2>1. /\ co' = [co EXCEPT ![n] = Unsure(@)]
        /\ stg' = [stg EXCEPT ![n] = 0]
        /\ tgt' = [tgt EXCEPT ![n] = <<>>]
        /\ session' = session \ {n}
    BY <1>5 DEF Reboot
  <2>2. CASE m # n
    <3>1. /\ co'[m] = co[m] /\ stg'[m] = stg[m] /\ tgt'[m] = tgt[m]
          /\ m \in session => m \in session'
      BY <1>0, <2>1, <2>2 DEF TypeOK
    <3> QED BY <1>1, <1>2, <1>3, <2>2, <3>1, Aside
  <2>3. CASE m = n
    <3>1. /\ Unsure(co[n]).st \in {co[n].st, "maybe"} /\ Unsure(co[n]).st # "staged"
          /\ Unsure(co[n]).pub \in {co[n].pub, "maybe"} /\ Unsure(co[n]).pub # "yes"
          /\ Unsure(co[n]).want = co[n].want
      BY <1>0 DEF Unsure, KubeletRecord
    <3>2. co'[n] = Unsure(co[n]) /\ stg'[n] = 0
      BY <1>0, <2>1 DEF TypeOK
    <3>3. Wiped(n)
      BY <1>2, <3>1, <3>2 DEF Wiped
    <3> QED BY <1>1, <1>2, <1>3, <2>3, <3>1, <3>2, <3>3 DEF Background, Begins
  <2> QED BY <2>2, <2>3
<1> QED BY <1>4, <1>5

\* The driver starts, with its Cleanup.
LEMMA StartBackground ==
  ASSUME IInv, NEW n \in Nodes, DriverStart(n), NEW m \in Nodes
  PROVE  Background(m) /\ UNCHANGED ready
<1>0. TypeOK /\ cva[m] \in CVARecord
  BY DEF IInv, TypeOK
<1>1. UNCHANGED <<cva, ready, co, call, stg, tgt, session>> /\ Cleanup(n)
  BY DEF DriverStart, host, kubelet
<1>2. Kept(cva[m], cva'[m])
  BY <1>0, <1>1, CollectedKept
<1>3. CASE UNCHANGED <<pc, arg>>
  BY <1>1, <1>2, <1>3, Aside
<1>4. CASE cva[n].exists /\ cva[n].deleting
  <2>1. PICK t \in Threads : \E a : GotoWith(n, t, "cleanup_detach", a)
    BY <1>1, <1>4 DEF Cleanup, Idle
  <2>2. /\ pc'[n][t] = "cleanup_detach"
        /\ \A u \in Threads \ {t} : pc'[n][u] = pc[n][u]
        /\ \A k \in Nodes \ {n} : pc'[k] = pc[k] /\ arg'[k] = arg[k]
    BY <1>0, <2>1, GotoEffect
  <2>3. \A u \in Threads \ {t} : arg'[n][u] = arg[n][u]
    BY <1>0, <2>1 DEF GotoWith, TypeOK
  <2>4. CASE m # n
    BY <1>1, <1>2, <2>2, <2>4, Aside
  <2>5. CASE m = n
    BY <1>1, <1>2, <1>4, <2>2, <2>3, <2>5 DEF Background, Begins
  <2> QED BY <1>1, <2>4, <2>5
<1> QED BY <1>1, <1>3, <1>4 DEF Cleanup

\* A CSI call is refused, or starts a goroutine.
LEMMA CallBackground ==
  ASSUME IInv, NEW n \in Nodes, KubeletCall(n) \/ CallExpand(n),
         NEW m \in Nodes
  PROVE  Background(m) /\ UNCHANGED ready
<1>0. /\ TypeOK /\ cva[m] \in CVARecord
      /\ co \in [Nodes -> KubeletRecord] /\ co[n] \in KubeletRecord
      /\ call \in [Nodes -> SUBSET Threads]
  BY TypeParts DEF IInv, KubeletOK, TypeOK
<1>1. PICK p \in Entries, k \in KubeletRecord :
        /\ Call(n, p, k)
        /\ k.st \in {co[n].st, "maybe"} /\ k.pub \in {co[n].pub, "maybe"}
        /\ k.pub = "yes" => k.st = co[n].st \/ co[n].st # "staged"
        /\ k.want = co[n].want
        /\ p = "stage_list" => co[n].want /\ k.st = "maybe"
        /\ p = "unstage_get" => k.st = "maybe"
        /\ p = "publish_get" => co[n].st = "staged" /\ k.st = "staged"
        /\ p = "unpublish_check" => k.pub # "yes"
  <2>1. CASE CallStage(n)
    BY <1>0, <2>1 DEF CallStage, Entries, KubeletRecord
  <2>2. CASE CallPublish(n)
    BY <1>0, <2>2 DEF CallPublish, Entries, KubeletRecord
  <2>3. CASE CallUnpublish(n)
    BY <1>0, <2>3 DEF CallUnpublish, Entries, KubeletRecord
  <2>4. CASE CallUnstage(n)
    BY <1>0, <2>4 DEF CallUnstage, Entries, KubeletRecord
  <2>5. CASE CallExpand(n)
    BY <1>0, <2>5 DEF CallExpand, Entries
  <2> QED BY <2>1, <2>2, <2>3, <2>4, <2>5 DEF KubeletCall
<1>2. /\ call[n] = {}
      /\ co' = [co EXCEPT ![n] = k]
      /\ UNCHANGED <<cva, ready, session, stg, tgt>>
  BY <1>1 DEF Call, cluster
<1>3. /\ Kept(cva[m], cva'[m])
      /\ co'[n] = k
      /\ m # n => co'[m] = co[m]
  BY <1>0, <1>2, CollectedKept
<1>4. PICK t \in Threads : addVolumeToTransitionList(n, t, p)
  BY <1>1 DEF Call, Idle
<1>5. CASE UNCHANGED <<call, pc, arg>>
  <2>1. CASE m # n
    BY <1>2, <1>3, <1>5, <2>1, Aside
  <2>2. CASE m = n
    BY <1>1, <1>2, <1>3, <1>5, <2>2 DEF Background, Begins
  <2> QED BY <2>1, <2>2
<1>6. CASE call' = [call EXCEPT ![n] = {t}] /\ Goto(n, t, p)
  <2>1. /\ pc'[n][t] = p
        /\ \A u \in Threads \ {t} : pc'[n][u] = pc[n][u]
        /\ \A j \in Nodes \ {n} : pc'[j] = pc[j] /\ arg'[j] = arg[j]
    BY <1>0, <1>6, GotoEffect
  <2>2. /\ call'[n] = {t}
        /\ m # n => call'[m] = call[m]
        /\ \A u \in Threads \ {t} : arg'[n][u] = arg[n][u]
    BY <1>0, <1>6 DEF Goto, TypeOK
  <2>3. CASE m # n
    BY <1>2, <1>3, <2>1, <2>2, <2>3, Aside
  <2>4. CASE m = n
    <3>1. ASSUME NEW u \in Threads PROVE Begins(n, u)
      <4>1. CASE u = t
        BY <1>1, <1>3, <2>1, <4>1 DEF Begins, Entries
      <4>2. CASE u # t
        BY <2>1, <2>2, <4>2 DEF Begins
      <4> QED BY <4>1, <4>2
    <3> QED BY <1>1, <1>2, <1>3, <2>4, <3>1 DEF Background
  <2> QED BY <2>3, <2>4
<1> QED BY <1>4, <1>5, <1>6 DEF addVolumeToTransitionList

\* The environment: pods, faults, garbage collection.
LEMMA EnvironmentBackground ==
  ASSUME IInv,
         \/ \E n \in Nodes :
              \/ CallTimeout(n) \/ KubeletRestart(n) \/ SchedulePod(n)
              \/ DeletePod(n) \/ CollectGarbage(n) \/ NodeNotReady(n)
              \/ NodeReady(n) \/ MountDamaged(n) \/ SessionLost(n)
         \/ VolumeOffline \/ VolumeOnline,
         NEW m \in Nodes
  PROVE  Background(m) /\ (ready \subseteq ready' \/ "notready" \in FaultKinds)
<1>0. /\ TypeOK /\ cva \in [Nodes -> CVARecord] /\ cva[m] \in CVARecord
      /\ co \in [Nodes -> KubeletRecord] /\ co[m] \in KubeletRecord
      /\ call \in [Nodes -> SUBSET Threads]
      /\ stg \in [Nodes -> Nat]
  BY TypeParts DEF IInv, KubeletOK, TypeOK
<1>1. UNCHANGED <<pc, arg>>
  BY DEF CallTimeout, KubeletRestart, SchedulePod, DeletePod, CollectGarbage,
     NodeNotReady, NodeReady, MountDamaged, SessionLost, VolumeOffline,
     VolumeOnline
<1>2. ready \subseteq ready' \/ "notready" \in FaultKinds
  BY DEF CallTimeout, KubeletRestart, SchedulePod, DeletePod, CollectGarbage,
     NodeNotReady, NodeReady, MountDamaged, SessionLost, VolumeOffline,
     VolumeOnline, Fault, cluster
<1>3. Kept(cva[m], cva'[m])
  <2>1. \/ cva' = cva
        \/ \E n \in Nodes : cva' = [cva EXCEPT ![n] = Collected(cva[n])]
    BY DEF CallTimeout, KubeletRestart, SchedulePod, DeletePod, CollectGarbage,
       NodeNotReady, NodeReady, MountDamaged, SessionLost, VolumeOffline,
       VolumeOnline, WriteCVA, cluster
  <2> QED BY <1>0, <2>1, CollectedKept
<1> DEFINE Told == /\ co'[m].st \in {co[m].st, "maybe"}
                   /\ co'[m].pub \in {co[m].pub, "maybe"}
                   /\ co'[m].pub = "yes" => co'[m].st = co[m].st
                   /\ co'[m].want => co[m].want \/ SchedulePod(m)
                   /\ \A t \in Threads :
                        t \in call'[m] => t \in call[m] /\ co'[m].st = co[m].st
<1>4. Told
  <2>1. CASE UNCHANGED <<co, call>>
    BY <2>1
  <2>2. ASSUME NEW n \in Nodes, CallTimeout(n) PROVE Told
    <3>1. co' = co /\ call' = [call EXCEPT ![n] = {}]
      BY <2>2 DEF CallTimeout
    <3> QED BY <1>0, <3>1
  <2>3. ASSUME NEW n \in Nodes, KubeletRestart(n) PROVE Told
    <3>1. co' = [co EXCEPT ![n] = Unsure(@)] /\ call' = [call EXCEPT ![n] = {}]
      BY <2>3 DEF KubeletRestart
    <3>2. CASE m = n
      <4>1. /\ Unsure(co[m]).st \in {co[m].st, "maybe"}
            /\ Unsure(co[m]).pub \in {co[m].pub, "maybe"}
            /\ Unsure(co[m]).pub # "yes"
            /\ Unsure(co[m]).want = co[m].want
        BY <1>0 DEF Unsure, KubeletRecord
      <4>2. co'[m] = Unsure(co[m]) /\ call'[m] = {}
        BY <1>0, <3>1, <3>2
      <4> QED BY <4>1, <4>2
    <3>3. CASE m # n
      BY <1>0, <3>1, <3>3
    <3> QED BY <3>2, <3>3
  <2>4. ASSUME NEW n \in Nodes, SchedulePod(n) \/ DeletePod(n) PROVE Told
    <3>1. /\ call' = call
          /\ \/ co' = [co EXCEPT ![n].want = TRUE] /\ SchedulePod(n)
             \/ co' = [co EXCEPT ![n].want = FALSE]
      BY <2>4 DEF SchedulePod, DeletePod
    <3>2. co'[m].st = co[m].st /\ co'[m].pub = co[m].pub
      BY <1>0, <3>1 DEF KubeletRecord
    <3>3. co'[m].want => co[m].want \/ SchedulePod(m)
      BY <1>0, <3>1 DEF KubeletRecord
    <3> QED BY <3>1, <3>2, <3>3
  <2> HIDE DEF Told
  <2> QED BY <2>1, <2>2, <2>3, <2>4 DEF CollectGarbage, NodeNotReady, NodeReady,
          MountDamaged, SessionLost, VolumeOffline, VolumeOnline, kubelet
<1>5. /\ \/ stg'[m] = stg[m] /\ tgt'[m] = tgt[m]
         \/ "damage" \in FaultKinds /\ stg'[m] \in {0, stg[m]}
      /\ m \in session => m \in session' \/ "logout" \in FaultKinds
  <2>1. \/ UNCHANGED <<stg, tgt>>
        \/ /\ "damage" \in FaultKinds
           /\ stg' = stg \/ \E n \in Nodes : stg' = [stg EXCEPT ![n] = 0]
    BY DEF CallTimeout, KubeletRestart, SchedulePod, DeletePod, CollectGarbage,
       NodeNotReady, NodeReady, MountDamaged, SessionLost, VolumeOffline,
       VolumeOnline, Fault, host
  <2>2. UNCHANGED session \/ "logout" \in FaultKinds
    BY DEF CallTimeout, KubeletRestart, SchedulePod, DeletePod, CollectGarbage,
       NodeNotReady, NodeReady, MountDamaged, SessionLost, VolumeOffline,
       VolumeOnline, Fault, host
  <2> QED BY <1>0, <2>1, <2>2
<1>6. \A t \in Threads : Begins(m, t)
  BY <1>1, <1>4 DEF Begins
<1> QED BY <1>2, <1>3, <1>4, <1>5, <1>6 DEF Background

\* Every step is one of a goroutine or one in the background of all nodes.
LEMMA Steps ==
  ASSUME Remount = FALSE, IInv, [Next]_allvars
  PROVE  /\ UNCHANGED accessType
         /\ \/ \E n \in Nodes, t \in Threads : Goes(n, t)
            \/ /\ \A m \in Nodes : Background(m)
               /\ ready \subseteq ready' \/ "notready" \in FaultKinds
<1>0. TypeOK /\ (\A n \in Nodes : NodeInv(n)) /\ cva \in [Nodes -> CVARecord]
  BY DEF IInv, TypeOK
<1>1. UNCHANGED accessType
  BY DEF Next, allvars
<1>2. CASE UNCHANGED allvars
  <2>1. ASSUME NEW m \in Nodes PROVE Background(m)
    BY <1>0, <1>2, Aside, CollectedKept DEF allvars, vars
  <2> QED BY <1>1, <1>2, <2>1 DEF allvars, vars
<1>3. CASE \E n \in Nodes, t \in Threads : Handler(n, t) \/ CallFails(n, t)
  BY <1>1, <1>3 DEF Goes
<1>4. CASE \E n \in Nodes : Monitor(n)
  BY <1>0, <1>4 DEF NodeInv, Monitor, MonitorTick, MonitorCleanup
<1>5. CASE \E n \in Nodes : \/ DriverStart(n) \/ KubeletCall(n) \/ CallExpand(n)
                            \/ DriverCrash(n) \/ Reboot(n)
  BY <1>1, <1>5, StartBackground, CallBackground, DeathBackground
<1>6. CASE \/ \E n \in Nodes :
                \/ CallTimeout(n) \/ KubeletRestart(n) \/ SchedulePod(n)
                \/ DeletePod(n) \/ CollectGarbage(n) \/ NodeNotReady(n)
                \/ NodeReady(n) \/ MountDamaged(n) \/ SessionLost(n)
           \/ VolumeOffline \/ VolumeOnline
  <2>1. \A m \in Nodes : Background(m)
    BY <1>6, EnvironmentBackground
  <2>2. ready \subseteq ready' \/ "notready" \in FaultKinds
    BY <1>6, EnvironmentBackground DEF VolumeOffline, VolumeOnline
  <2> QED BY <1>1, <2>1, <2>2
<1> QED BY <1>2, <1>3, <1>4, <1>5, <1>6 DEF Next, Step

-----------------------------------------------------------------------------
(* What the kubelet learns *)

\* The kubelet of n learns the outcome of the call that t has served.
Answered(n, t) ==
  /\ t \in call[n] /\ pc'[n][t] = "idle"
  /\ UNCHANGED <<cva, session, stg, tgt>>
  /\ \/ /\ pc[n][t] = "stage_ok"
        /\ co'[n].st = "staged" /\ co'[n].pub = co[n].pub
     \/ /\ pc[n][t] = "unstage_ok"
        /\ co'[n].st = "unstaged" /\ co'[n].pub = co[n].pub
     \/ /\ pc[n][t] = "publish_ok"
        /\ co'[n].pub = "yes" /\ co'[n].st = co[n].st
     \/ /\ pc[n][t] = "unpublish_ok"
        /\ co'[n].pub = "no" /\ co'[n].st = co[n].st

\* Around a step of t on n: nobody else moves, and what any kubelet knows stays, but
\* for an answer.
Alone(n, t) ==
  /\ \A u \in Threads \ {t} : pc[n][u] = "idle" /\ pc'[n][u] = "idle"
  /\ \A m \in Nodes \ {n} : /\ pc'[m] = pc[m] /\ arg'[m] = arg[m]
                            /\ co'[m] = co[m] /\ call'[m] = call[m]
  /\ SameHandler(pc[n][t], pc'[n][t])
  /\ co'[n].want = co[n].want
  /\ \/ co'[n] = co[n] /\ call'[n] \subseteq call[n]
     \/ Answered(n, t)

\* Every step of a goroutine is like that.
LEMMA GoesAlone ==
  ASSUME IInv, NEW n \in Nodes, NEW t \in Threads, Goes(n, t)
  PROVE  Alone(n, t) /\ UNCHANGED ready
<1>0. /\ TypeOK /\ ListInv(n)
      /\ co \in [Nodes -> KubeletRecord] /\ co[n] \in KubeletRecord
      /\ call \in [Nodes -> SUBSET Threads]
  BY TypeParts DEF IInv, NodeInv, KubeletOK, TypeOK
<1>1. /\ Moves(n, t) /\ UNCHANGED ready
      /\ \/ UNCHANGED kubelet
         \/ removeVolumeFromTransitionList(n, t) /\ pc'[n][t] = "idle"
  BY GoesMoves
<1>2. \A u \in Threads \ {t} : pc[n][u] = "idle" /\ pc'[n][u] = "idle"
  BY <1>0, <1>1 DEF Moves, ListInv
<1>3. CASE UNCHANGED kubelet
  BY <1>1, <1>2, <1>3 DEF Alone, Moves, kubelet
<1>4. CASE removeVolumeFromTransitionList(n, t) /\ pc'[n][t] = "idle"
  <2>1. /\ UNCHANGED <<cva, session, stg, tgt>>
        /\ call' = [call EXCEPT ![n] = @ \ {t}]
        /\ \/ t \in call[n] /\ co' = [co EXCEPT ![n] = Learn(co[n], pc[n][t])]
           \/ co' = co
    BY <1>4 DEF removeVolumeFromTransitionList
  <2>2. /\ call'[n] \subseteq call[n]
        /\ \A m \in Nodes \ {n} : co'[m] = co[m] /\ call'[m] = call[m]
        /\ co'[n] = co[n] \/ (t \in call[n] /\ co'[n] = Learn(co[n], pc[n][t]))
    BY <1>0, <2>1
  <2>3. CASE co'[n] = co[n]
    BY <1>1, <1>2, <2>2, <2>3 DEF Alone, Moves
  <2>4. CASE t \in call[n] /\ co'[n] = Learn(co[n], pc[n][t])
    <3>1. \/ Learn(co[n], pc[n][t]) = co[n]
          \/ /\ Learn(co[n], pc[n][t]).want = co[n].want
             /\ \/ /\ pc[n][t] = "stage_ok"
                   /\ Learn(co[n], pc[n][t]).st = "staged"
                   /\ Learn(co[n], pc[n][t]).pub = co[n].pub
                \/ /\ pc[n][t] = "unstage_ok"
                   /\ Learn(co[n], pc[n][t]).st = "unstaged"
                   /\ Learn(co[n], pc[n][t]).pub = co[n].pub
                \/ /\ pc[n][t] = "publish_ok"
                   /\ Learn(co[n], pc[n][t]).pub = "yes"
                   /\ Learn(co[n], pc[n][t]).st = co[n].st
                \/ /\ pc[n][t] = "unpublish_ok"
                   /\ Learn(co[n], pc[n][t]).pub = "no"
                   /\ Learn(co[n], pc[n][t]).st = co[n].st
      BY <1>0 DEF Learn, KubeletRecord
    <3>2. co'[n] = co[n] \/ (Answered(n, t) /\ co'[n].want = co[n].want)
      BY <1>4, <2>1, <2>4, <3>1 DEF Answered
    <3> QED BY <1>1, <1>2, <2>2, <3>2 DEF Alone, Moves
  <2> QED BY <2>2, <2>3, <2>4
<1> QED BY <1>1, <1>3, <1>4

-----------------------------------------------------------------------------
(* KubeletInv and ReleaseInv *)

\* The kubelet's knowledge keeps fitting the call.
LEMMA KubeletStep ==
  ASSUME Remount = FALSE, IInv, [Next]_allvars, NEW n \in Nodes, KubeletInv(n)
  PROVE  KubeletInv(n)'
<1>1. ASSUME NEW t \in Threads, Goes(n, t) PROVE KubeletInv(n)'
  <2>1. Alone(n, t)
    BY <1>1, GoesAlone
  <2>2. CASE co'[n] = co[n] /\ call'[n] \subseteq call[n]
    BY <2>1, <2>2, Disjoint DEF Alone, SameHandler, KubeletInv
  <2>3. CASE Answered(n, t)
    <3>1. \A u \in Threads : pc'[n][u] = "idle"
      BY <2>1, <2>3 DEF Alone, Answered
    <3>2. co'[n].pub = "yes" => co'[n].st = "staged"
      BY <2>3 DEF Answered, KubeletInv, Unstaging, Publishing
    <3> QED BY <3>1, <3>2, Disjoint DEF KubeletInv
  <2> QED BY <2>1, <2>2, <2>3 DEF Alone
<1>2. ASSUME NEW m \in Nodes, NEW t \in Threads, Goes(m, t), m # n
      PROVE  KubeletInv(n)'
  <2>1. pc'[n] = pc[n] /\ co'[n] = co[n] /\ call'[n] = call[n]
    BY <1>2, GoesAlone DEF Alone
  <2> QED BY <2>1 DEF KubeletInv
<1>3. CASE Background(n)
  <2>1. co'[n].pub = "yes" => co'[n].st = "staged"
    BY <1>3 DEF Background, KubeletInv
  <2>2. ASSUME NEW t \in Threads
        PROVE  /\ pc'[n][t] \in Staging \cup Unstaging => co'[n].st = "maybe"
               /\ pc'[n][t] \in Publishing /\ t \in call'[n] => co'[n].st = "staged"
               /\ pc'[n][t] \in Unpublishing => co'[n].pub # "yes"
    <3>1. Begins(n, t) /\ co'[n].st \in {co[n].st, "maybe"}
                       /\ co'[n].pub \in {co[n].pub, "maybe"}
      BY <1>3 DEF Background
    <3>2. CASE /\ pc'[n][t] = pc[n][t]
               /\ t \in call'[n] => t \in call[n] /\ co'[n].st = co[n].st
      BY <3>1, <3>2 DEF KubeletInv
    <3>3. /\ "stage_list" \in Staging /\ "unstage_get" \in Unstaging
          /\ "publish_get" \in Publishing /\ "unpublish_check" \in Unpublishing
          /\ "cleanup_detach" \in Cleaning
          /\ "expand_get" \notin Staging \cup Unstaging \cup Publishing \cup Unpublishing
      BY DEF Staging, StageCalls, Unstaging, UnstageCalls, Publishing, PublishCalls,
         Unpublishing, UnpublishCalls, Cleaning, CleanupCalls
    <3> QED BY <3>1, <3>2, <3>3, Disjoint DEF Begins
  <2> QED BY <2>1, <2>2 DEF KubeletInv
<1> QED BY <1>1, <1>2, <1>3, Steps

\* The node's finalizer stays on record with the staging path.
LEMMA ReleaseStep ==
  ASSUME Remount = FALSE, IInv, [Next]_allvars, NEW n \in Nodes, KubeletInv(n),
         ReleaseInv(n)
  PROVE  ReleaseInv(n)'
<1> DEFINE Going == {"unstage_delete", "unstage_ok"}
<1>1. ASSUME NEW t \in Threads, Goes(n, t) PROVE ReleaseInv(n)'
  <2>1. Alone(n, t) /\ Written(n, t, n, cva[n], cva'[n])
    BY <1>1, GoesAlone, GoesWrites
  <2>2. "node" \in cva'[n].finalizers => cva'[n].exists /\ cva'[n].staging
    BY <2>1 DEF Written, OnRecord, ReleaseInv
  <2>3. ASSUME NEW u \in Threads, pc'[n][u] \in Going
        PROVE  "node" \notin cva'[n].finalizers
    <3>1. u = t
      BY <2>1, <2>3 DEF Alone
    <3> QED BY <1>1, <2>3, <3>1, GoesReleases
  <2>4. ASSUME co'[n].st = "unstaged" PROVE "node" \notin cva'[n].finalizers
    <3>1. CASE co'[n] = co[n]
      <4>1. pc[n][t] # "stage_update"
        BY <2>4, <3>1 DEF KubeletInv, Staging, StageCalls
      <4> QED BY <2>1, <2>4, <3>1, <4>1 DEF Written, ReleaseInv
    <3>2. CASE Answered(n, t)
      BY <2>4, <3>2 DEF Answered, ReleaseInv
    <3> QED BY <2>1, <3>1, <3>2 DEF Alone
  <2> QED BY <2>2, <2>3, <2>4 DEF ReleaseInv
<1>2. ASSUME NEW m \in Nodes, NEW t \in Threads, Goes(m, t), m # n
      PROVE  ReleaseInv(n)'
  <2>1. pc'[n] = pc[n] /\ co'[n] = co[n]
    BY <1>2, GoesAlone DEF Alone
  <2>2. Written(m, t, n, cva[n], cva'[n])
    BY <1>2, GoesWrites
  <2> QED BY <1>2, <2>1, <2>2 DEF Written, ReleaseInv
<1>3. CASE Background(n)
  <2>1. Kept(cva[n], cva'[n])
    BY <1>3 DEF Background
  <2>2. co'[n].st = "unstaged" => co[n].st = "unstaged"
    BY <1>3 DEF Background
  <2>3. \A t \in Threads : pc'[n][t] \in Going => pc[n][t] \in Going
    BY <1>3 DEF Background, Begins
  <2> QED BY <2>1, <2>2, <2>3 DEF Kept, ReleaseInv
<1> QED BY <1>1, <1>2, <1>3, Steps

\* The first layer.
ReleasedInv == IInv /\ \A n \in Nodes : KubeletInv(n) /\ ReleaseInv(n)

\* It holds of every behaviour.
LEMMA ReleasedInductive ==
  ASSUME Remount = FALSE
  PROVE  Spec => []ReleasedInv
<1>1. Init => \A n \in Nodes : KubeletInv(n) /\ ReleaseInv(n)
  BY Disjoint DEF Init, KubeletInv, ReleaseInv, Absent
<1>2. IInv /\ ReleasedInv /\ [Next]_allvars /\ IInv' => ReleasedInv'
  BY KubeletStep, ReleaseStep DEF ReleasedInv
<1> QED BY <1>1, <1>2, InductiveInvariant, PTL DEF Spec, ReleasedInv

\* Without REMOUNT an answered Unstage has taken the node's finalizer off its CVA, or
\* never put it there, although it goes by the staging path and not by the finalizer.
THEOREM UnstageReleases ==
  ASSUME Remount = FALSE
  PROVE  Spec => []UnstagedLetsGo
<1>1. ReleasedInv => UnstagedLetsGo
  BY DEF ReleasedInv, ReleaseInv, UnstagedLetsGo
<1> QED BY <1>1, ReleasedInductive, PTL

-----------------------------------------------------------------------------
(* WantedInv, ClearedInv and RecordInv *)

\* Pods do not overlap, and neither do the Stages made for them.
LEMMA WantedStep ==
  ASSUME Remount = FALSE, Overlap = FALSE, ReleasedInv, [Next]_allvars,
         \A k \in Nodes : WantedInv(k)
  PROVE  \A k \in Nodes : WantedInv(k)'
<1>0. IInv /\ TypeOK /\ co \in [Nodes -> KubeletRecord]
  BY TypeParts DEF ReleasedInv, IInv, KubeletOK
<1>1. ASSUME NEW m \in Nodes, NEW t \in Threads, Goes(m, t)
      PROVE  \A k \in Nodes : WantedInv(k)'
  <2>1. Alone(m, t)
    BY <1>0, <1>1, GoesAlone
  <2>2. \A k \in Nodes : co'[k].want = co[k].want
    BY <2>1 DEF Alone
  <2>3. \A k \in Nodes, u \in Threads : pc'[k][u] \in Staging => pc[k][u] \in Staging
    BY <2>1, Disjoint DEF Alone, SameHandler
  <2> QED BY <2>2, <2>3 DEF WantedInv
<1>2. ASSUME \A k \in Nodes : Background(k)
      PROVE  \A k \in Nodes : WantedInv(k)'
  <2>1. ASSUME NEW k \in Nodes, co'[k].want
        PROVE  \/ co[k].want
               \/ \A j \in Nodes \ {k} : /\ ~co[j].want /\ ~co'[j].want
                                         /\ co[j].st # "maybe"
    <3>1. co[k].want \/ SchedulePod(k)
      BY <1>2, <2>1 DEF Background
    <3>2. SchedulePod(k) => Settled(k) /\ co' = [co EXCEPT ![k].want = TRUE]
      BY DEF SchedulePod
    <3>3. SchedulePod(k) => \A j \in Nodes \ {k} : co'[j] = co[j]
      BY <1>0, <3>2
    <3> QED BY <3>1, <3>2, <3>3 DEF Settled
  <2>2. ASSUME NEW k \in Nodes, NEW u \in Threads, pc'[k][u] \in Staging
        PROVE  co[k].want \/ (pc[k][u] \in Staging /\ co[k].st = "maybe")
    <3>1. Begins(k, u) /\ KubeletInv(k)
      BY <1>2 DEF Background, ReleasedInv
    <3>2. {"idle", "expand_get", "cleanup_detach", "unstage_get", "publish_get",
           "unpublish_check"} \cap Staging = {}
      BY DEF Staging, StageCalls
    <3> QED BY <2>2, <3>1, <3>2 DEF Begins, KubeletInv
  <2>3. ASSUME NEW k \in Nodes, NEW j \in Nodes \ {k}, co'[k].want PROVE ~co'[j].want
    BY <2>1, <2>3 DEF WantedInv
  <2>4. ASSUME NEW k \in Nodes, NEW j \in Nodes \ {k}, NEW u \in Threads,
               pc'[k][u] \in Staging
        PROVE  ~co'[j].want /\ \A w \in Threads : pc'[j][w] \notin Staging
    BY <2>1, <2>2, <2>4 DEF WantedInv
  <2> QED BY <2>3, <2>4 DEF WantedInv
<1> QED BY <1>0, <1>1, <1>2, Steps

\* The set of the other nodes with a CVA, before and after a step.
LEMMA ElsewhereShrinks ==
  ASSUME NEW n \in Nodes, \A k \in Nodes \ {n} : cva'[k].exists => cva[k].exists
  PROVE  \A S : Elsewhere(n) \subseteq S => Elsewhere(n)' \subseteq S
<1>1. \A k \in Elsewhere(n)' : k \in Elsewhere(n)
  BY DEF Elsewhere
<1> QED BY <1>1

\* A Stage that got past the other nodes finds none of them with a CVA later on.
LEMMA ClearedStep ==
  ASSUME Remount = FALSE, ReleasedInv, [Next]_allvars, ready = Nodes,
         NEW n \in Nodes, WantedInv(n), ClearedInv(n)
  PROVE  ClearedInv(n)'
<1>0. IInv
  BY DEF ReleasedInv
<1>1. {"stage_nodes", "stage_create"} \cup Cleared \subseteq Staging
  BY DEF Cleared, Created, Staging, StageCalls
<1> DEFINE Shrinks == \A k \in Nodes \ {n} : cva'[k].exists => cva[k].exists
<1>2. ASSUME NEW u \in Threads, Shrinks, pc[n][u] \in Cleared
      PROVE  Elsewhere(n)' = {}
  <2>1. Elsewhere(n) \subseteq {}
    BY <1>2 DEF ClearedInv
  <2> QED BY <1>2, <2>1, ElsewhereShrinks
<1>3. ASSUME NEW u \in Threads, Shrinks, pc[n][u] = "stage_nodes"
      PROVE  Elsewhere(n)' \subseteq arg[n][u]
  <2>1. Elsewhere(n) \subseteq arg[n][u]
    BY <1>3 DEF ClearedInv
  <2> QED BY <1>3, <2>1, ElsewhereShrinks
<1>4. ASSUME NEW t \in Threads, Goes(n, t) PROVE ClearedInv(n)'
  <2>1. Alone(n, t) /\ StageGetsOn(n, t)
    BY <1>0, <1>4, GoesAlone, GoesGetsOn
  <2>2. Shrinks
    BY <1>0, <1>4, GoesWrites DEF Written
  <2>3. ASSUME NEW u \in Threads, pc'[n][u] = "stage_nodes"
        PROVE  Elsewhere(n)' \subseteq arg'[n][u]
    BY <2>1, <2>2, <2>3 DEF Alone, StageGetsOn, Elsewhere
  <2>4. ASSUME NEW u \in Threads, pc'[n][u] \in Cleared
        PROVE  Elsewhere(n)' = {}
    <3>1. u = t
      BY <1>1, <2>1, <2>4, Disjoint DEF Alone
    <3>2. CASE pc[n][t] \in Cleared
      BY <1>2, <2>2, <3>2
    <3>3. CASE pc[n][t] = "stage_nodes" /\ arg[n][t] \cap ready = {}
      <4>1. Elsewhere(n)' \subseteq arg[n][t]
        BY <1>3, <2>2, <3>3
      <4>2. Elsewhere(n)' \subseteq Nodes
        BY DEF Elsewhere
      <4> QED BY <3>3, <4>1, <4>2
    <3> QED BY <2>1, <2>4, <3>1, <3>2, <3>3 DEF StageGetsOn
  <2> QED BY <2>3, <2>4 DEF ClearedInv
<1>5. ASSUME NEW m \in Nodes, NEW t \in Threads, Goes(m, t), m # n
      PROVE  ClearedInv(n)'
  <2>1. pc'[n] = pc[n] /\ arg'[n] = arg[n]
    BY <1>0, <1>5, GoesAlone DEF Alone
  <2>2. ASSUME NEW u \in Threads, pc[n][u] \in Staging PROVE Shrinks
    <3>1. pc[m][t] # "stage_create"
      BY <1>1, <1>5, <2>2 DEF WantedInv
    <3> QED BY <1>0, <1>5, <3>1, GoesWrites DEF Written
  <2> HIDE DEF Shrinks
  <2> QED BY <1>1, <1>2, <1>3, <2>1, <2>2 DEF ClearedInv
<1>6. ASSUME \A k \in Nodes : Background(k) PROVE ClearedInv(n)'
  <2>1. Shrinks
    BY <1>6 DEF Background, Kept
  <2>2. ASSUME NEW u \in Threads, pc'[n][u] \in Cleared \cup {"stage_nodes"}
        PROVE  pc'[n][u] = pc[n][u] /\ arg'[n][u] = arg[n][u]
    BY <1>6, <2>2 DEF Background, Begins, Cleared, Created
  <2> HIDE DEF Shrinks
  <2> QED BY <1>2, <1>3, <2>1, <2>2 DEF ClearedInv
<1> QED BY <1>0, <1>4, <1>5, <1>6, Steps

\* What is being staged or staged stays on record.
LEMMA RecordStep ==
  ASSUME Remount = FALSE, ReleasedInv, [Next]_allvars, NEW n \in Nodes,
         \A k \in Nodes : WantedInv(k) /\ ClearedInv(k), RecordInv(n)
  PROVE  RecordInv(n)'
<1>0. IInv /\ KubeletInv(n) /\ Recorded(n) = OnRecord(cva[n])
      /\ Recorded(n)' = OnRecord(cva'[n])
  BY DEF ReleasedInv, Recorded, OnRecord
<1>1. Created \cup {"stage_ok", "stage_del", "stage_undo"} \subseteq Staging
  BY DEF Created, Staging, StageCalls
<1>2. ASSUME NEW t \in Threads, Goes(n, t) PROVE RecordInv(n)'
  <2>1. /\ Alone(n, t) /\ StageGetsOn(n, t)
        /\ Written(n, t, n, cva[n], cva'[n])
    BY <1>0, <1>2, GoesAlone, GoesGetsOn, GoesWrites
  <2>2. ASSUME NEW u \in Threads, pc'[n][u] \in Created \cup {"stage_ok"}
        PROVE  ~cva'[n].deleting /\ (pc'[n][u] = "stage_ok" => Recorded(n)')
    <3>1. u = t
      BY <1>1, <2>1, <2>2, Disjoint DEF Alone
    <3>2. CASE pc'[n][t] = "stage_ok"
      BY <1>0, <2>1, <3>1, <3>2 DEF StageGetsOn, RecordInv
    <3>3. CASE pc'[n][t] \in Created /\ pc[n][t] \in Created
      BY <2>1, <3>1, <3>3 DEF Written, RecordInv, Created
    <3>4. CASE pc'[n][t] \in Created /\ cva'[n] = NewCVA
      BY <3>1, <3>4 DEF NewCVA, Absent, Created
    <3> QED BY <2>1, <2>2, <3>1, <3>2, <3>3, <3>4 DEF StageGetsOn
  <2>3. ASSUME co'[n].st = "staged"
        PROVE  /\ Recorded(n)' /\ ~cva'[n].deleting
               /\ \A u \in Threads : pc'[n][u] \notin Cleaning
    <3>1. CASE co[n].st = "staged"
      <4>1. /\ OnRecord(cva[n]) /\ ~cva[n].deleting
            /\ \A u \in Threads : pc[n][u] \notin Staging \cup Unstaging \cup Cleaning
        BY <1>0, <3>1 DEF RecordInv, KubeletInv
      <4>2. OnRecord(cva'[n]) /\ ~cva'[n].deleting
        BY <1>1, <2>1, <4>1 DEF Written, Unstaging, UnstageCalls, Cleaning, CleanupCalls
      <4>3. \A u \in Threads : pc'[n][u] \notin Cleaning
        BY <2>1, <4>1, Disjoint DEF Alone, SameHandler
      <4> QED BY <1>0, <4>2, <4>3
    <3>2. CASE Answered(n, t) /\ pc[n][t] = "stage_ok"
      <4>1. \A u \in Threads : pc'[n][u] = "idle"
        BY <2>1, <3>2 DEF Alone, Answered
      <4> QED BY <1>0, <3>2, <4>1, Disjoint DEF Answered, RecordInv
    <3> QED BY <2>1, <2>3, <3>1, <3>2 DEF Alone, Answered
  <2> QED BY <2>2, <2>3 DEF RecordInv
<1>3. ASSUME NEW m \in Nodes, NEW t \in Threads, Goes(m, t), m # n
      PROVE  RecordInv(n)'
  <2>1. pc'[n] = pc[n] /\ co'[n] = co[n]
    BY <1>0, <1>3, GoesAlone DEF Alone
  <2>2. /\ OnRecord(cva[n]) => OnRecord(cva'[n])
        /\ cva'[n].deleting =>
             cva[n].deleting \/ (cva[n].exists /\ pc[m][t] = "stage_del")
    BY <1>0, <1>3, GoesWrites DEF Written
  <2>3. ASSUME NEW u \in Threads, pc[n][u] \in Created \cup {"stage_ok"}
        PROVE  pc[m][t] # "stage_del"
    BY <1>1, <1>3, <2>3 DEF WantedInv
  <2>4. pc[m][t] = "stage_del" => ~cva[n].exists
    BY <1>3 DEF ClearedInv, Cleared, Elsewhere
  <2> QED BY <1>0, <2>1, <2>2, <2>3, <2>4 DEF RecordInv, OnRecord
<1>4. CASE Background(n)
  <2>1. Kept(cva[n], cva'[n]) /\ (co'[n].st = "staged" => co[n].st = "staged")
    BY <1>4 DEF Background
  <2>2. ASSUME NEW u \in Threads
        PROVE  \/ pc'[n][u] = pc[n][u]
               \/ /\ pc'[n][u] \notin Created \cup {"stage_ok"}
                  /\ pc'[n][u] \in Cleaning => cva[n].deleting
    BY <1>4 DEF Background, Begins, Created, Cleaning, CleanupCalls
  <2> QED BY <1>0, <2>1, <2>2 DEF Kept, RecordInv
<1> QED BY <1>0, <1>2, <1>3, <1>4, Steps

\* The second layer: pods do not overlap and nodes stay ready.
StayedInv ==
  /\ ReleasedInv
  /\ ready = Nodes
  /\ \A n \in Nodes : WantedInv(n) /\ ClearedInv(n) /\ RecordInv(n)

\* It holds of every behaviour.
LEMMA StayedInductive ==
  ASSUME Remount = FALSE, Overlap = FALSE, "notready" \notin FaultKinds
  PROVE  Spec => []StayedInv
<1>1. Init => /\ ready = Nodes
              /\ \A n \in Nodes : WantedInv(n) /\ ClearedInv(n) /\ RecordInv(n)
  <2>1. "idle" \notin Cleared \cup Created \cup Staging \cup Cleaning \cup {"stage_ok"}
    BY Disjoint DEF Cleared, Created
  <2> QED BY <2>1 DEF Init, WantedInv, ClearedInv, RecordInv
<1>2. StayedInv /\ [Next]_allvars /\ ReleasedInv' => StayedInv'
  <2> SUFFICES ASSUME StayedInv, [Next]_allvars, ReleasedInv' PROVE StayedInv'
    OBVIOUS
  <2>1. ready' = Nodes
    <3>1. ready \subseteq ready'
      BY Steps, GoesAlone DEF StayedInv, ReleasedInv
    <3> QED BY <3>1 DEF StayedInv, ReleasedInv, IInv, TypeOK
  <2>2. \A n \in Nodes : WantedInv(n)'
    BY WantedStep DEF StayedInv
  <2>3. \A n \in Nodes : ClearedInv(n)' /\ RecordInv(n)'
    BY ClearedStep, RecordStep DEF StayedInv
  <2> QED BY <2>1, <2>2, <2>3 DEF StayedInv
<1> QED BY <1>1, <1>2, ReleasedInductive, PTL DEF Spec, StayedInv

\* When pods do not overlap and nodes stay ready, two nodes never have the volume
\* mounted at once, however handlers outlive their calls and drivers crash.
THEOREM OneNodeMounts ==
  ASSUME Remount = FALSE, Overlap = FALSE, "notready" \notin FaultKinds
  PROVE  Spec => []SingleNodeMounted
<1>1. Init => SingleNodeMounted
  BY DEF Init, SingleNodeMounted
<1>2. StayedInv /\ SingleNodeMounted /\ [Next]_allvars => SingleNodeMounted'
  <2> SUFFICES ASSUME StayedInv, SingleNodeMounted, [Next]_allvars
               PROVE  SingleNodeMounted'
    OBVIOUS
  <2>0. IInv /\ stg \in [Nodes -> Nat]
    BY DEF StayedInv, ReleasedInv, IInv, TypeOK
  <2>1. ASSUME NEW k \in Nodes, NEW t \in Threads, Goes(k, t)
        PROVE  SingleNodeMounted'
    <3>1. \A m \in Nodes : Touched(k, t, m)
      BY <2>0, <2>1, GoesTouches
    <3>2. CASE pc[k][t] = "stage_mount"
      <4>1. \A m \in Nodes \ {k} : ~cva[m].exists
        BY <3>2 DEF StayedInv, ClearedInv, Cleared, Created, Elsewhere
      <4>2. \A m \in Nodes \ {k} : ~(stg[m] > 0)
        BY <2>0, <4>1 DEF IInv, NodeInv, StagingInv, Recorded
      <4>3. \A m \in Nodes \ {k} : stg'[m] = stg[m]
        BY <3>1 DEF Touched
      <4> QED BY <4>2, <4>3 DEF SingleNodeMounted
    <3>3. CASE pc[k][t] # "stage_mount"
      <4>1. \A m \in Nodes : stg'[m] > 0 => stg[m] > 0
        BY <3>1, <3>3 DEF Touched
      <4> QED BY <4>1 DEF SingleNodeMounted
    <3> QED BY <3>2, <3>3
  <2>2. ASSUME \A m \in Nodes : Background(m) PROVE SingleNodeMounted'
    <3>1. \A m \in Nodes : stg'[m] > 0 => stg[m] > 0
      BY <2>0, <2>2 DEF Background, Wiped
    <3> QED BY <3>1 DEF SingleNodeMounted
  <2> QED BY <2>0, <2>1, <2>2, Steps
<1> QED BY <1>1, <1>2, StayedInductive, PTL DEF Spec

-----------------------------------------------------------------------------
(* SessionInv *)

\* A session stays as long as something is mounted or staged.
LEMMA SessionStep ==
  ASSUME Remount = FALSE, "logout" \notin FaultKinds, StayedInv, [Next]_allvars,
         NEW n \in Nodes, SessionInv(n)
  PROVE  SessionInv(n)'
<1>0. /\ IInv /\ KubeletInv(n) /\ RecordInv(n) /\ stg \in [Nodes -> Nat]
      /\ \A t \in Threads : ThreadInv(n, t)
  BY DEF StayedInv, ReleasedInv, IInv, NodeInv, TypeOK
<1> DEFINE Attached == {"stage_mkdir", "stage_mount", "stage_ok"}
<1>1. ASSUME NEW t \in Threads, Goes(n, t) PROVE SessionInv(n)'
  <2>1. Alone(n, t) /\ StageGetsOn(n, t) /\ Touched(n, t, n)
    BY <1>0, <1>1, GoesAlone, GoesGetsOn, GoesTouches
  <2>2. ASSUME pc[n][t] \notin {"unstage_logout", "cleanup_logout"}
        PROVE  n \in session => n \in session'
    BY <2>1, <2>2 DEF Touched
  <2>3. ASSUME stg'[n] > 0 PROVE n \in session'
    <3>1. CASE stg[n] > 0
      <4>1. pc[n][t] \notin {"unstage_logout", "cleanup_logout"}
        BY <1>0, <3>1 DEF ThreadInv, Unmounting
      <4> QED BY <2>2, <3>1, <4>1 DEF SessionInv
    <3>2. CASE pc[n][t] = "stage_mount" /\ n \in session
      BY <2>2, <3>2
    <3> QED BY <1>0, <2>1, <2>3, <3>1, <3>2 DEF Touched
  <2>4. ASSUME co'[n].st = "staged" PROVE n \in session'
    <3>1. CASE co[n].st = "staged"
      <4>1. pc[n][t] \notin {"unstage_logout", "cleanup_logout"}
        BY <1>0, <3>1 DEF KubeletInv, RecordInv, Unstaging, UnstageCalls, Cleaning,
           CleanupCalls
      <4> QED BY <2>2, <3>1, <4>1 DEF SessionInv
    <3>2. CASE Answered(n, t) /\ pc[n][t] = "stage_ok"
      BY <3>2 DEF Answered, SessionInv
    <3> QED BY <2>1, <2>4, <3>1, <3>2 DEF Alone, Answered
  <2>5. ASSUME NEW u \in Threads, pc'[n][u] \in Attached PROVE n \in session'
    <3>1. u = t
      BY <2>1, <2>5 DEF Alone
    <3>2. CASE pc'[n][t] = "stage_mount"
      BY <2>1, <2>2, <3>2 DEF StageGetsOn, SessionInv
    <3> QED BY <2>1, <2>3, <2>5, <3>1, <3>2 DEF StageGetsOn
  <2> QED BY <2>3, <2>4, <2>5 DEF SessionInv
<1>2. ASSUME NEW m \in Nodes, NEW t \in Threads, Goes(m, t), m # n
      PROVE  SessionInv(n)'
  <2>1. pc'[n] = pc[n] /\ co'[n] = co[n]
    BY <1>0, <1>2, GoesAlone DEF Alone
  <2>2. stg'[n] = stg[n] /\ (n \in session => n \in session')
    BY <1>0, <1>2, GoesTouches DEF Touched
  <2> QED BY <2>1, <2>2 DEF SessionInv
<1>3. CASE Background(n)
  <2>1. CASE Wiped(n)
    BY <2>1 DEF Wiped, SessionInv
  <2>2. CASE ~Wiped(n)
    <3>1. n \in session => n \in session'
      BY <1>3, <2>2 DEF Background
    <3>2. /\ stg'[n] > 0 => stg[n] > 0
          /\ co'[n].st = "staged" => co[n].st = "staged"
      BY <1>0, <1>3, <2>2 DEF Background
    <3>3. \A t \in Threads : pc'[n][t] \in Attached => pc[n][t] \in Attached
      BY <1>3 DEF Background, Begins
    <3> QED BY <3>1, <3>2, <3>3 DEF SessionInv
  <2> QED BY <2>1, <2>2
<1> QED BY <1>0, <1>1, <1>2, <1>3, Steps

\* Sessions are kept in every behaviour in which none is lost.
LEMMA SessionInductive ==
  ASSUME Remount = FALSE, Overlap = FALSE, FaultKinds \cap {"notready", "logout"} = {}
  PROVE  Spec => [](\A n \in Nodes : SessionInv(n))
<1>0. "notready" \notin FaultKinds /\ "logout" \notin FaultKinds
  OBVIOUS
<1> DEFINE Inv == \A n \in Nodes : SessionInv(n)
<1>1. Init => Inv
  BY DEF Init, SessionInv
<1>2. StayedInv /\ Inv /\ [Next]_allvars => Inv'
  BY <1>0, SessionStep
<1>3. Spec => []StayedInv
  BY <1>0, StayedInductive
<1> HIDE DEF Inv
<1>4. Spec => []Inv
  BY <1>1, <1>2, <1>3, PTL DEF Spec
<1> QED BY <1>4 DEF Inv

\* When pods do not overlap, nodes stay ready and sessions are not lost, what the
\* kubelet holds for staged is attached and on record, although forgotten handlers,
\* Cleanups and other nodes' Stages work in between.
THEOREM StagedIsAttached ==
  ASSUME Remount = FALSE, Overlap = FALSE, FaultKinds \cap {"notready", "logout"} = {}
  PROVE  Spec => []StagedAttached
<1>0. "notready" \notin FaultKinds
  OBVIOUS
<1>1. StayedInv /\ (\A n \in Nodes : SessionInv(n)) => StagedAttached
  BY DEF StayedInv, RecordInv, Recorded, SessionInv, StagedAttached
<1>2. Spec => []StayedInv
  BY <1>0, StayedInductive
<1> QED BY <1>1, <1>2, SessionInductive, PTL

-----------------------------------------------------------------------------
(* ShownInv *)

\* A staged filesystem stays mounted, and what is published stays in sight.
LEMMA ShownStep ==
  ASSUME Remount = FALSE, "damage" \notin FaultKinds, StayedInv, [Next]_allvars,
         NEW n \in Nodes, ShownInv(n)
  PROVE  ShownInv(n)'
<1>0. /\ IInv /\ KubeletInv(n) /\ RecordInv(n) /\ stg \in [Nodes -> Nat]
      /\ \A t \in Threads : ThreadInv(n, t)
      /\ UNCHANGED accessType
      /\ accessType \in {"mount", "block"}
  BY Steps, ConstantsAssumption DEF StayedInv, ReleasedInv, IInv, NodeInv, TypeOK,
     ShownInv
<1>1. ASSUME NEW t \in Threads, Goes(n, t) PROVE ShownInv(n)'
  <2>1. Alone(n, t) /\ StageGetsOn(n, t) /\ Touched(n, t, n)
    BY <1>0, <1>1, GoesAlone, GoesGetsOn, GoesTouches
  <2>2. ASSUME NEW u \in Threads, pc'[n][u] \in {"stage_mkdir", "stage_mount"}
        PROVE  accessType = "mount"
    <3>1. u = t
      BY <2>1, <2>2 DEF Alone
    <3> QED BY <1>0, <2>1, <2>2, <3>1 DEF StageGetsOn, ShownInv
  <2>3. ASSUME \/ co'[n].st = "staged"
               \/ \E u \in Threads : pc'[n][u] \in PublishCalls \cup {"stage_ok"},
               accessType = "mount"
        PROVE  stg'[n] > 0
    <3>1. CASE co[n].st = "staged" \/ pc[n][t] \in PublishCalls
      <4>1. stg[n] > 0
        BY <2>3, <3>1 DEF ShownInv
      <4>2. pc[n][t] \notin {"unstage_detach", "cleanup_detach"}
        BY <1>0, <3>1 DEF KubeletInv, RecordInv, Unstaging, UnstageCalls, Cleaning,
           CleanupCalls, PublishCalls
      <4> QED BY <2>1, <4>1, <4>2 DEF Touched
    <3>2. CASE Answered(n, t) /\ pc[n][t] = "stage_ok"
      BY <2>3, <3>2 DEF Answered, ShownInv
    <3>3. CASE pc'[n][t] = "stage_ok"
      BY <2>1, <2>3, <3>3 DEF StageGetsOn
    <3>4. CASE co'[n].st = "staged"
      BY <2>1, <3>1, <3>2, <3>4 DEF Alone, Answered
    <3>5. CASE \E u \in Threads : pc'[n][u] \in PublishCalls \cup {"stage_ok"}
      <4>1. pc'[n][t] \in PublishCalls \cup {"stage_ok"}
        BY <2>1, <3>5 DEF Alone, PublishCalls
      <4> QED BY <1>0, <1>1, <3>1, <3>3, <4>1, GoesPublishes
    <3> QED BY <2>3, <3>4, <3>5
  <2>4. ASSUME pc[n][t] = "publish_mount", pc'[n][t] = "publish_ok"
        PROVE  ShowsVolume(n)'
    <3>1. accessType = "block" \/ stg[n] > 0
      BY <1>0, <2>4 DEF ShownInv, PublishCalls
    <3> QED BY <1>0, <1>1, <2>4, <3>1, GoesPublishes
  <2>5. ASSUME \/ co'[n].pub = "yes"
               \/ \E u \in Threads : pc'[n][u] = "publish_ok"
        PROVE  ShowsVolume(n)'
    <3>1. CASE pc'[n][t] = "publish_ok"
      BY <1>0, <1>1, <2>4, <3>1, GoesPublishes
    <3>2. CASE co[n].pub = "yes"
      <4>1. pc[n][t] \notin {"stage_verify", "unpublish_check"}
        BY <1>0, <3>2 DEF KubeletInv, Staging, StageCalls, Unpublishing, UnpublishCalls
      <4>2. CASE tgt'[n] = tgt[n]
        BY <3>2, <4>2 DEF ShownInv, ShowsVolume
      <4> QED BY <2>1, <2>4, <4>1, <4>2 DEF Touched
    <3>3. CASE Answered(n, t) /\ pc[n][t] = "publish_ok"
      BY <3>3 DEF Answered, ShownInv, ShowsVolume
    <3> QED BY <2>1, <2>5, <3>1, <3>2, <3>3 DEF Alone, Answered
  <2> QED BY <1>0, <2>2, <2>3, <2>5 DEF ShownInv
<1>2. ASSUME NEW m \in Nodes, NEW t \in Threads, Goes(m, t), m # n
      PROVE  ShownInv(n)'
  <2>1. pc'[n] = pc[n] /\ co'[n] = co[n]
    BY <1>0, <1>2, GoesAlone DEF Alone
  <2>2. stg'[n] = stg[n] /\ tgt'[n] = tgt[n]
    BY <1>0, <1>2, GoesTouches DEF Touched
  <2> QED BY <1>0, <2>1, <2>2 DEF ShownInv, ShowsVolume
<1>3. CASE Background(n)
  <2>1. CASE Wiped(n)
    BY <1>0, <2>1 DEF Wiped, ShownInv, PublishCalls
  <2>2. CASE stg'[n] = stg[n] /\ tgt'[n] = tgt[n]
    <3>1. /\ co'[n].st = "staged" => co[n].st = "staged"
          /\ co'[n].pub = "yes" => co[n].pub = "yes"
      BY <1>3 DEF Background
    <3>2. ASSUME NEW t \in Threads
          PROVE  /\ pc'[n][t] \in {"stage_mkdir", "stage_mount", "stage_ok", "publish_ok"}
                      => pc'[n][t] = pc[n][t]
                 /\ pc'[n][t] \in PublishCalls
                      => pc'[n][t] = pc[n][t] \/ co[n].st = "staged"
      BY <1>3 DEF Background, Begins, PublishCalls
    <3> QED BY <1>0, <2>2, <3>1, <3>2 DEF ShownInv, ShowsVolume
  <2> QED BY <1>3, <2>1, <2>2 DEF Background
<1> QED BY <1>0, <1>1, <1>2, <1>3, Steps

\* Mounts stay in sight in every behaviour in which none is damaged.
LEMMA ShownInductive ==
  ASSUME Remount = FALSE, Overlap = FALSE, FaultKinds \cap {"notready", "damage"} = {}
  PROVE  Spec => [](StayedInv /\ \A n \in Nodes : ShownInv(n))
<1>0. "notready" \notin FaultKinds /\ "damage" \notin FaultKinds
  OBVIOUS
<1> DEFINE Inv == \A n \in Nodes : ShownInv(n)
<1>1. Init => Inv
  BY DEF Init, ShownInv, PublishCalls
<1>2. StayedInv /\ Inv /\ [Next]_allvars => Inv'
  BY <1>0, ShownStep
<1>3. Spec => []StayedInv
  BY <1>0, StayedInductive
<1> HIDE DEF Inv
<1>4. Spec => [](StayedInv /\ Inv)
  BY <1>1, <1>2, <1>3, PTL DEF Spec
<1> QED BY <1>4 DEF Inv

\* When pods do not overlap, nodes stay ready and mounts are not damaged, what the
\* kubelet holds for published is the volume, never the bare staging directory.
THEOREM PublishedIsVolume ==
  ASSUME Remount = FALSE, Overlap = FALSE, FaultKinds \cap {"notready", "damage"} = {}
  PROVE  Spec => []PublishedShowsVolume
<1>1. StayedInv /\ (\A n \in Nodes : ShownInv(n)) => PublishedShowsVolume
  BY DEF ShownInv, PublishedShowsVolume
<1> QED BY <1>1, ShownInductive, PTL

\* All the layers together, for the assumptions of the NodeSafety run.
THEOREM HandoverCorrect ==
  ASSUME Remount = FALSE, Overlap = FALSE,
         FaultKinds \cap {"notready", "logout", "damage"} = {}
  PROVE  Spec => []HandoverInv
<1>0. /\ FaultKinds \cap {"notready", "logout"} = {}
      /\ FaultKinds \cap {"notready", "damage"} = {}
  OBVIOUS
<1>1. StayedInv /\ (\A n \in Nodes : SessionInv(n)) /\ (\A n \in Nodes : ShownInv(n))
        => HandoverInv
  BY DEF StayedInv, ReleasedInv, HandoverInv
<1>2. Spec => [](\A n \in Nodes : SessionInv(n))
  BY <1>0, SessionInductive
<1>3. Spec => [](StayedInv /\ \A n \in Nodes : ShownInv(n))
  BY <1>0, ShownInductive
<1> QED BY <1>1, <1>2, <1>3, PTL

-----------------------------------------------------------------------------
(* Refinement of StagedVolume *)

\* A goroutine mounts, unmounts, answers, or does nothing the kubelets can see.
LEMMA GoesImplements ==
  ASSUME StayedInv, UNCHANGED accessType, NEW n \in Nodes, ShownInv(n),
         NEW t \in Threads, Goes(n, t)
  PROVE  [Staged!Next]_(Staged!vars)
<1>0. /\ IInv /\ KubeletInv(n) /\ RecordInv(n) /\ ClearedInv(n) /\ ThreadInv(n, t)
      /\ \A k \in Nodes : StagingInv(k)
      /\ stg \in [Nodes -> Nat] /\ co \in [Nodes -> KubeletRecord]
  BY TypeParts DEF StayedInv, ReleasedInv, IInv, NodeInv, TypeOK, KubeletOK
<1>1. Alone(n, t) /\ \A k \in Nodes : Touched(n, t, k)
  BY <1>0, GoesAlone, GoesTouches
<1> DEFINE K == [k \in Nodes |-> co[k].st]
           M == {k \in Nodes : stg[k] > 0}
<1>2. CASE pc[n][t] = "stage_mount" /\ stg'[n] > 0
  <2>1. K' = K /\ co[n].st = "maybe" /\ accessType = "mount"
    BY <1>0, <1>1, <1>2 DEF Alone, Answered, KubeletInv, Staging, StageCalls, ShownInv
  <2>2. \A k \in Nodes \ {n} : ~cva[k].exists
    BY <1>0, <1>2 DEF ClearedInv, Cleared, Created, Elsewhere
  <2>3. \A k \in Nodes : ~(stg[k] > 0)
    BY <1>0, <1>2, <2>2 DEF StagingInv, Recorded, ThreadInv, Mounting
  <2>4. \A k \in Nodes \ {n} : stg'[k] = stg[k]
    BY <1>1 DEF Touched
  <2>5. M = {} /\ M' = {n}
    BY <1>2, <2>3, <2>4
  <2>6. Staged!Mount(n)
    BY <2>1, <2>5 DEF Staged!Mount
  <2> QED BY <2>6 DEF Staged!Next
<1>3. CASE \A k \in Nodes : stg'[k] = stg[k]
  <2>1. M' = M
    BY <1>3
  <2>2. CASE co'[n].st = co[n].st
    <3>1. K' = K
      BY <1>1, <2>2 DEF Alone
    <3> QED BY <2>1, <3>1 DEF Staged!vars
  <2>3. CASE Answered(n, t) /\ pc[n][t] = "stage_ok"
    <3>1. /\ co[n].st = "maybe" /\ co'[n].st = "staged"
          /\ accessType = "mount" => n \in M
      BY <1>0, <2>3 DEF Answered, KubeletInv, Staging, ShownInv
    <3>2. K' = [K EXCEPT ![n] = "staged"]
      BY <1>1, <3>1 DEF Alone
    <3>3. Staged!AnswerStage(n)
      BY <2>1, <3>1, <3>2 DEF Staged!AnswerStage
    <3> QED BY <3>3 DEF Staged!Next
  <2>4. CASE Answered(n, t) /\ pc[n][t] = "unstage_ok"
    <3>1. co[n].st = "maybe" /\ co'[n].st = "unstaged" /\ n \notin M
      BY <1>0, <2>4 DEF Answered, KubeletInv, Unstaging, ThreadInv, Unmounting
    <3>2. K' = [K EXCEPT ![n] = "unstaged"]
      BY <1>1, <3>1 DEF Alone
    <3>3. Staged!AnswerUnstage(n)
      BY <2>1, <3>1, <3>2 DEF Staged!AnswerUnstage
    <3> QED BY <3>3 DEF Staged!Next
  <2> QED BY <1>1, <2>2, <2>3, <2>4 DEF Alone, Answered
<1>4. CASE /\ pc[n][t] \in {"unstage_detach", "cleanup_detach"}
           /\ stg'[n] > 0 => stg[n] > 0
  <2>1. K' = K
    BY <1>1, <1>4 DEF Alone, Answered
  <2>2. \A k \in Nodes \ {n} : stg'[k] = stg[k]
    BY <1>1 DEF Touched
  <2>3. CASE stg'[n] > 0 \/ ~(stg[n] > 0)
    <3>1. M' = M
      BY <1>4, <2>2, <2>3
    <3> QED BY <2>1, <3>1 DEF Staged!vars
  <2>4. CASE ~(stg'[n] > 0) /\ stg[n] > 0
    <3>1. M' = M \ {n}
      BY <2>2, <2>4
    <3>2. co[n].st # "staged" /\ co[n].st # "unstaged"
      BY <1>0, <1>4, <2>4 DEF KubeletInv, Unstaging, UnstageCalls, RecordInv, Cleaning,
         CleanupCalls, StagingInv
    <3>3. co[n].st = "maybe"
      BY <1>0, <3>2 DEF KubeletRecord
    <3>4. Staged!Unmount(n)
      BY <2>1, <3>1, <3>3 DEF Staged!Unmount
    <3> QED BY <3>4 DEF Staged!Next
  <2> QED BY <2>3, <2>4
<1> QED BY <1>1, <1>2, <1>3, <1>4 DEF Touched

\* The kubelets ask, a node reboots, or nothing they know of changes.
LEMMA BackgroundImplements ==
  ASSUME Remount = FALSE, "damage" \notin FaultKinds, IInv, Next,
         ~\E n \in Nodes, t \in Threads : Goes(n, t)
  PROVE  [Staged!Next]_(Staged!vars)
<1>0. /\ stg \in [Nodes -> Nat] /\ co \in [Nodes -> KubeletRecord]
      /\ \A n \in Nodes : mon[n] = "off"
      /\ UNCHANGED accessType
  BY TypeParts DEF IInv, NodeInv, TypeOK, KubeletOK, Next
<1> DEFINE K == [k \in Nodes |-> co[k].st]
           M == {k \in Nodes : stg[k] > 0}
<1>1. ASSUME stg' = stg, \A k \in Nodes : co'[k].st = co[k].st
      PROVE  UNCHANGED Staged!vars
  BY <1>0, <1>1 DEF Staged!vars
<1>2. ASSUME stg' = stg, NEW n \in Nodes, NEW k \in KubeletRecord,
             co' = [co EXCEPT ![n] = k], k.st \in {co[n].st, "maybe"}
      PROVE  [Staged!Next]_(Staged!vars)
  <2>1. CASE k.st = co[n].st
    BY <1>0, <1>1, <1>2, <2>1
  <2>2. CASE k.st = "maybe"
    <3>1. K' = [K EXCEPT ![n] = "maybe"]
      BY <1>0, <1>2, <2>2
    <3>2. M' = M
      BY <1>2
    <3>3. Staged!Ask(n)
      BY <3>1, <3>2 DEF Staged!Ask
    <3> QED BY <1>0, <3>3 DEF Staged!Next
  <2> QED BY <1>2, <2>1, <2>2
<1>3. CASE \/ \E n \in Nodes :
                \/ DriverStart(n) \/ DriverCrash(n) \/ CallTimeout(n) \/ CollectGarbage(n)
                \/ NodeNotReady(n) \/ NodeReady(n) \/ SessionLost(n)
           \/ VolumeOffline \/ VolumeOnline
  <2>1. UNCHANGED <<stg, co>>
    BY <1>3 DEF DriverStart, DriverCrash, CallTimeout, CollectGarbage, NodeNotReady,
       NodeReady, SessionLost, VolumeOffline, VolumeOnline, host, kubelet
  <2> QED BY <1>1, <2>1
<1>4. ASSUME NEW n \in Nodes, SchedulePod(n) \/ DeletePod(n)
      PROVE  [Staged!Next]_(Staged!vars)
  <2>1. /\ stg' = stg
        /\ \/ co' = [co EXCEPT ![n].want = TRUE]
           \/ co' = [co EXCEPT ![n].want = FALSE]
    BY <1>4 DEF SchedulePod, DeletePod, host
  <2>2. \A k \in Nodes : co'[k].st = co[k].st
    BY <1>0, <2>1 DEF KubeletRecord
  <2> QED BY <1>1, <2>1, <2>2
<1>5. ASSUME NEW n \in Nodes, KubeletCall(n) \/ CallExpand(n)
      PROVE  [Staged!Next]_(Staged!vars)
  <2>1. \E p : \E k \in KubeletRecord : /\ Call(n, p, k)
                                        /\ k.st \in {co[n].st, "maybe"}
    BY <1>0, <1>5 DEF KubeletCall, CallStage, CallPublish, CallUnpublish, CallUnstage,
       CallExpand, KubeletRecord
  <2> QED BY <1>2, <2>1 DEF Call
<1>6. ASSUME NEW n \in Nodes, KubeletRestart(n)
      PROVE  [Staged!Next]_(Staged!vars)
  <2>1. stg' = stg /\ co' = [co EXCEPT ![n] = Unsure(co[n])]
    BY <1>6 DEF KubeletRestart, host
  <2>2. Unsure(co[n]) \in KubeletRecord /\ Unsure(co[n]).st \in {co[n].st, "maybe"}
    BY <1>0 DEF Unsure, KubeletRecord
  <2> QED BY <1>2, <2>1, <2>2
<1>7. ASSUME NEW n \in Nodes, Reboot(n)
      PROVE  [Staged!Next]_(Staged!vars)
  <2>1. /\ stg' = [stg EXCEPT ![n] = 0]
        /\ co' = [co EXCEPT ![n] = Unsure(co[n])]
    BY <1>7 DEF Reboot
  <2>2. Unsure(co[n]).st = IF co[n].st = "unstaged" THEN co[n].st ELSE "maybe"
    BY <1>0 DEF Unsure, KubeletRecord
  <2>3. K' = [K EXCEPT ![n] = IF @ = "unstaged" THEN @ ELSE "maybe"]
    BY <1>0, <2>1, <2>2
  <2>4. M' = M \ {n}
    BY <1>0, <2>1
  <2>5. Staged!Reboot(n)
    BY <2>3, <2>4 DEF Staged!Reboot
  <2> QED BY <1>0, <2>5 DEF Staged!Next
<1>8. \A n \in Nodes : ~Monitor(n) /\ ~MountDamaged(n)
  BY <1>0 DEF Monitor, MonitorTick, MonitorCleanup, MountDamaged, Fault
<1> QED BY <1>3, <1>4, <1>5, <1>6, <1>7, <1>8 DEF Next, Step, Goes

\* The node plugins implement StagedVolume for the kubelets, when pods do not overlap,
\* nodes stay ready and mounts are not damaged: the filesystem comes and goes only
\* between a call and its answer, on one node at a time, and is where answers say.
THEOREM PluginsImplement ==
  ASSUME Remount = FALSE, Overlap = FALSE, FaultKinds \cap {"notready", "damage"} = {}
  PROVE  Spec => ImplementsStaged
<1> DEFINE Inv == StayedInv /\ \A n \in Nodes : ShownInv(n)
<1>1. Init => Staged!Init
  BY DEF Init, Staged!Init
<1>2. Inv /\ [Next]_allvars => [Staged!Next]_(Staged!vars)
  <2> SUFFICES ASSUME Inv, [Next]_allvars PROVE [Staged!Next]_(Staged!vars)
    OBVIOUS
  <2>0. IInv /\ UNCHANGED accessType
    BY Steps DEF StayedInv, ReleasedInv
  <2>1. CASE UNCHANGED allvars
    BY <2>1 DEF allvars, vars, Staged!vars
  <2>2. CASE \E n \in Nodes, t \in Threads : Goes(n, t)
    BY <2>0, <2>2, GoesImplements
  <2>3. CASE Next /\ ~\E n \in Nodes, t \in Threads : Goes(n, t)
    BY <2>0, <2>3, BackgroundImplements
  <2> QED BY <2>1, <2>2, <2>3
<1>3. Spec => []Inv
  BY ShownInductive
<1> HIDE DEF Inv
<1> QED BY <1>1, <1>2, <1>3, PTL DEF Spec, ImplementsStaged, Staged!Spec
=============================================================================
