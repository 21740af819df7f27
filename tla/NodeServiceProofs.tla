-------------------------- MODULE NodeServiceProofs --------------------------
(***************************************************************************)
(* Safety of a node plugin that runs without REMOUNT, for any number of    *)
(* nodes, goroutines, faults and events: IInv is inductive.                *)
(*                                                                         *)
(* IInv speaks about each node separately (NodeInv).  A step either leaves *)
(* what NodeInv(n) depends on alone or weakens it (Still), or moves the    *)
(* only goroutine of n that is not idle (Moved), or starts one while all   *)
(* are idle (Started).                                                     *)
(***************************************************************************)
EXTENDS NodeServiceTypes

\* What NodeInv needs to carry over when no goroutine of n moves.
LEMMA Still ==
  ASSUME TypeOK', NEW n \in Nodes, NodeInv(n),
         pc'[n] = pc[n], arg'[n] = arg[n], mon'[n] = mon[n],
         n \in TransitionVolList' <=> n \in TransitionVolList,
         n \in up' <=> n \in up,
         Recorded(n) => Recorded(n)',
         stg'[n] = stg[n] \/ stg'[n] = 0,
         "staging" \in dir[n] => "staging" \in dir'[n],
         co'[n].st = co[n].st \/ co'[n].st # "unstaged"
  PROVE  NodeInv(n)'
<1>0. stg'[n] \in Nat
  BY DEF TypeOK
<1>1. ListInv(n)'
  BY DEF NodeInv, ListInv
<1>2. ASSUME NEW t \in Threads PROVE ThreadInv(n, t)'
  BY DEF NodeInv, ThreadInv
<1>3. StagingInv(n)'
  BY <1>0 DEF NodeInv, StagingInv
<1> QED BY <1>1, <1>2, <1>3 DEF NodeInv

\* The only goroutine that is not idle moves: what it relies on at its new
\* location, and what is said about the staging path, has to be shown.
LEMMA Moved ==
  ASSUME TypeOK', NEW n \in Nodes, NEW t \in Threads, NodeInv(n),
         pc[n][t] # "idle",
         \A u \in Threads \ {t} : pc'[n][u] = pc[n][u],
         mon'[n] = mon[n],
         n \in up' <=> n \in up,
         n \in TransitionVolList' \/ pc'[n][t] = "idle",
         n \in TransitionVolList' => n \in TransitionVolList,
         ThreadInv(n, t)', StagingInv(n)'
  PROVE  NodeInv(n)'
<1>1. \A u \in Threads \ {t} : pc'[n][u] = "idle"
  BY DEF NodeInv, ListInv
<1>2. ListInv(n)'
  BY <1>1 DEF ListInv
<1>3. ASSUME NEW u \in Threads PROVE ThreadInv(n, u)'
  <2>1. CASE u = t
    BY <2>1
  <2>2. CASE u # t
    BY <1>1, <2>2 DEF ThreadInv, Remounting, RemountCalls, Unmounting, Mounting,
       Staging, StageCalls
  <2> QED BY <2>1, <2>2
<1> QED BY <1>2, <1>3 DEF NodeInv

\* A goroutine starts while all are idle.
LEMMA Started ==
  ASSUME TypeOK', NEW n \in Nodes, NEW t \in Threads, NodeInv(n),
         n \notin TransitionVolList,
         \A u \in Threads \ {t} : pc'[n][u] = pc[n][u],
         mon'[n] = "off", n \in up', n \in TransitionVolList',
         ThreadInv(n, t)', StagingInv(n)'
  PROVE  NodeInv(n)'
<1>1. \A u \in Threads \ {t} : pc'[n][u] = "idle"
  BY DEF NodeInv, ListInv
<1>2. ListInv(n)'
  BY <1>1 DEF ListInv
<1>3. ASSUME NEW u \in Threads PROVE ThreadInv(n, u)'
  <2>1. CASE u = t
    BY <2>1
  <2>2. CASE u # t
    BY <1>1, <2>2 DEF ThreadInv, Remounting, RemountCalls, Unmounting, Mounting,
       Staging, StageCalls
  <2> QED BY <2>1, <2>2
<1> QED BY <1>2, <1>3 DEF NodeInv

-----------------------------------------------------------------------------
(* Steps of a goroutine *)

\* The location p is one that t may go to from where it is: the staging path is
\* as the location wants it.
Lands(n, t, p) ==
  /\ p \notin Remounting \cup {"cleanup_detach"}
  /\ p \in Unmounting \cup Mounting => stg[n] = 0
  /\ p \in Mounting => Recorded(n)'
  /\ p \in Staging => pc[n][t] \in Staging

\* A jump moves the one goroutine and nothing on the other nodes.
LEMMA GotoEffect ==
  ASSUME TypeOK, NEW n \in Nodes, NEW t \in Threads, NEW p, NEW a,
         GotoWith(n, t, p, a) \/ Goto(n, t, p)
  PROVE  /\ pc'[n][t] = p
         /\ \A u \in Threads \ {t} : pc'[n][u] = pc[n][u]
         /\ \A m \in Nodes \ {n} : pc'[m] = pc[m] /\ arg'[m] = arg[m]
<1>1. /\ pc \in [Nodes -> [Threads -> Locations]]
      /\ arg \in [Nodes -> [Threads -> SUBSET (Nodes \cup Paths)]]
  BY DEF TypeOK
<1>2. pc' = [pc EXCEPT ![n][t] = p]
  BY DEF Goto, GotoWith
<1>3. \E b : arg' = [arg EXCEPT ![n][t] = b]
  BY DEF Goto, GotoWith
<1> QED BY <1>1, <1>2, <1>3

\* A step that leaves mounts alone, takes no record or directory from a mounted
\* volume and lands where it may, keeps the invariant.
LEMMA Control ==
  ASSUME IInv, TypeOK', NEW n \in Nodes, NEW t \in Threads, pc[n][t] # "idle",
         NEW p, NEW a, GotoWith(n, t, p, a) \/ Goto(n, t, p), Lands(n, t, p),
         UNCHANGED <<stg, up, mon, co>>,
         TransitionVolList' = TransitionVolList
           \/ TransitionVolList' = TransitionVolList \cup {n},
         \A m \in Nodes : stg[m] > 0 /\ "staging" \in dir[m]
                            => "staging" \in dir'[m],
         \A m \in Nodes : m # n \/ stg[n] > 0 => (Recorded(m) => Recorded(m)')
  PROVE  IInv'
<1>0. TypeOK /\ \A m \in Nodes : NodeInv(m)
  BY DEF IInv
<1>1. /\ pc'[n][t] = p
      /\ \A u \in Threads \ {t} : pc'[n][u] = pc[n][u]
      /\ \A m \in Nodes \ {n} : pc'[m] = pc[m] /\ arg'[m] = arg[m]
  BY <1>0, GotoEffect
<1>2. ASSUME NEW m \in Nodes PROVE StagingInv(m)'
  BY <1>0, <1>2 DEF NodeInv, StagingInv
<1>3. NodeInv(n)'
  <2>1. n \in TransitionVolList
    BY <1>0 DEF NodeInv, ListInv
  <2>2. ThreadInv(n, t)'
    <3>1. pc[n][t] \in Staging => co[n].st # "unstaged"
      BY <1>0 DEF NodeInv, ThreadInv
    <3> QED BY <1>1, <3>1 DEF Lands, ThreadInv
  <2> QED BY <1>0, <1>1, <1>2, <2>1, <2>2, Moved
<1>4. ASSUME NEW m \in Nodes \ {n} PROVE NodeInv(m)'
  <2>1. ListInv(m)'
    BY <1>0, <1>1 DEF NodeInv, ListInv
  <2>2. ASSUME NEW u \in Threads PROVE ThreadInv(m, u)'
    BY <1>0, <1>1 DEF NodeInv, ThreadInv
  <2> QED BY <1>0, <1>2, <2>1, <2>2 DEF NodeInv
<1> QED BY <1>3, <1>4 DEF IInv

\* Any other step of a goroutine of n, which leaves the other nodes alone.
LEMMA Local ==
  ASSUME IInv, TypeOK', NEW n \in Nodes, NEW t \in Threads, pc[n][t] # "idle",
         NEW p, NEW a, GotoWith(n, t, p, a) \/ Goto(n, t, p),
         UNCHANGED <<cva, up, mon>>,
         n \in TransitionVolList' \/ p = "idle",
         \A m \in Nodes \ {n} : /\ m \in TransitionVolList' <=> m \in TransitionVolList
                                /\ stg'[m] = stg[m]
                                /\ dir'[m] = dir[m]
                                /\ co'[m] = co[m],
         ThreadInv(n, t)', StagingInv(n)'
  PROVE  IInv'
<1>0. TypeOK /\ \A m \in Nodes : NodeInv(m)
  BY DEF IInv
<1>1. /\ pc'[n][t] = p
      /\ \A u \in Threads \ {t} : pc'[n][u] = pc[n][u]
      /\ \A m \in Nodes \ {n} : pc'[m] = pc[m] /\ arg'[m] = arg[m]
  BY <1>0, GotoEffect
<1>2. NodeInv(n)'
  <2>1. n \in TransitionVolList
    BY <1>0 DEF NodeInv, ListInv
  <2> QED BY <1>0, <1>1, <2>1, Moved
<1>3. \A m \in Nodes : Recorded(m) => Recorded(m)'
  BY DEF Recorded
<1>4. ASSUME NEW m \in Nodes \ {n} PROVE NodeInv(m)'
  BY <1>0, <1>1, <1>3, Still
<1> QED BY <1>2, <1>4 DEF IInv

\* Where a failing call leads.
LEMMA ErrorLands ==
  ASSUME IInv, NEW n \in Nodes, NEW t \in Threads, pc[n][t] \in Calls
  PROVE  Lands(n, t, OnError(pc[n][t]))
<1>1. /\ ThreadInv(n, t)
      /\ pc[n][t] \notin RemountCalls
  BY DEF IInv, NodeInv, ThreadInv, Remounting
<1>2. CASE pc[n][t] \in {"stage_attach", "stage_mount"}
  BY <1>1, <1>2 DEF OnError, Lands, ThreadInv, Remounting, RemountCalls,
     Unmounting, Mounting, Staging, StageCalls
<1>3. CASE pc[n][t] \in StageCalls \ {"stage_attach", "stage_mount"}
  BY <1>3 DEF OnError, Lands, Remounting, RemountCalls, Unmounting, Mounting,
     Staging, StageCalls
<1>4. CASE pc[n][t] \in UnstageCalls
  BY <1>4 DEF OnError, Lands, Remounting, RemountCalls, Unmounting, Mounting,
     Staging, StageCalls, UnstageCalls
<1>5. CASE pc[n][t] \in PublishCalls \cup UnpublishCalls
  BY <1>5 DEF OnError, Lands, Remounting, RemountCalls, Unmounting, Mounting,
     Staging, StageCalls, UnstageCalls, PublishCalls, UnpublishCalls
<1>6. CASE pc[n][t] \in ExpandCalls \cup CleanupCalls
  BY <1>6 DEF OnError, Lands, Remounting, RemountCalls, Unmounting, Mounting,
     Staging, StageCalls, UnstageCalls, PublishCalls, UnpublishCalls,
     ExpandCalls, CleanupCalls
<1> QED BY <1>1, <1>2, <1>3, <1>4, <1>5, <1>6 DEF Calls

\* A goroutine at a call or at the end of one is not idle.
LEMMA CallsNotIdle == \A p \in Calls \cup Ends : p # "idle"
  BY DEF Calls, StageCalls, UnstageCalls, PublishCalls, UnpublishCalls,
     ExpandCalls, CleanupCalls, RemountCalls, Ends

\* An API, iSCSI or mount call that fails keeps the invariant.
LEMMA FailureInv ==
  ASSUME IInv, TypeOK', NEW n \in Nodes, NEW t \in Threads, CallFails(n, t)
  PROVE  IInv'
<1>1. /\ pc[n][t] \in Calls
      /\ pc[n][t] # "idle"
      /\ GotoWith(n, t, OnError(pc[n][t]), arg[n][t])
      /\ \/ TransitionVolList' = TransitionVolList
         \/ TransitionVolList' = TransitionVolList \cup {n}
      /\ UNCHANGED <<cva, stg, dir, up, mon, co>>
  BY CallsNotIdle DEF CallFails, MarkInTransition, cluster, host, kubelet
<1>2. Lands(n, t, OnError(pc[n][t]))
  BY <1>1, ErrorLands
<1>3. \A m \in Nodes : Recorded(m) => Recorded(m)'
  BY <1>1 DEF Recorded
<1> QED BY <1>1, <1>2, <1>3, Control

\* The object records the volume as staged, under the node's finalizer.
OnRecord(c) == c.exists /\ c.staging /\ "node" \in c.finalizers

\* Deleting and collecting such an object leave it a record.
LEMMA RecordSurvives ==
  ASSUME NEW c \in CVARecord, OnRecord(c)
  PROVE  OnRecord(Settle(c)) /\ OnRecord(Deleted(c)) /\ OnRecord(Collected(c))
  BY DEF CVARecord, OnRecord, Settle, Deleted, Collected

\* A write to the CVA of n only decides the record of n.
LEMMA WriteSurvives ==
  ASSUME TypeOK, NEW n \in Nodes, NEW c, NEW h, WriteCVA(n, c, h)
  PROVE  /\ OnRecord(c) => Recorded(n)'
         /\ \A m \in Nodes \ {n} : Recorded(m) => Recorded(m)'
  BY DEF TypeOK, WriteCVA, Recorded, OnRecord

\* A call to the API server whose reply may be lost.
LEMMA ReplyInv ==
  ASSUME IInv, TypeOK', NEW n \in Nodes, NEW t \in Threads, pc[n][t] \in Calls,
         NEW p, NEW a, Reply(n, t, p, a), Lands(n, t, p),
         UNCHANGED <<stg, dir, up, mon, co>>,
         TransitionVolList' = TransitionVolList
           \/ TransitionVolList' = TransitionVolList \cup {n},
         \A m \in Nodes : m # n \/ stg[n] > 0 => (Recorded(m) => Recorded(m)')
  PROVE  IInv'
<1>1. pc[n][t] # "idle"
  BY CallsNotIdle
<1>2. CASE GotoWith(n, t, p, a)
  BY <1>1, <1>2, Control
<1>3. CASE Goto(n, t, OnError(pc[n][t]))
  BY <1>1, <1>3, ErrorLands, Control
<1> QED BY <1>2, <1>3 DEF Reply

\* An update of the node's CVA, refused or not, its reply lost or not.
LEMMA UpdateInv ==
  ASSUME IInv, TypeOK', NEW n \in Nodes, NEW t \in Threads, pc[n][t] \in Calls,
         NEW new \in CVARecord, NEW p,
         UpdateCStorVolumeAttachmentCR(n, t, new, p),
         UNCHANGED <<stg, dir, up, mon, co>>,
         TransitionVolList' = TransitionVolList
           \/ TransitionVolList' = TransitionVolList \cup {n},
         stg[n] > 0 => OnRecord(new),
         p \notin Remounting \cup {"cleanup_detach"},
         p \in Unmounting \cup Mounting => stg[n] = 0,
         p \in Mounting /\ cva[n].exists => OnRecord(new),
         p \in Staging => pc[n][t] \in Staging
  PROVE  IInv'
<1>0. TypeOK
  BY DEF IInv
<1>1. CASE /\ MayUpdate(cva[n], new)
           /\ WriteCVA(n, Settle(new), {t})
           /\ Reply(n, t, p, {})
  <2>1. /\ OnRecord(new) => Recorded(n)'
        /\ \A m \in Nodes \ {n} : Recorded(m) => Recorded(m)'
    BY <1>0, <1>1, RecordSurvives, WriteSurvives
  <2>2. Lands(n, t, p)
    BY <1>1, <2>1 DEF Lands, MayUpdate
  <2> QED BY <1>1, <2>1, <2>2, ReplyInv
<1>2. CASE Goto(n, t, OnError(pc[n][t])) /\ UNCHANGED <<cva, fresh, faults>>
  <2>1. \A m \in Nodes : Recorded(m) => Recorded(m)'
    BY <1>2 DEF Recorded
  <2> QED BY <1>2, <2>1, CallsNotIdle, ErrorLands, Control
<1> QED BY <1>1, <1>2 DEF UpdateCStorVolumeAttachmentCR

-----------------------------------------------------------------------------
(* NodeStageVolume *)

\* The steps of Stage that only compute, read, or touch what IInv does not
\* speak of.
LEMMA StageControl ==
  ASSUME IInv, TypeOK', NEW n \in Nodes, NEW t \in Threads,
         \/ StageList(n, t) \/ StageNodes(n, t) \/ StageDelList(n, t)
         \/ StageGet(n, t) \/ StageWait(n, t)
  PROVE  IInv'
<1>1. \E p \in {"stage_nodes", "stage_dellist", "stage_del", "stage_create",
                "stage_wait", "stage_verify", "stage_err"} : \E a :
        GotoWith(n, t, p, a) \/ Goto(n, t, p)
  BY DEF StageList, StageNodes, StageDelList, StageGet, StageWait
<1>2. \A p \in {"stage_nodes", "stage_dellist", "stage_del", "stage_create",
                "stage_wait", "stage_verify", "stage_err"} :
        /\ p \notin Remounting \cup {"cleanup_detach"} \cup Unmounting \cup Mounting
        /\ p \in Staging
  BY DEF Remounting, RemountCalls, Unmounting, Mounting, Staging, StageCalls
<1>3. pc[n][t] \in Staging /\ pc[n][t] # "idle"
  BY DEF StageList, StageNodes, StageDelList, StageGet, StageWait, At, Staging,
     StageCalls
<1>4. /\ UNCHANGED <<cva, stg, dir, up, mon, co>>
      /\ \/ TransitionVolList' = TransitionVolList
         \/ TransitionVolList' = TransitionVolList \cup {n}
  BY DEF StageList, StageNodes, StageDelList, StageGet, StageWait, ReadCVA,
     MarkInTransition, cluster, host, kubelet
<1>5. \A m \in Nodes : Recorded(m) => Recorded(m)'
  BY <1>4 DEF Recorded
<1>6. PICK p, a : /\ GotoWith(n, t, p, a) \/ Goto(n, t, p)
                  /\ Lands(n, t, p)
  BY <1>1, <1>2, <1>3 DEF Lands
<1> QED BY <1>3, <1>4, <1>5, <1>6, Control

\* NodeStageVolume keeps the invariant.
LEMMA StageInv ==
  ASSUME IInv, TypeOK', NEW n \in Nodes, NEW t \in Threads, NodeStageVolume(n, t)
  PROVE  IInv'
<1>0. TypeOK /\ ThreadInv(n, t) /\ cva[n] \in CVARecord
  BY DEF IInv, NodeInv, TypeOK
<1>1. CASE \/ StageList(n, t) \/ StageNodes(n, t) \/ StageDelList(n, t)
           \/ StageGet(n, t) \/ StageWait(n, t)
  BY <1>1, StageControl
<1>2. CASE StageDel(n, t)
  <2>1. PICK m \in Nodes :
          \/ /\ WriteCVA(m, Deleted(cva[m]),
                         IF cva[m].deleting THEN fresh[m] ELSE {})
             /\ \E p \in {"stage_create", "stage_del"} : \E a : Reply(n, t, p, a)
          \/ /\ Goto(n, t, "stage_err")
             /\ UNCHANGED <<cva, fresh, faults>>
    BY <1>2 DEF StageDel
  <2>2. /\ pc[n][t] = "stage_del"
        /\ UNCHANGED <<stg, dir, up, TransitionVolList, mon, co>>
    BY <1>2 DEF StageDel, At, host, kubelet
  <2>3. \A q \in Nodes : Recorded(q) => Recorded(q)'
    <3>1. CASE WriteCVA(m, Deleted(cva[m]),
                        IF cva[m].deleting THEN fresh[m] ELSE {})
      <4>1. Recorded(m) => OnRecord(Deleted(cva[m]))
        BY <1>0, RecordSurvives DEF Recorded, OnRecord, TypeOK
      <4> QED BY <1>0, <3>1, <4>1, WriteSurvives
    <3>2. CASE UNCHANGED cva
      BY <3>2 DEF Recorded
    <3> QED BY <2>1, <3>1, <3>2
  <2>4. \A p \in {"stage_create", "stage_del", "stage_err"} : Lands(n, t, p)
    BY <2>2 DEF Lands, Remounting, RemountCalls, Unmounting, Mounting, Staging,
       StageCalls
  <2>5. pc[n][t] \in Calls
    BY <2>2 DEF Calls, StageCalls
  <2>6. CASE \E p \in {"stage_create", "stage_del"} : \E a : Reply(n, t, p, a)
    BY <2>2, <2>3, <2>4, <2>5, <2>6, ReplyInv
  <2>7. CASE Goto(n, t, "stage_err")
    BY <2>2, <2>3, <2>4, <2>7, Control
  <2> QED BY <2>1, <2>6, <2>7
<1>3. CASE StageCreate(n, t)
  <2>1. /\ pc[n][t] = "stage_create"
        /\ UNCHANGED <<stg, dir, up, TransitionVolList, mon, co>>
    BY <1>3 DEF StageCreate, At, host, kubelet
  <2>2. \A p \in {"stage_get", "stage_err"} : Lands(n, t, p)
    BY <2>1 DEF Lands, Remounting, RemountCalls, Unmounting, Mounting, Staging,
       StageCalls
  <2>3. CASE cva[n].exists
    <3>1. Goto(n, t, "stage_err") /\ UNCHANGED cva
      BY <1>3, <2>3 DEF StageCreate
    <3>2. \A m \in Nodes : Recorded(m) => Recorded(m)'
      BY <3>1 DEF Recorded
    <3> QED BY <2>1, <2>2, <3>1, <3>2, Control
  <2>4. CASE ~cva[n].exists
    <3>1. WriteCVA(n, NewCVA, {}) /\ Reply(n, t, "stage_get", {})
      BY <1>3, <2>4 DEF StageCreate
    <3>2. \A m \in Nodes : Recorded(m) => Recorded(m)'
      BY <1>0, <2>4, <3>1, WriteSurvives DEF Recorded
    <3>3. pc[n][t] \in Calls
      BY <2>1 DEF Calls, StageCalls
    <3> QED BY <2>1, <2>2, <3>1, <3>2, <3>3, ReplyInv
  <2> QED BY <2>3, <2>4
<1>4. CASE StageVerify(n, t)
  <2>1. /\ pc[n][t] = "stage_verify"
        /\ UNCHANGED <<cva, stg, dir, up, TransitionVolList, mon, co>>
    BY <1>4 DEF StageVerify, At, cluster, kubelet
  <2>2. /\ Lands(n, t, "stage_ok")
        /\ stg[n] = 0 => Lands(n, t, "stage_update")
    BY <2>1 DEF Lands, Remounting, RemountCalls, Unmounting, Mounting, Staging,
       StageCalls
  <2>3. \/ Goto(n, t, "stage_ok")
        \/ stg[n] = 0 /\ Goto(n, t, "stage_update")
    BY <1>0, <1>4 DEF StageVerify, TypeOK
  <2>4. \A m \in Nodes : Recorded(m) => Recorded(m)'
    BY <2>1 DEF Recorded
  <2> QED BY <2>1, <2>2, <2>3, <2>4, Control
<1>5. CASE StageUpdate(n, t)
  <2> DEFINE new == [cva[n] EXCEPT !.staging = TRUE, !.finalizers = {"node"}]
  <2>1. /\ pc[n][t] = "stage_update"
        /\ UpdateCStorVolumeAttachmentCR(n, t, new, "stage_attach")
        /\ UNCHANGED <<stg, dir, up, TransitionVolList, mon, co>>
    BY <1>5 DEF StageUpdate, At, host, kubelet
  <2>2. /\ new \in CVARecord
        /\ cva[n].exists => OnRecord(new)
    BY <1>0, RecordTypes DEF OnRecord, CVARecord
  <2>3. stg[n] = 0
    BY <1>0, <2>1 DEF ThreadInv, Unmounting
  <2>4. /\ pc[n][t] \in Calls
        /\ pc[n][t] \in Staging
        /\ "stage_attach" \notin Remounting \cup {"cleanup_detach"}
    BY <2>1 DEF Calls, StageCalls, Staging, Remounting, RemountCalls
  <2> HIDE DEF new
  <2> QED BY <2>1, <2>2, <2>3, <2>4, UpdateInv
<1>6. CASE StageAttach(n, t)
  <2>1. /\ pc[n][t] = "stage_attach"
        /\ UNCHANGED <<cva, stg, dir, up, mon, co>>
        /\ TransitionVolList' = TransitionVolList \cup {n}
    BY <1>6 DEF StageAttach, At, cluster, kubelet, MarkInTransition
  <2>2. stg[n] = 0 /\ Recorded(n)
    BY <1>0, <2>1 DEF ThreadInv, Mounting
  <2>3. \A m \in Nodes : Recorded(m) => Recorded(m)'
    BY <2>1 DEF Recorded
  <2>4. \A p \in {"stage_ok", "stage_mkdir", "stage_undo"} : Lands(n, t, p)
    BY <2>1, <2>2, <2>3 DEF Lands, Remounting, RemountCalls, Unmounting,
       Mounting, Staging, StageCalls
  <2>5. \E p \in {"stage_ok", "stage_mkdir", "stage_undo"} : Goto(n, t, p)
    BY <1>6 DEF StageAttach
  <2> QED BY <2>1, <2>3, <2>4, <2>5, Control
<1>7. CASE StageMkdir(n, t)
  <2>1. /\ pc[n][t] = "stage_mkdir"
        /\ UNCHANGED <<cva, stg, up, TransitionVolList, mon, co>>
        /\ dir' = [dir EXCEPT ![n] = @ \cup {"staging"}]
        /\ Goto(n, t, "stage_mount")
    BY <1>7 DEF StageMkdir, At, cluster, kubelet
  <2>2. stg[n] = 0 /\ Recorded(n)
    BY <1>0, <2>1 DEF ThreadInv, Mounting
  <2>3. \A m \in Nodes : Recorded(m) => Recorded(m)'
    BY <2>1 DEF Recorded
  <2>4. Lands(n, t, "stage_mount")
    BY <2>1, <2>2, <2>3 DEF Lands, Remounting, RemountCalls, Unmounting,
       Mounting, Staging, StageCalls
  <2>5. \A m \in Nodes : "staging" \in dir[m] => "staging" \in dir'[m]
    BY <1>0, <2>1 DEF TypeOK
  <2> QED BY <2>1, <2>3, <2>4, <2>5, Control
<1>8. CASE StageUndo(n, t)
  <2> DEFINE new == [cva[n] EXCEPT !.finalizers = {}]
  <2>1. /\ pc[n][t] = "stage_undo"
        /\ UpdateCStorVolumeAttachmentCR(n, t, new, "stage_err")
        /\ UNCHANGED <<stg, dir, up, TransitionVolList, mon, co>>
    BY <1>8 DEF StageUndo, At, host, kubelet
  <2>2. new \in CVARecord
    BY <1>0, RecordTypes
  <2>3. stg[n] = 0
    BY <1>0, <2>1 DEF ThreadInv, Unmounting
  <2>4. /\ pc[n][t] \in Calls
        /\ pc[n][t] \in Staging
        /\ "stage_err" \notin Remounting \cup {"cleanup_detach"} \cup Unmounting
                                \cup Mounting
    BY <2>1 DEF Calls, StageCalls, Staging, Remounting, RemountCalls, Unmounting,
       Mounting
  <2> HIDE DEF new
  <2> QED BY <2>1, <2>2, <2>3, <2>4, UpdateInv
<1>9. CASE StageMount(n, t)
  <2>1. /\ pc[n][t] = "stage_mount"
        /\ UNCHANGED <<cva, dir, up, mon, co>>
    BY <1>9 DEF StageMount, At, cluster, kubelet
  <2>2. stg[n] = 0 /\ Recorded(n) /\ co[n].st # "unstaged"
    BY <1>0, <2>1 DEF ThreadInv, Mounting, Staging, StageCalls
  <2>3. CASE Mountable(n)
    <3>1. /\ Goto(n, t, "stage_ok")
          /\ TransitionVolList' = TransitionVolList \cup {n}
          /\ stg' = [stg EXCEPT ![n] = IF @ > 0 THEN @ ELSE 1]
      BY <1>9, <2>3 DEF StageMount, MarkInTransition
    <3>2. pc'[n][t] = "stage_ok"
      BY <1>0, <3>1, GotoEffect
    <3>3. Recorded(n)' /\ "staging" \in dir'[n] /\ co'[n].st # "unstaged"
      BY <2>1, <2>2, <2>3 DEF Recorded, Mountable
    <3>4. ThreadInv(n, t)' /\ StagingInv(n)'
      BY <3>2, <3>3 DEF ThreadInv, StagingInv, Remounting, RemountCalls,
         Unmounting, Mounting
    <3>5. \A m \in Nodes \ {n} : stg'[m] = stg[m]
      BY <1>0, <3>1 DEF TypeOK
    <3> QED BY <2>1, <3>1, <3>4, <3>5, Local
  <2>4. CASE ~Mountable(n)
    <3>1. /\ Goto(n, t, "stage_undo")
          /\ UNCHANGED <<stg, TransitionVolList>>
      BY <1>9, <2>2, <2>4 DEF StageMount
    <3>2. Lands(n, t, "stage_undo")
      BY <2>1, <2>2 DEF Lands, Remounting, RemountCalls, Unmounting, Mounting,
         Staging, StageCalls
    <3>3. \A m \in Nodes : Recorded(m) => Recorded(m)'
      BY <2>1 DEF Recorded
    <3> QED BY <2>1, <3>1, <3>2, <3>3, Control
  <2> QED BY <2>3, <2>4
<1> QED
  BY <1>1, <1>2, <1>3, <1>4, <1>5, <1>6, <1>7, <1>8, <1>9 DEF NodeStageVolume

-----------------------------------------------------------------------------
(* DetachDisk, NodeUnstageVolume and Cleanup *)

\* DetachDisk goes on to its logout, or skips it, only when the staging path is
\* not mounted.
LEMMA DetachUnmountInv ==
  ASSUME IInv, TypeOK', NEW n \in Nodes, NEW t \in Threads, NEW path \in BOOLEAN,
         NEW p \in Unmounting \ Staging, NEW q \in Unmounting \ Staging,
         pc[n][t] \in {"unstage_detach", "cleanup_detach"},
         ~path => stg[n] = 0,
         DetachUnmount(n, t, path, p, q), UNCHANGED TransitionVolList
  PROVE  IInv'
<1>0. TypeOK /\ NodeInv(n) /\ stg[n] \in Nat /\ stg \in [Nodes -> Nat]
  BY DEF IInv, TypeOK
<1>1. UNCHANGED <<cva, dir, up, mon, co>>
  BY DEF DetachUnmount, cluster, kubelet
<1>2. /\ OnError(pc[n][t]) \in {"unstage_err", "cleanup_release"}
      /\ pc[n][t] # "idle"
  BY DEF OnError, StageCalls, UnstageCalls, PublishCalls, UnpublishCalls,
     ExpandCalls, CleanupCalls
<1>3. n \in TransitionVolList
  BY <1>0, <1>2 DEF NodeInv, ListInv
<1>4. \A r \in Unmounting : /\ r \notin Remounting \cup Mounting
                            /\ r # "cleanup_detach"
  BY DEF Unmounting, Mounting, Remounting, RemountCalls
<1>5. \A r \in {"unstage_err", "cleanup_release"} :
        r \notin Remounting \cup Mounting \cup Unmounting \cup Staging
                   \cup {"cleanup_detach"}
  BY DEF Unmounting, Mounting, Remounting, RemountCalls, Staging, StageCalls
<1>6. CASE path /\ "staging" \in dir[n]
  <2>1. /\ stg' = [stg EXCEPT ![n] = IF @ > 0 THEN @ - 1 ELSE 0]
        /\ Goto(n, t, IF stg[n] > 1 THEN OnError(pc[n][t]) ELSE p)
    BY <1>6 DEF DetachUnmount
  <2>2. /\ stg'[n] > 0 => stg[n] > 1
        /\ stg[n] > 1 => stg[n] > 0
        /\ ~(stg[n] > 1) => stg'[n] = 0
    BY <1>0, <2>1
  <2>3. \A m \in Nodes \ {n} : stg'[m] = stg[m]
    BY <1>0, <2>1
  <2>4. StagingInv(n)'
    BY <1>0, <1>1, <2>2 DEF NodeInv, StagingInv, Recorded
  <2>5. ThreadInv(n, t)'
    <3>1. pc'[n][t] = IF stg[n] > 1 THEN OnError(pc[n][t]) ELSE p
      <4> DEFINE l == IF stg[n] > 1 THEN OnError(pc[n][t]) ELSE p
      <4>1. Goto(n, t, l)
        BY <2>1
      <4> HIDE DEF l
      <4>2. pc'[n][t] = l
        BY <1>0, <4>1, GotoEffect
      <4> QED BY <4>2 DEF l
    <3>2. CASE stg[n] > 1
      BY <1>2, <1>5, <3>1, <3>2 DEF ThreadInv
    <3>3. CASE ~(stg[n] > 1)
      BY <1>4, <2>2, <3>1, <3>3 DEF ThreadInv
    <3> QED BY <3>2, <3>3
  <2> QED BY <1>1, <1>2, <1>3, <2>1, <2>3, <2>4, <2>5, Local
<1>7. CASE ~(path /\ "staging" \in dir[n])
  <2>1. Goto(n, t, q) /\ UNCHANGED stg
    BY <1>7 DEF DetachUnmount
  <2>2. stg[n] = 0
    BY <1>0, <1>7 DEF NodeInv, StagingInv
  <2>3. Lands(n, t, q)
    BY <1>4, <2>2 DEF Lands
  <2>4. \A m \in Nodes : Recorded(m) => Recorded(m)'
    BY <1>1 DEF Recorded
  <2> QED BY <1>1, <1>2, <2>1, <2>3, <2>4, Control
<1> QED BY <1>6, <1>7

\* So do DetachDisk's logout and its RemoveAll.
LEMMA DetachInv ==
  ASSUME IInv, TypeOK', NEW n \in Nodes, NEW t \in Threads,
         NEW p \in Unmounting \ Staging,
         \/ /\ pc[n][t] \in {"unstage_logout", "cleanup_logout"}
            /\ DetachLogout(n, t, p)
         \/ /\ pc[n][t] \in {"unstage_rmdir", "cleanup_rmdir"}
            /\ DetachRemove(n, t, p)
  PROVE  IInv'
<1>0. TypeOK /\ ThreadInv(n, t)
  BY DEF IInv, NodeInv
<1>1. /\ UNCHANGED <<cva, stg, up, TransitionVolList, mon, co>>
      /\ dir' = dir \/ dir' = [dir EXCEPT ![n] = @ \ {"staging"}]
      /\ \/ GotoWith(n, t, p, {}) \/ Goto(n, t, p)
         \/ Goto(n, t, OnError(pc[n][t]))
  BY DEF DetachLogout, DetachRemove, Reply, cluster, kubelet
<1>2. stg[n] = 0
  BY <1>0 DEF ThreadInv, Unmounting
<1>3. pc[n][t] \in Calls /\ pc[n][t] # "idle"
  BY DEF Calls, UnstageCalls, CleanupCalls
<1>4. Lands(n, t, p)
  BY <1>2 DEF Lands, Remounting, RemountCalls, Unmounting, Mounting
<1>5. \A m \in Nodes : Recorded(m) => Recorded(m)'
  BY <1>1 DEF Recorded
<1>6. ASSUME NEW m \in Nodes, stg[m] > 0, "staging" \in dir[m]
      PROVE  "staging" \in dir'[m]
  <2>1. m # n
    BY <1>2, <1>6
  <2>2. dir'[m] = dir[m]
    BY <1>0, <1>1, <2>1 DEF TypeOK
  <2> QED BY <1>6, <2>2
<1> QED BY <1>1, <1>3, <1>4, <1>5, <1>6, ErrorLands, Control

\* NodeUnstageVolume keeps the invariant.
LEMMA UnstageInv ==
  ASSUME IInv, TypeOK', NEW n \in Nodes, NEW t \in Threads,
         NodeUnstageVolume(n, t)
  PROVE  IInv'
<1>0. /\ TypeOK /\ NodeInv(n) /\ ThreadInv(n, t)
      /\ cva[n] \in CVARecord
      /\ stg[n] \in Nat
  BY DEF IInv, NodeInv, TypeOK
<1>1. {"unstage_logout", "unstage_rmdir", "unstage_update"}
        \subseteq Unmounting \ Staging
  BY DEF Unmounting, Staging, StageCalls
<1>2. CASE UnstageGet(n, t)
  <2>1. /\ pc[n][t] = "unstage_get"
        /\ UNCHANGED <<cva, stg, dir, up, mon, co>>
        /\ \/ TransitionVolList' = TransitionVolList
           \/ TransitionVolList' = TransitionVolList \cup {n}
    BY <1>2 DEF UnstageGet, At, ReadCVA, MarkInTransition, cluster, host, kubelet
  <2>2. \/ Goto(n, t, "unstage_detach")
        \/ ~(cva[n].exists /\ cva[n].staging) /\ Goto(n, t, "unstage_ok")
    BY <1>2 DEF UnstageGet
  <2>3. ~(cva[n].exists /\ cva[n].staging) => stg[n] = 0
    BY <1>0 DEF NodeInv, StagingInv, Recorded
  <2>4. /\ Lands(n, t, "unstage_detach")
        /\ stg[n] = 0 => Lands(n, t, "unstage_ok")
    BY DEF Lands, Remounting, RemountCalls, Unmounting, Mounting, Staging,
       StageCalls
  <2>5. \A m \in Nodes : Recorded(m) => Recorded(m)'
    BY <2>1 DEF Recorded
  <2> QED BY <2>1, <2>2, <2>3, <2>4, <2>5, Control
<1>3. CASE UnstageDetach(n, t)
  BY <1>1, <1>3, DetachUnmountInv DEF UnstageDetach, At
<1>4. CASE UnstageLogout(n, t)
  BY <1>1, <1>4, DetachInv DEF UnstageLogout, At
<1>5. CASE UnstageRemove(n, t)
  BY <1>1, <1>5, DetachInv DEF UnstageRemove, At
<1>6. CASE UnstageUpdate(n, t)
  <2> DEFINE new == [cva[n] EXCEPT !.finalizers = {}, !.staging = FALSE]
  <2>1. /\ pc[n][t] = "unstage_update"
        /\ UpdateCStorVolumeAttachmentCR(n, t, new, "unstage_delete")
        /\ TransitionVolList' = TransitionVolList \cup {n}
        /\ UNCHANGED <<stg, dir, up, mon, co>>
    BY <1>6 DEF UnstageUpdate, At, MarkInTransition, host, kubelet
  <2>2. new \in CVARecord
    BY <1>0, RecordTypes
  <2>3. stg[n] = 0
    BY <1>0, <2>1 DEF ThreadInv, Unmounting
  <2>4. /\ pc[n][t] \in Calls
        /\ "unstage_delete" \notin Remounting \cup {"cleanup_detach"} \cup Mounting
                                     \cup Staging
    BY <2>1 DEF Calls, UnstageCalls, Staging, StageCalls, Remounting,
       RemountCalls, Mounting
  <2> HIDE DEF new
  <2> QED BY <2>1, <2>2, <2>3, <2>4, UpdateInv
<1>7. CASE UnstageDelete(n, t)
  <2>1. /\ pc[n][t] = "unstage_delete"
        /\ UNCHANGED <<stg, dir, up, TransitionVolList, mon, co>>
    BY <1>7 DEF UnstageDelete, At, host, kubelet
  <2>2. stg[n] = 0
    BY <1>0, <2>1 DEF ThreadInv, Unmounting
  <2>3. \A p \in {"unstage_ok", "unstage_err"} : Lands(n, t, p)
    BY <2>2 DEF Lands, Remounting, RemountCalls, Unmounting, Mounting, Staging,
       StageCalls
  <2>4. \A m \in Nodes \ {n} : Recorded(m) => Recorded(m)'
    BY <1>0, <1>7, WriteSurvives DEF UnstageDelete, Recorded
  <2>5. pc[n][t] \in Calls /\ pc[n][t] # "idle"
    BY <2>1 DEF Calls, UnstageCalls
  <2>6. Reply(n, t, "unstage_ok", {}) \/ Goto(n, t, "unstage_err")
    BY <1>7 DEF UnstageDelete
  <2> QED BY <2>1, <2>2, <2>3, <2>4, <2>5, <2>6, ReplyInv, Control
<1> QED
  BY <1>2, <1>3, <1>4, <1>5, <1>6, <1>7 DEF NodeUnstageVolume

\* Cleanup keeps the invariant.
LEMMA CleanupInv ==
  ASSUME IInv, TypeOK', NEW n \in Nodes, NEW t \in Threads, CleanupVolume(n, t)
  PROVE  IInv'
<1>0. TypeOK /\ NodeInv(n) /\ ThreadInv(n, t) /\ cva[n] \in CVARecord
  BY DEF IInv, NodeInv, TypeOK
<1>1. {"cleanup_logout", "cleanup_rmdir", "cleanup_update"}
        \subseteq Unmounting \ Staging
  BY DEF Unmounting, Staging, StageCalls
<1>2. CASE CleanupDetach(n, t)
  <2>1. "staging" \notin arg[n][t] => stg[n] = 0
    BY <1>0, <1>2 DEF ThreadInv, CleanupDetach, At
  <2>2. ("staging" \in arg[n][t]) \in BOOLEAN
    OBVIOUS
  <2> QED BY <1>1, <1>2, <2>1, <2>2, DetachUnmountInv DEF CleanupDetach, At
<1>3. CASE CleanupLogout(n, t)
  BY <1>1, <1>3, DetachInv DEF CleanupLogout, At
<1>4. CASE CleanupRemove(n, t)
  BY <1>1, <1>4, DetachInv DEF CleanupRemove, At
<1>5. CASE CleanupUpdate(n, t)
  <2> DEFINE new == [cva[n] EXCEPT !.finalizers = {}]
  <2>1. /\ pc[n][t] = "cleanup_update"
        /\ UpdateCStorVolumeAttachmentCR(n, t, new, "cleanup_release")
        /\ UNCHANGED <<stg, dir, up, TransitionVolList, mon, co>>
    BY <1>5 DEF CleanupUpdate, At, host, kubelet
  <2>2. new \in CVARecord
    BY <1>0, RecordTypes
  <2>3. stg[n] = 0
    BY <1>0, <2>1 DEF ThreadInv, Unmounting
  <2>4. /\ pc[n][t] \in Calls
        /\ "cleanup_release" \notin Remounting \cup {"cleanup_detach"}
                                      \cup Mounting \cup Staging
    BY <2>1 DEF Calls, CleanupCalls, Staging, StageCalls, Remounting,
       RemountCalls, Mounting
  <2> HIDE DEF new
  <2> QED BY <2>1, <2>2, <2>3, <2>4, UpdateInv
<1>6. CASE CleanupRelease(n, t)
  <2>1. /\ pc[n][t] = "cleanup_release"
        /\ TransitionVolList' = TransitionVolList \ {n}
        /\ Goto(n, t, "idle")
        /\ UNCHANGED <<cva, stg, dir, up, mon, co>>
    BY <1>6 DEF CleanupRelease, At, host, kubelet
  <2>2. ThreadInv(n, t)'
    <3>1. pc'[n][t] = "idle"
      BY <1>0, <2>1, GotoEffect
    <3> QED BY <3>1 DEF ThreadInv, Remounting, RemountCalls, Unmounting,
            Mounting, Staging, StageCalls
  <2>3. StagingInv(n)'
    BY <1>0, <2>1 DEF NodeInv, StagingInv, Recorded
  <2> QED BY <2>1, <2>2, <2>3, Local
<1> QED BY <1>2, <1>3, <1>4, <1>5, <1>6 DEF CleanupVolume

-----------------------------------------------------------------------------
(* NodePublishVolume, NodeUnpublishVolume, NodeExpandVolume *)

\* NodePublishVolume, NodeUnpublishVolume and NodeExpandVolume leave the
\* staging path and its record alone.
LEMMA PublishInv ==
  ASSUME IInv, TypeOK', NEW n \in Nodes, NEW t \in Threads,
         NodePublishVolume(n, t) \/ NodeUnpublishVolume(n, t)
           \/ NodeExpandVolume(n, t)
  PROVE  IInv'
<1> DEFINE Targets == {"publish_update", "publish_mount", "publish_ok",
                       "publish_err", "unpublish_get", "unpublish_update",
                       "unpublish_ok", "unpublish_err", "expand_resize",
                       "expand_ok", "expand_err"}
<1>0. TypeOK /\ NodeInv(n) /\ cva[n] \in CVARecord
  BY DEF IInv, NodeInv, TypeOK
<1>1. /\ pc[n][t] \in Calls
      /\ UNCHANGED <<stg, up, TransitionVolList, mon, co>>
  BY DEF NodePublishVolume, NodeUnpublishVolume, NodeExpandVolume, PublishGet,
     PublishUpdate, PublishMount, UnpublishCheck, UnpublishGet, UnpublishUpdate,
     ExpandGet, ExpandResize, At, Calls, PublishCalls, UnpublishCalls,
     ExpandCalls, host, kubelet
<1>2. \A p \in Targets : p \notin Remounting \cup {"cleanup_detach"} \cup Unmounting
                                    \cup Mounting \cup Staging
  BY DEF Remounting, RemountCalls, Unmounting, Mounting, Staging, StageCalls
<1>3. \A p \in Targets : Lands(n, t, p)
  BY <1>2 DEF Lands
<1>4. CASE \/ PublishGet(n, t) \/ PublishMount(n, t)
           \/ UnpublishCheck(n, t) \/ UnpublishGet(n, t)
           \/ ExpandGet(n, t) \/ ExpandResize(n, t)
  <2>1. \E p \in Targets : Goto(n, t, p)
    BY <1>4 DEF PublishGet, PublishMount, UnpublishCheck, UnpublishGet,
       ExpandGet, ExpandResize
  <2>2. UNCHANGED cva
    BY <1>4 DEF PublishGet, PublishMount, UnpublishCheck, UnpublishGet,
       ExpandGet, ExpandResize, ReadCVA, cluster
  <2>3. \A m \in Nodes : "staging" \in dir[m] => "staging" \in dir'[m]
    <3>1. \/ dir' = dir
          \/ dir' = [dir EXCEPT ![n] = @ \cup {"target"}]
          \/ dir' = [dir EXCEPT ![n] = IF tgt[n] = <<>> THEN @ \ {"target"} ELSE @]
      BY <1>4 DEF PublishGet, PublishMount, UnpublishCheck, UnpublishGet,
         ExpandGet, ExpandResize, host
    <3>2. dir \in [Nodes -> SUBSET Paths]
      BY <1>0 DEF TypeOK
    <3> QED BY <3>1, <3>2
  <2>4. \A m \in Nodes : Recorded(m) => Recorded(m)'
    BY <2>2 DEF Recorded
  <2> HIDE DEF Targets
  <2> QED BY <1>1, <1>3, <2>1, <2>3, <2>4, CallsNotIdle, Control
<1>5. ASSUME NEW b \in BOOLEAN, NEW p \in Targets,
             UpdateCStorVolumeAttachmentCR(n, t, [cva[n] EXCEPT !.target = b], p),
             UNCHANGED dir
      PROVE  IInv'
  <2> DEFINE new == [cva[n] EXCEPT !.target = b]
  <2>1. new \in CVARecord
    BY <1>0, RecordTypes
  <2>2. stg[n] > 0 => OnRecord(new)
    BY <1>0 DEF NodeInv, StagingInv, Recorded, OnRecord, CVARecord
  <2> HIDE DEF new, Targets
  <2> QED BY <1>1, <1>2, <1>5, <2>1, <2>2, UpdateInv DEF new
<1>6. CASE PublishUpdate(n, t)
  BY <1>5, <1>6 DEF PublishUpdate, host
<1>7. CASE UnpublishUpdate(n, t)
  BY <1>5, <1>7 DEF UnpublishUpdate, host
<1> QED BY <1>4, <1>6, <1>7
        DEF NodePublishVolume, NodeUnpublishVolume, NodeExpandVolume

-----------------------------------------------------------------------------
(* Replies, the driver process, the kubelet and the rest *)

\* A reply that tells the kubelet of a successful Unstage, and the removal of
\* the directory after it, come with an unmounted staging path.
LEMMA ReturnInv ==
  ASSUME IInv, TypeOK', NEW n \in Nodes, NEW t \in Threads,
         removeVolumeFromTransitionList(n, t)
  PROVE  IInv'
<1>0. /\ TypeOK /\ NodeInv(n) /\ ThreadInv(n, t)
      /\ stg[n] \in Nat
      /\ dir \in [Nodes -> SUBSET Paths]
      /\ co \in [Nodes -> KubeletRecord]
  BY TypeParts DEF IInv, NodeInv, TypeOK, KubeletOK
<1>1. /\ pc[n][t] \in Ends
      /\ pc[n][t] # "idle"
      /\ TransitionVolList' = TransitionVolList \ {n}
      /\ Goto(n, t, "idle")
      /\ UNCHANGED <<cva, stg, up, mon>>
  BY CallsNotIdle DEF removeVolumeFromTransitionList
<1>2. /\ co' = co \/ co' = [co EXCEPT ![n] = Learn(co[n], pc[n][t])]
      /\ dir' = dir \/ dir' = [dir EXCEPT ![n] = @ \ TornDown(n, pc[n][t])]
  BY <1>0 DEF removeVolumeFromTransitionList
<1>3. ThreadInv(n, t)'
  <2>1. pc'[n][t] = "idle"
    BY <1>0, <1>1, GotoEffect
  <2> QED BY <2>1 DEF ThreadInv, Remounting, RemountCalls, Unmounting, Mounting,
          Staging, StageCalls
<1>4. StagingInv(n)'
  <2>1. SUFFICES ASSUME stg[n] > 0
                 PROVE  "staging" \in dir'[n] /\ co'[n].st # "unstaged"
    BY <1>0, <1>1 DEF NodeInv, StagingInv, Recorded
  <2>2. pc[n][t] # "unstage_ok"
    BY <1>0, <2>1 DEF ThreadInv, Unmounting
  <2>3. "staging" \in dir[n] /\ co[n].st # "unstaged"
    BY <1>0, <2>1 DEF NodeInv, StagingInv
  <2>4. "staging" \notin TornDown(n, pc[n][t])
    BY <2>2 DEF TornDown
  <2>5. Learn(co[n], pc[n][t]).st # "unstaged"
    <3>1. co[n] \in KubeletRecord
      BY <1>0
    <3> QED BY <2>2, <2>3, <3>1 DEF Learn, KubeletRecord
  <2> QED BY <1>0, <1>2, <2>3, <2>4, <2>5
<1>5. \A m \in Nodes \ {n} : /\ m \in TransitionVolList' <=> m \in TransitionVolList
                             /\ stg'[m] = stg[m]
                             /\ dir'[m] = dir[m]
                             /\ co'[m] = co[m]
  BY <1>0, <1>1, <1>2
<1> QED BY <1>1, <1>3, <1>4, <1>5, Local

\* When the process of n dies all its goroutines are idle.
LEMMA DeathInv ==
  ASSUME IInv, TypeOK', NEW n \in Nodes, DriverCrash(n) \/ Reboot(n)
  PROVE  IInv'
<1>0. TypeOK /\ \A m \in Nodes : NodeInv(m)
  BY DEF IInv
<1>1. /\ ProcessDies(n)
      /\ UNCHANGED <<cva, dir>>
      /\ stg' = stg \/ stg' = [stg EXCEPT ![n] = 0]
      /\ co' = co \/ co' = [co EXCEPT ![n] = Unsure(@)]
  BY DEF DriverCrash, Reboot, host
<1>2. /\ \A t \in Threads : pc'[n][t] = "idle"
      /\ \A m \in Nodes \ {n} : /\ pc'[m] = pc[m]
                                /\ arg'[m] = arg[m]
                                /\ mon'[m] = mon[m]
                                /\ m \in TransitionVolList' <=> m \in TransitionVolList
                                /\ m \in up' <=> m \in up
      /\ mon'[n] = "off"
      /\ n \notin TransitionVolList'
  BY <1>0, <1>1 DEF ProcessDies, TypeOK
<1>3. \A m \in Nodes : Recorded(m) => Recorded(m)'
  BY <1>1 DEF Recorded
<1>4. \A m \in Nodes : /\ stg'[m] = stg[m] \/ stg'[m] = 0
                       /\ m # n => co'[m] = co[m]
  BY <1>0, <1>1 DEF TypeOK
<1>5. ASSUME NEW m \in Nodes PROVE co'[m].st = co[m].st \/ co'[m].st # "unstaged"
  <2>1. co \in [Nodes -> KubeletRecord]
    BY <1>0, TypeParts DEF KubeletOK
  <2>2. CASE m = n
    <3>1. Unsure(co[n]).st = co[n].st \/ Unsure(co[n]).st # "unstaged"
      BY <2>1 DEF Unsure, KubeletRecord
    <3> QED BY <1>1, <2>1, <2>2, <3>1
  <2> QED BY <1>4, <1>5, <2>2
<1>6. NodeInv(n)'
  <2>1. ListInv(n)'
    BY <1>2 DEF ListInv
  <2>2. ASSUME NEW t \in Threads PROVE ThreadInv(n, t)'
    BY <1>2, <2>2 DEF ThreadInv, Remounting, RemountCalls, Unmounting, Mounting,
       Staging, StageCalls
  <2>3. StagingInv(n)'
    <3>1. stg'[n] \in Nat
      BY DEF TypeOK
    <3> QED BY <1>0, <1>1, <1>3, <1>4, <1>5, <3>1 DEF NodeInv, StagingInv
  <2> QED BY <1>2, <2>1, <2>2, <2>3 DEF NodeInv
<1>7. ASSUME NEW m \in Nodes \ {n} PROVE NodeInv(m)'
  BY <1>0, <1>1, <1>2, <1>3, <1>4, <1>5, Still
<1> QED BY <1>6, <1>7 DEF IInv

\* A driver that starts has no goroutine yet; its Cleanup finds the staging path
\* in the CVA of a volume that is mounted.
LEMMA StartInv ==
  ASSUME IInv, TypeOK', Remount = FALSE, NEW n \in Nodes, DriverStart(n)
  PROVE  IInv'
<1>0. TypeOK /\ (\A m \in Nodes : NodeInv(m)) /\ n \notin TransitionVolList
  BY DEF IInv, NodeInv, DriverStart
<1>1. /\ UNCHANGED <<cva, stg, dir, co>>
      /\ up' = up \cup {n}
      /\ mon' = [mon EXCEPT ![n] = "off"]
      /\ Cleanup(n)
  BY DEF DriverStart, host, kubelet
<1>2. \A m \in Nodes : Recorded(m) => Recorded(m)'
  BY <1>1 DEF Recorded
<1>3. \A m \in Nodes : mon'[m] = mon[m]
  BY <1>0, <1>1 DEF TypeOK, NodeInv
<1>4. CASE UNCHANGED <<TransitionVolList, pc, arg>>
  <2>1. ASSUME NEW m \in Nodes \ {n} PROVE NodeInv(m)'
    BY <1>0, <1>1, <1>2, <1>3, <1>4, Still
  <2>2. NodeInv(n)'
    <3>1. ListInv(n)' /\ StagingInv(n)'
      BY <1>0, <1>1, <1>4 DEF NodeInv, ListInv, StagingInv, Recorded
    <3>2. ASSUME NEW t \in Threads PROVE ThreadInv(n, t)'
      BY <1>0, <1>1, <1>2, <1>4 DEF NodeInv, ThreadInv
    <3> QED BY <1>0, <1>1, <1>3, <1>4, <3>1, <3>2 DEF NodeInv
  <2> QED BY <2>1, <2>2 DEF IInv
<1>5. CASE cva[n].exists /\ cva[n].deleting
  <2>1. PICK t \in Threads :
          /\ TransitionVolList' = TransitionVolList \cup {n}
          /\ GotoWith(n, t, "cleanup_detach",
                      IF cva[n].staging THEN {"staging"} ELSE {})
    BY <1>1, <1>5 DEF Cleanup, Idle
  <2>2. /\ pc'[n][t] = "cleanup_detach"
        /\ \A u \in Threads \ {t} : pc'[n][u] = pc[n][u]
        /\ \A m \in Nodes \ {n} : pc'[m] = pc[m] /\ arg'[m] = arg[m]
    BY <1>0, <2>1, GotoEffect
  <2>3. arg'[n][t] = IF cva[n].staging THEN {"staging"} ELSE {}
    BY <1>0, <2>1 DEF GotoWith, TypeOK
  <2>4. StagingInv(n)'
    BY <1>0, <1>1, <1>2 DEF NodeInv, StagingInv
  <2>5. ~cva[n].staging => stg'[n] = 0
    <3>1. stg[n] \in Nat
      BY <1>0 DEF TypeOK
    <3> QED BY <1>0, <1>1, <3>1 DEF NodeInv, StagingInv, Recorded
  <2>6. ThreadInv(n, t)'
    BY <2>2, <2>3, <2>5 DEF ThreadInv, Remounting, RemountCalls, Unmounting,
       Mounting, Staging, StageCalls
  <2>7. NodeInv(n)'
    <3>1. n \in up' /\ n \in TransitionVolList' /\ mon'[n] = "off"
      BY <1>0, <1>1, <1>3, <2>1 DEF NodeInv
    <3> QED BY <1>0, <2>2, <2>4, <2>6, <3>1, Started
  <2>8. ASSUME NEW m \in Nodes \ {n} PROVE NodeInv(m)'
    BY <1>0, <1>1, <1>2, <1>3, <2>1, <2>2, Still
  <2> QED BY <2>7, <2>8 DEF IInv
<1> QED BY <1>1, <1>4, <1>5 DEF Cleanup

\* Where the kubelet's calls start.
Entries == {"stage_list", "publish_get", "expand_get", "unpublish_check",
            "unstage_get"}

\* A CSI call is refused, or served by the only goroutine.
LEMMA CallInv ==
  ASSUME IInv, TypeOK', NEW n \in Nodes, KubeletCall(n) \/ CallExpand(n)
  PROVE  IInv'
<1>0. TypeOK /\ (\A m \in Nodes : NodeInv(m)) /\ co \in [Nodes -> KubeletRecord]
  BY TypeParts DEF IInv, KubeletOK
<1>1. PICK p \in Entries, k \in KubeletRecord :
        /\ Call(n, p, k)
        /\ k.st = co[n].st \/ k.st # "unstaged"
        /\ p = "stage_list" => k.st # "unstaged"
  <2>1. co[n] \in KubeletRecord
    BY <1>0
  <2>2. CASE CallStage(n)
    BY <2>1, <2>2 DEF CallStage, Entries, KubeletRecord
  <2>3. CASE CallPublish(n)
    BY <2>1, <2>3 DEF CallPublish, Entries, KubeletRecord
  <2>4. CASE CallUnpublish(n)
    BY <2>1, <2>4 DEF CallUnpublish, Entries, KubeletRecord
  <2>5. CASE CallUnstage(n)
    BY <2>1, <2>5 DEF CallUnstage, Entries, KubeletRecord
  <2>6. CASE CallExpand(n)
    BY <2>1, <2>6 DEF CallExpand, Entries
  <2> QED BY <2>2, <2>3, <2>4, <2>5, <2>6 DEF KubeletCall
<1>2. /\ n \in up
      /\ co' = [co EXCEPT ![n] = k]
      /\ UNCHANGED <<cva, stg, up, mon>>
  BY <1>1 DEF Call, cluster
<1>3. \A m \in Nodes : "staging" \in dir[m] => "staging" \in dir'[m]
  <2>1. dir' = dir \/ dir' = [dir EXCEPT ![n] = @ \cup {"staging"}]
    BY DEF KubeletCall, CallStage, CallPublish, CallUnpublish, CallUnstage,
       CallExpand
  <2>2. dir \in [Nodes -> SUBSET Paths]
    BY <1>0 DEF TypeOK
  <2> QED BY <2>1, <2>2
<1>4. \A m \in Nodes : Recorded(m) => Recorded(m)'
  BY <1>2 DEF Recorded
<1>5. \A m \in Nodes : /\ m # n => co'[m] = co[m]
                       /\ co'[m].st = co[m].st \/ co'[m].st # "unstaged"
                       /\ co'[n] = k
  BY <1>0, <1>1, <1>2
<1>6. PICK t \in Threads : addVolumeToTransitionList(n, t, p)
  BY <1>1 DEF Call, Idle
<1>7. CASE UNCHANGED <<TransitionVolList, pc, arg>>
  <2>1. ASSUME NEW m \in Nodes PROVE NodeInv(m)'
    BY <1>0, <1>2, <1>3, <1>4, <1>5, <1>7, Still
  <2> QED BY <2>1 DEF IInv
<1>8. CASE /\ n \notin TransitionVolList
           /\ TransitionVolList' = TransitionVolList \cup {n}
           /\ Goto(n, t, p)
  <2>1. /\ pc'[n][t] = p
        /\ \A u \in Threads \ {t} : pc'[n][u] = pc[n][u]
        /\ \A m \in Nodes \ {n} : pc'[m] = pc[m] /\ arg'[m] = arg[m]
    BY <1>0, <1>8, GotoEffect
  <2>2. ASSUME NEW m \in Nodes \ {n} PROVE NodeInv(m)'
    BY <1>0, <1>2, <1>3, <1>4, <1>5, <1>8, <2>1, Still
  <2>3. StagingInv(n)'
    BY <1>0, <1>2, <1>3, <1>4, <1>5 DEF NodeInv, StagingInv
  <2>4. ThreadInv(n, t)'
    BY <1>1, <1>5, <2>1 DEF ThreadInv, Entries, Remounting, RemountCalls,
       Unmounting, Mounting, Staging, StageCalls
  <2>5. NodeInv(n)'
    <3>1. n \in up' /\ n \in TransitionVolList' /\ mon'[n] = "off"
      BY <1>0, <1>2, <1>8 DEF NodeInv
    <3> QED BY <1>0, <1>8, <2>1, <2>3, <2>4, <3>1, Started
  <2> QED BY <2>2, <2>5 DEF IInv
<1> QED BY <1>6, <1>7, <1>8 DEF addVolumeToTransitionList

\* No goroutine moves: mounts may go, the kubelet may become unsure, objects may
\* be collected.
LEMMA EnvironmentInv ==
  ASSUME IInv, TypeOK',
         \/ \E n \in Nodes :
              \/ CallTimeout(n) \/ KubeletRestart(n) \/ SchedulePod(n)
              \/ DeletePod(n) \/ CollectGarbage(n) \/ NodeNotReady(n)
              \/ NodeReady(n) \/ MountDamaged(n) \/ SessionLost(n)
         \/ VolumeOffline \/ VolumeOnline
  PROVE  IInv'
<1>0. TypeOK /\ (\A m \in Nodes : NodeInv(m)) /\ co \in [Nodes -> KubeletRecord]
  BY TypeParts DEF IInv, KubeletOK
<1>1. UNCHANGED <<dir, up, TransitionVolList, pc, arg, mon>>
  BY DEF CallTimeout, KubeletRestart, SchedulePod, DeletePod, CollectGarbage,
     NodeNotReady, NodeReady, MountDamaged, SessionLost, VolumeOffline,
     VolumeOnline, host
<1>2. ASSUME NEW m \in Nodes PROVE Recorded(m) => Recorded(m)'
  <2>1. CASE \E n \in Nodes : CollectGarbage(n)
    <3>1. PICK n \in Nodes : CollectGarbage(n)
      BY <2>1
    <3>2. Recorded(n) => OnRecord(Collected(cva[n]))
      BY <1>0, RecordSurvives DEF Recorded, OnRecord, TypeOK
    <3> QED BY <1>0, <3>1, <3>2, WriteSurvives DEF CollectGarbage
  <2>2. CASE UNCHANGED cva
    BY <2>2 DEF Recorded
  <2> QED BY <2>1, <2>2 DEF CallTimeout, KubeletRestart, SchedulePod, DeletePod,
          NodeNotReady, NodeReady, MountDamaged, SessionLost, VolumeOffline,
          VolumeOnline, cluster
<1>3. \A m \in Nodes : stg'[m] = stg[m] \/ stg'[m] = 0
  <2>1. stg' = stg \/ \E n \in Nodes : stg' = [stg EXCEPT ![n] = 0]
    BY DEF CallTimeout, KubeletRestart, SchedulePod, DeletePod, CollectGarbage,
       NodeNotReady, NodeReady, MountDamaged, SessionLost, VolumeOffline,
       VolumeOnline, host
  <2>2. stg \in [Nodes -> Nat]
    BY <1>0 DEF TypeOK
  <2> QED BY <2>1, <2>2
<1>4. ASSUME NEW m \in Nodes PROVE co'[m].st = co[m].st \/ co'[m].st # "unstaged"
  <2>1. \/ co' = co
        \/ \E n \in Nodes : \/ co' = [co EXCEPT ![n] = Unsure(@)]
                            \/ co' = [co EXCEPT ![n].want = TRUE]
                            \/ co' = [co EXCEPT ![n].want = FALSE]
    BY DEF CallTimeout, KubeletRestart, SchedulePod, DeletePod, CollectGarbage,
       NodeNotReady, NodeReady, MountDamaged, SessionLost, VolumeOffline,
       VolumeOnline, kubelet
  <2>2. ASSUME NEW n \in Nodes, co' = [co EXCEPT ![n] = Unsure(@)]
        PROVE  co'[m].st = co[m].st \/ co'[m].st # "unstaged"
    BY <1>0, <2>2 DEF Unsure, KubeletRecord
  <2>3. ASSUME NEW n \in Nodes, NEW b \in BOOLEAN,
               co' = [co EXCEPT ![n].want = b]
        PROVE  co'[m].st = co[m].st
    BY <1>0, <2>3 DEF KubeletRecord
  <2> QED BY <2>1, <2>2, <2>3
<1>5. ASSUME NEW m \in Nodes PROVE NodeInv(m)'
  BY <1>0, <1>1, <1>2, <1>3, <1>4, Still
<1> QED BY <1>5 DEF IInv

-----------------------------------------------------------------------------

\* The initial state satisfies the invariant.
LEMMA InvInit ==
  ASSUME Remount = FALSE, Init
  PROVE  IInv
<1>1. TypeOK
  BY TypeInit
<1>2. ASSUME NEW n \in Nodes PROVE NodeInv(n)
  BY <1>2 DEF Init, NodeInv, ListInv, ThreadInv, StagingInv, Remounting,
     RemountCalls, Unmounting, Mounting, Staging, StageCalls
<1> QED BY <1>1, <1>2 DEF IInv

\* Every step keeps the invariant.
LEMMA InvStep ==
  ASSUME Remount = FALSE, IInv, [Next]_allvars
  PROVE  IInv'
<1>0. TypeOK' /\ \A n \in Nodes : NodeInv(n)
  BY TypeStep DEF IInv
<1>1. CASE UNCHANGED allvars
  <2>1. ASSUME NEW n \in Nodes PROVE NodeInv(n)'
    BY <1>0, <1>1, Still DEF allvars, vars, Recorded
  <2> QED BY <1>0, <2>1 DEF IInv
<1>2. ASSUME NEW n \in Nodes, NEW t \in Threads, Handler(n, t) \/ CallFails(n, t)
      PROVE  IInv'
  <2>1. ~RemountVolume(n, t)
    BY <1>0 DEF NodeInv, ThreadInv, Remounting, RemountCalls, RemountVolume,
       RemountReady, RemountUnmountStaging, RemountUnmountTarget,
       RemountMountStaging, RemountMountTarget, RemountRelease, At
  <2> QED BY <1>0, <1>2, <2>1, StageInv, UnstageInv, PublishInv, CleanupInv,
          ReturnInv, FailureInv DEF Handler
<1>3. ASSUME NEW n \in Nodes, Monitor(n)
      PROVE  IInv'
  BY <1>0, <1>3 DEF NodeInv, Monitor, MonitorTick, MonitorCleanup
<1>4. ASSUME NEW n \in Nodes,
             \/ DriverStart(n) \/ KubeletCall(n) \/ CallExpand(n)
             \/ DriverCrash(n) \/ Reboot(n)
      PROVE  IInv'
  BY <1>0, <1>4, StartInv, CallInv, DeathInv
<1>5. CASE \/ \E n \in Nodes :
                \/ CallTimeout(n) \/ KubeletRestart(n) \/ SchedulePod(n)
                \/ DeletePod(n) \/ CollectGarbage(n) \/ NodeNotReady(n)
                \/ NodeReady(n) \/ MountDamaged(n) \/ SessionLost(n)
           \/ VolumeOffline \/ VolumeOnline
  BY <1>0, <1>5, EnvironmentInv
<1> QED BY <1>1, <1>2, <1>3, <1>4, <1>5 DEF Next, Step

\* Without REMOUNT, IInv holds in every reachable state.
THEOREM InductiveInvariant ==
  ASSUME Remount = FALSE
  PROVE  Spec => []IInv
<1>1. Init => IInv
  BY InvInit
<1>2. IInv /\ [Next]_allvars => IInv'
  BY InvStep
<1> QED BY <1>1, <1>2, PTL DEF Spec

\* TransitionVolList is a lock: without REMOUNT no two goroutines of a driver
\* (CSI handlers and the startup Cleanup) work on the volume at once, through
\* timeouts, retries, crashes and reboots.
THEOREM Exclusion ==
  ASSUME Remount = FALSE
  PROVE  Spec => []TransitionExclusive
<1>1. IInv => TransitionExclusive
  <2>1. ASSUME NEW n \in Nodes, ListInv(n), NEW t \in Threads \ Idle(n)
        PROVE  n \in TransitionVolList /\ Idle(n) = Threads \ {t}
    BY <2>1 DEF Idle, ListInv
  <2> QED BY <2>1 DEF IInv, NodeInv, TransitionExclusive
<1> QED BY <1>1, InductiveInvariant, PTL

\* Without REMOUNT a volume mounted on a staging path is recorded in the node's
\* CVA, under the node's finalizer, whatever other nodes' Stage calls delete.
THEOREM MountsOnRecord ==
  ASSUME Remount = FALSE
  PROVE  Spec => []MountRecorded
<1>1. IInv => MountRecorded
  BY DEF IInv, NodeInv, StagingInv, Recorded, MountRecorded
<1> QED BY <1>1, InductiveInvariant, PTL

\* Without REMOUNT a successful Unstage is final: the staging path stays
\* unmounted until the next Stage.
THEOREM UnstageFinal ==
  ASSUME Remount = FALSE
  PROVE  Spec => []UnstagedNotMounted
<1>1. IInv => UnstagedNotMounted
  BY DEF IInv, TypeOK, NodeInv, StagingInv, UnstagedNotMounted
<1> QED BY <1>1, InductiveInvariant, PTL

\* Without REMOUNT neither Unstage nor Cleanup ever calls RemoveAll on a staging
\* path that has the attached volume mounted on it.
THEOREM RemoveAllSafe ==
  ASSUME Remount = FALSE
  PROVE  Spec => []RemoveAllOnlyUnmounted
<1>1. IInv => RemoveAllOnlyUnmounted
  BY DEF IInv, NodeInv, ThreadInv, Unmounting, RemoveAllOnlyUnmounted
<1> QED BY <1>1, InductiveInvariant, PTL
=============================================================================
