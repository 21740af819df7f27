------------------------------ MODULE NodeMoves ------------------------------
(***************************************************************************)
(* What a step of a goroutine can do: where it can get to and from where,  *)
(* and what happens to the CVAs, the mounts and the sessions of the nodes. *)
(* The invariants of NodeHandoverProofs are proved from these facts, not   *)
(* action by action.                                                       *)
(***************************************************************************)
EXTENDS NodeServiceProofs

\* The goroutine t of n, and no other, goes on or fails.
Goes(n, t) == Handler(n, t) \/ CallFails(n, t)

\* A location q of one of these handlers is only reached from a location p of it.
SameHandler(p, q) ==
  /\ q \in Staging => p \in Staging
  /\ q \in Unstaging => p \in Unstaging
  /\ q \in Publishing => p \in Publishing
  /\ q \in Unpublishing => p \in Unpublishing
  /\ q \in Cleaning => p \in Cleaning

\* Only the goroutine t of n moves, and it stays in its handler.
Moves(n, t) ==
  /\ pc[n][t] # "idle"
  /\ \A u \in Threads \ {t} : pc'[n][u] = pc[n][u]
  /\ \A m \in Nodes \ {n} : pc'[m] = pc[m] /\ arg'[m] = arg[m]
  /\ SameHandler(pc[n][t], pc'[n][t])

-----------------------------------------------------------------------------
(* Control *)

\* The handlers have no location in common, and none is idle.
LEMMA Disjoint ==
  /\ \A p \in Staging : p \notin Unstaging \cup Publishing \cup Unpublishing \cup Cleaning
  /\ \A p \in Unstaging : p \notin Publishing \cup Unpublishing \cup Cleaning
  /\ \A p \in Publishing : p \notin Unpublishing \cup Cleaning
  /\ \A p \in Unpublishing : p \notin Cleaning
  /\ "idle" \notin Staging \cup Unstaging \cup Publishing \cup Unpublishing \cup Cleaning
  BY DEF Staging, StageCalls, Unstaging, UnstageCalls, Publishing, PublishCalls,
     Unpublishing, UnpublishCalls, Cleaning, CleanupCalls

\* A failing call stays in its handler.
LEMMA ErrorStays ==
  /\ \A p \in StageCalls : OnError(p) \in Staging
  /\ \A p \in UnstageCalls : OnError(p) \in Unstaging
  /\ \A p \in PublishCalls : OnError(p) \in Publishing
  /\ \A p \in UnpublishCalls : OnError(p) \in Unpublishing
  /\ \A p \in ExpandCalls : OnError(p) = "expand_err"
  /\ \A p \in CleanupCalls : OnError(p) \in {"idle", "cleanup_release"}
<1> USE DEF OnError, StageCalls, UnstageCalls, PublishCalls, UnpublishCalls,
            ExpandCalls, CleanupCalls
<1>1. \A p \in StageCalls : OnError(p) \in Staging
  BY DEF Staging
<1>2. \A p \in UnstageCalls : OnError(p) \in Unstaging
  BY DEF Unstaging
<1>3. \A p \in PublishCalls : OnError(p) \in Publishing
  BY DEF Publishing
<1>4. \A p \in UnpublishCalls : OnError(p) \in Unpublishing
  BY DEF Unpublishing
<1>5. \A p \in ExpandCalls : OnError(p) = "expand_err"
  OBVIOUS
<1>6. \A p \in CleanupCalls : OnError(p) \in {"idle", "cleanup_release"}
  OBVIOUS
<1> QED BY <1>1, <1>2, <1>3, <1>4, <1>5, <1>6

\* A step of t that jumps from one location of a handler to another.
LEMMA JumpMoves ==
  ASSUME TypeOK, NEW n \in Nodes, NEW t \in Threads, NEW p, NEW a,
         GotoWith(n, t, p, a) \/ Goto(n, t, p), pc[n][t] # "idle",
         SameHandler(pc[n][t], p)
  PROVE  Moves(n, t) /\ pc'[n][t] = p
<1>1. /\ pc'[n][t] = p
      /\ \A u \in Threads \ {t} : pc'[n][u] = pc[n][u]
      /\ \A m \in Nodes \ {n} : pc'[m] = pc[m] /\ arg'[m] = arg[m]
  BY GotoEffect
<1> QED BY <1>1 DEF Moves

\* Where a jump leads.
LEMMA Arrives ==
  ASSUME TypeOK, NEW n \in Nodes, NEW t \in Threads
  PROVE  /\ \A p : Goto(n, t, p) => pc'[n][t] = p
         /\ \A p, a : GotoWith(n, t, p, a) => pc'[n][t] = p /\ arg'[n][t] = a
  BY DEF Goto, GotoWith, TypeOK

\* A reply, lost or not, is a jump.
LEMMA ReplyJumps ==
  ASSUME NEW n \in Nodes, NEW t \in Threads, NEW p, NEW a, Reply(n, t, p, a)
  PROVE  \/ GotoWith(n, t, p, a)
         \/ Goto(n, t, OnError(pc[n][t]))
  BY DEF Reply

\* An update is refused, or changes the node's CVA.
LEMMA UpdateJumps ==
  ASSUME NEW n \in Nodes, NEW t \in Threads, NEW new, NEW p,
         UpdateCStorVolumeAttachmentCR(n, t, new, p)
  PROVE  /\ GotoWith(n, t, p, {}) \/ Goto(n, t, OnError(pc[n][t]))
         /\ \/ /\ MayUpdate(cva[n], new)
               /\ cva' = [cva EXCEPT ![n] = Settle(new)]
            \/ /\ UNCHANGED cva
               /\ Goto(n, t, OnError(pc[n][t]))
         /\ UNCHANGED <<ready, online>>
  BY DEF UpdateCStorVolumeAttachmentCR, Reply, WriteCVA

\* Where NodeStageVolume goes.
LEMMA StageJumps ==
  ASSUME NEW n \in Nodes, NEW t \in Threads, NodeStageVolume(n, t)
  PROVE  /\ pc[n][t] \in StageCalls
         /\ \E p \in Staging : \E a : GotoWith(n, t, p, a) \/ Goto(n, t, p)
         /\ UNCHANGED <<ready, kubelet>>
<1> USE ErrorStays, ReplyJumps, UpdateJumps
<1>0. {"stage_nodes", "stage_dellist", "stage_del", "stage_create", "stage_get",
       "stage_wait", "stage_verify", "stage_update", "stage_attach", "stage_mkdir",
       "stage_mount", "stage_undo", "stage_ok", "stage_err"} \subseteq Staging
  BY DEF Staging, StageCalls
<1>1. pc[n][t] \in StageCalls
  BY DEF NodeStageVolume, StageList, StageNodes, StageDelList, StageDel,
     StageCreate, StageGet, StageWait, StageVerify, StageUpdate, StageAttach,
     StageMkdir, StageMount, StageUndo, At, StageCalls
<1>2. CASE \/ StageList(n, t) \/ StageNodes(n, t) \/ StageDelList(n, t)
           \/ StageGet(n, t) \/ StageWait(n, t)
  BY <1>0, <1>1, <1>2 DEF StageList, StageNodes, StageDelList, StageGet, StageWait,
     ReadCVA, cluster
<1>3. CASE StageDel(n, t)
  BY <1>0, <1>1, <1>3 DEF StageDel
<1>4. CASE StageCreate(n, t)
  BY <1>0, <1>1, <1>4 DEF StageCreate
<1>5. CASE StageUpdate(n, t)
  BY <1>0, <1>1, <1>5 DEF StageUpdate
<1>6. CASE StageUndo(n, t)
  BY <1>0, <1>1, <1>6 DEF StageUndo
<1>7. CASE \/ StageVerify(n, t) \/ StageAttach(n, t) \/ StageMkdir(n, t)
           \/ StageMount(n, t)
  BY <1>0, <1>1, <1>7 DEF StageVerify, StageAttach, StageMkdir, StageMount, cluster
<1> QED BY <1>2, <1>3, <1>4, <1>5, <1>6, <1>7 DEF NodeStageVolume

\* Where NodeUnstageVolume goes.
LEMMA UnstageJumps ==
  ASSUME NEW n \in Nodes, NEW t \in Threads, NodeUnstageVolume(n, t)
  PROVE  /\ pc[n][t] \in UnstageCalls
         /\ \E p \in Unstaging : \E a : GotoWith(n, t, p, a) \/ Goto(n, t, p)
         /\ UNCHANGED <<ready, kubelet>>
<1> USE ErrorStays, ReplyJumps, UpdateJumps
<1>0. {"unstage_detach", "unstage_logout", "unstage_rmdir", "unstage_update",
       "unstage_delete", "unstage_ok", "unstage_err"} \subseteq Unstaging
  BY DEF Unstaging, UnstageCalls
<1>1. pc[n][t] \in UnstageCalls
  BY DEF NodeUnstageVolume, UnstageGet, UnstageDetach, UnstageLogout,
     UnstageRemove, UnstageUpdate, UnstageDelete, At, UnstageCalls
<1>2. CASE UnstageGet(n, t)
  BY <1>0, <1>1, <1>2 DEF UnstageGet, ReadCVA, cluster
<1>3. CASE UnstageDetach(n, t) \/ UnstageLogout(n, t) \/ UnstageRemove(n, t)
  BY <1>0, <1>1, <1>3 DEF UnstageDetach, UnstageLogout, UnstageRemove,
     DetachUnmount, DetachLogout, DetachRemove, cluster
<1>4. CASE UnstageUpdate(n, t)
  BY <1>0, <1>1, <1>4 DEF UnstageUpdate
<1>5. CASE UnstageDelete(n, t)
  BY <1>0, <1>1, <1>5 DEF UnstageDelete
<1> QED BY <1>2, <1>3, <1>4, <1>5 DEF NodeUnstageVolume

\* Where Publish, Unpublish and Expand go.
LEMMA PublishJumps ==
  ASSUME NEW n \in Nodes, NEW t \in Threads
  PROVE  /\ NodePublishVolume(n, t) =>
              /\ pc[n][t] \in PublishCalls
              /\ \E p \in Publishing : \E a : GotoWith(n, t, p, a) \/ Goto(n, t, p)
              /\ UNCHANGED <<ready, kubelet>>
         /\ NodeUnpublishVolume(n, t) =>
              /\ pc[n][t] \in UnpublishCalls
              /\ \E p \in Unpublishing : \E a : GotoWith(n, t, p, a) \/ Goto(n, t, p)
              /\ UNCHANGED <<ready, kubelet>>
         /\ NodeExpandVolume(n, t) =>
              /\ pc[n][t] \in ExpandCalls
              /\ \E p \in {"expand_resize", "expand_ok", "expand_err"} : Goto(n, t, p)
              /\ UNCHANGED <<ready, kubelet>>
<1> USE ErrorStays, ReplyJumps, UpdateJumps
<1>1. /\ {"publish_update", "publish_mount", "publish_ok", "publish_err"}
           \subseteq Publishing
      /\ {"unpublish_get", "unpublish_update", "unpublish_ok"}
           \subseteq Unpublishing
  BY DEF Publishing, PublishCalls, Unpublishing, UnpublishCalls
<1>2. /\ NodePublishVolume(n, t) => pc[n][t] \in PublishCalls
      /\ NodeUnpublishVolume(n, t) => pc[n][t] \in UnpublishCalls
      /\ NodeExpandVolume(n, t) => pc[n][t] \in ExpandCalls
  BY DEF NodePublishVolume, NodeUnpublishVolume, NodeExpandVolume, PublishGet,
     PublishUpdate, PublishMount, UnpublishCheck, UnpublishGet, UnpublishUpdate,
     ExpandGet, ExpandResize, At, PublishCalls, UnpublishCalls, ExpandCalls
<1>3. ASSUME NodePublishVolume(n, t)
      PROVE  /\ \E p \in Publishing : \E a : GotoWith(n, t, p, a) \/ Goto(n, t, p)
             /\ UNCHANGED <<ready, kubelet>>
  <2>1. CASE PublishUpdate(n, t)
    BY <1>1, <1>2, <1>3, <2>1 DEF PublishUpdate
  <2>2. CASE PublishGet(n, t) \/ PublishMount(n, t)
    BY <1>1, <2>2 DEF PublishGet, PublishMount, ReadCVA, cluster
  <2> QED BY <1>3, <2>1, <2>2 DEF NodePublishVolume
<1>4. ASSUME NodeUnpublishVolume(n, t)
      PROVE  /\ \E p \in Unpublishing : \E a : GotoWith(n, t, p, a) \/ Goto(n, t, p)
             /\ UNCHANGED <<ready, kubelet>>
  <2>1. CASE UnpublishUpdate(n, t)
    BY <1>1, <1>2, <1>4, <2>1 DEF UnpublishUpdate
  <2>2. CASE UnpublishCheck(n, t) \/ UnpublishGet(n, t)
    BY <1>1, <2>2 DEF UnpublishCheck, UnpublishGet, ReadCVA, cluster
  <2> QED BY <1>4, <2>1, <2>2 DEF NodeUnpublishVolume
<1>5. ASSUME NodeExpandVolume(n, t)
      PROVE  /\ \E p \in {"expand_resize", "expand_ok", "expand_err"} : Goto(n, t, p)
             /\ UNCHANGED <<ready, kubelet>>
  BY <1>5 DEF NodeExpandVolume, ExpandGet, ExpandResize, cluster
<1> QED BY <1>2, <1>3, <1>4, <1>5

\* Where Cleanup goes.
LEMMA CleanupJumps ==
  ASSUME NEW n \in Nodes, NEW t \in Threads, CleanupVolume(n, t)
  PROVE  /\ pc[n][t] \in Cleaning
         /\ \E p \in (Cleaning \ {"cleanup_detach"}) \cup {"idle"} :
              GotoWith(n, t, p, {}) \/ Goto(n, t, p)
         /\ UNCHANGED <<ready, kubelet>>
<1> USE ErrorStays, UpdateJumps
<1>0. {"cleanup_logout", "cleanup_rmdir", "cleanup_update", "cleanup_release"}
        \subseteq Cleaning \ {"cleanup_detach"}
  BY DEF Cleaning, CleanupCalls
<1>1. /\ pc[n][t] \in Cleaning
      /\ pc[n][t] \in CleanupCalls \/ CleanupRelease(n, t)
  BY DEF CleanupVolume, CleanupDetach, CleanupLogout, CleanupRemove,
     CleanupUpdate, CleanupRelease, At, Cleaning, CleanupCalls
<1>2. CASE CleanupDetach(n, t) \/ CleanupLogout(n, t) \/ CleanupRemove(n, t)
  <2>1. pc[n][t] \in CleanupCalls
    BY <1>2 DEF CleanupDetach, CleanupLogout, CleanupRemove, At, CleanupCalls
  <2> QED BY <1>0, <1>1, <1>2, <2>1 DEF CleanupDetach, CleanupLogout,
          CleanupRemove, DetachUnmount, DetachLogout, DetachRemove, Reply, cluster
<1>3. CASE CleanupUpdate(n, t)
  <2>1. pc[n][t] \in CleanupCalls
    BY <1>3 DEF CleanupUpdate, At, CleanupCalls
  <2> QED BY <1>0, <1>1, <1>3, <2>1 DEF CleanupUpdate
<1>4. CASE CleanupRelease(n, t)
  BY <1>1, <1>4 DEF CleanupRelease
<1> QED BY <1>2, <1>3, <1>4 DEF CleanupVolume

\* Whatever a goroutine does, it stays in its handler, and only the end of a
\* handler changes what the kubelet knows.
LEMMA GoesMoves ==
  ASSUME IInv, NEW n \in Nodes, NEW t \in Threads, Goes(n, t)
  PROVE  /\ Moves(n, t)
         /\ UNCHANGED ready
         /\ \/ UNCHANGED kubelet /\ pc[n][t] \notin Ends
            \/ removeVolumeFromTransitionList(n, t) /\ pc'[n][t] = "idle"
<1>0. TypeOK /\ pc[n][t] \notin Remounting
  BY DEF IInv, NodeInv, ThreadInv
<1>1. /\ StageCalls \subseteq Staging /\ UnstageCalls \subseteq Unstaging
      /\ PublishCalls \subseteq Publishing /\ UnpublishCalls \subseteq Unpublishing
      /\ CleanupCalls \cup {"cleanup_release"} \subseteq Cleaning
      /\ \A p \in ExpandCalls \cup {"idle", "expand_resize", "expand_ok", "expand_err"} :
           p \notin Staging \cup Unstaging \cup Publishing \cup Unpublishing \cup Cleaning
      /\ "idle" \notin ExpandCalls
  BY DEF Staging, StageCalls, Unstaging, UnstageCalls, Publishing, PublishCalls,
     Unpublishing, UnpublishCalls, Cleaning, CleanupCalls, ExpandCalls
<1>2. \A p \in Calls \cup Cleaning : p \notin Ends
  BY DEF Calls, StageCalls, UnstageCalls, PublishCalls, UnpublishCalls,
     ExpandCalls, Cleaning, CleanupCalls, RemountCalls, Ends
<1>3. CASE NodeStageVolume(n, t)
  BY <1>0, <1>1, <1>2, <1>3, StageJumps, JumpMoves, Disjoint DEF Calls, SameHandler
<1>4. CASE NodeUnstageVolume(n, t)
  BY <1>0, <1>1, <1>2, <1>4, UnstageJumps, JumpMoves, Disjoint DEF Calls, SameHandler
<1>5. CASE NodePublishVolume(n, t)
  BY <1>0, <1>1, <1>2, <1>5, PublishJumps, JumpMoves, Disjoint DEF Calls, SameHandler
<1>6. CASE NodeUnpublishVolume(n, t)
  BY <1>0, <1>1, <1>2, <1>6, PublishJumps, JumpMoves, Disjoint DEF Calls, SameHandler
<1>7. CASE NodeExpandVolume(n, t)
  BY <1>0, <1>1, <1>2, <1>7, PublishJumps, JumpMoves DEF Calls, SameHandler
<1>8. CASE CleanupVolume(n, t)
  BY <1>0, <1>1, <1>2, <1>8, CleanupJumps, JumpMoves, Disjoint DEF SameHandler
<1>9. CASE CallFails(n, t)
  <2>1. /\ pc[n][t] \in Calls
        /\ GotoWith(n, t, OnError(pc[n][t]), arg[n][t])
        /\ UNCHANGED <<ready, kubelet>>
    BY <1>9 DEF CallFails, cluster
  <2>2. pc[n][t] \notin RemountCalls
    BY <1>0 DEF Remounting
  <2>3. SameHandler(pc[n][t], OnError(pc[n][t]))
    BY <1>1, <2>1, <2>2, ErrorStays, Disjoint DEF Calls, SameHandler
  <2> QED BY <1>0, <1>2, <2>1, <2>3, CallsNotIdle, JumpMoves
<1>10. CASE removeVolumeFromTransitionList(n, t)
  <2>1. /\ pc[n][t] # "idle"
        /\ Goto(n, t, "idle")
        /\ UNCHANGED ready
    BY <1>10, CallsNotIdle DEF removeVolumeFromTransitionList
  <2> QED BY <1>0, <1>1, <1>10, <2>1, JumpMoves DEF SameHandler
<1>11. ~RemountVolume(n, t)
  BY <1>0 DEF Remounting, RemountCalls, RemountVolume, RemountReady,
     RemountUnmountStaging, RemountUnmountTarget, RemountMountStaging,
     RemountMountTarget, RemountRelease, At
<1> QED BY <1>3, <1>4, <1>5, <1>6, <1>7, <1>8, <1>9, <1>10, <1>11
        DEF Goes, Handler

-----------------------------------------------------------------------------
(* The CVAs *)

\* What a write by t of n may do to a CVA c of node m that becomes d: the node's
\* finalizer comes with the record of a Stage, the object from a Stage, its deletion
\* from a Stage or from the node's Unstage, and the record ends when the node's own
\* goroutine gives up the volume.
Written(n, t, m, c, d) ==
  /\ "node" \in d.finalizers =>
       \/ "node" \in c.finalizers /\ d.exists = c.exists /\ d.staging = c.staging
       \/ m = n /\ pc[n][t] = "stage_update" /\ OnRecord(d)
  /\ d.exists => c.exists \/ (m = n /\ pc[n][t] = "stage_create")
  /\ d.deleting => \/ c.deleting
                   \/ c.exists /\ pc[n][t] = "stage_del"
                   \/ m = n /\ pc[n][t] = "unstage_delete"
  /\ OnRecord(c) =>
       \/ OnRecord(d)
       \/ m = n /\ pc[n][t] \in {"stage_undo", "unstage_update", "cleanup_update"}

\* A CVA that is not written.
LEMMA UnwrittenCVA ==
  ASSUME NEW n, NEW t, NEW m, NEW c
  PROVE  Written(n, t, m, c, c)
  BY DEF Written

\* Deleting a CVA, its own or another node's.
LEMMA DeletedCVA ==
  ASSUME NEW n, NEW t, NEW m, NEW c \in CVARecord, c.exists,
         pc[n][t] = "stage_del" \/ (m = n /\ pc[n][t] = "unstage_delete")
  PROVE  Written(n, t, m, c, Deleted(c))
  BY DEF CVARecord, Deleted, Written, OnRecord

\* An accepted update of a CVA, by what it does to the copy.
LEMMA UpdatedCVA ==
  ASSUME NEW n, NEW t, NEW c \in CVARecord, c.exists
  PROVE  /\ pc[n][t] = "stage_update" =>
              Written(n, t, n, c,
                      Settle([c EXCEPT !.staging = TRUE, !.finalizers = {"node"}]))
         /\ pc[n][t] \in {"stage_undo", "cleanup_update"} =>
              Written(n, t, n, c, Settle([c EXCEPT !.finalizers = {}]))
         /\ pc[n][t] = "unstage_update" =>
              Written(n, t, n, c,
                      Settle([c EXCEPT !.finalizers = {}, !.staging = FALSE]))
         /\ \A b \in BOOLEAN :
              Written(n, t, n, c, Settle([c EXCEPT !.target = b]))
<1> USE DEF CVARecord, Settle, Absent, Written, OnRecord
<1>1. pc[n][t] = "stage_update" =>
        Written(n, t, n, c,
                Settle([c EXCEPT !.staging = TRUE, !.finalizers = {"node"}]))
  OBVIOUS
<1>2. pc[n][t] \in {"stage_undo", "cleanup_update"} =>
        Written(n, t, n, c, Settle([c EXCEPT !.finalizers = {}]))
  OBVIOUS
<1>3. pc[n][t] = "unstage_update" =>
        Written(n, t, n, c, Settle([c EXCEPT !.finalizers = {}, !.staging = FALSE]))
  OBVIOUS
<1>4. \A b \in BOOLEAN : Written(n, t, n, c, Settle([c EXCEPT !.target = b]))
  OBVIOUS
<1> QED BY <1>1, <1>2, <1>3, <1>4

\* An update changes the CVA of the node alone.
LEMMA UpdateWrites ==
  ASSUME TypeOK, NEW n \in Nodes, NEW t \in Threads, NEW new, NEW p,
         UpdateCStorVolumeAttachmentCR(n, t, new, p),
         cva[n].exists => Written(n, t, n, cva[n], Settle(new))
  PROVE  \A m \in Nodes : Written(n, t, m, cva[m], cva'[m])
<1>1. CASE UNCHANGED cva
  BY <1>1, UnwrittenCVA
<1>2. CASE MayUpdate(cva[n], new) /\ cva' = [cva EXCEPT ![n] = Settle(new)]
  BY <1>2, UnwrittenCVA DEF MayUpdate, TypeOK
<1> QED BY <1>1, <1>2, UpdateJumps

\* What a step of a goroutine may do to the CVAs.
LEMMA GoesWrites ==
  ASSUME IInv, NEW n \in Nodes, NEW t \in Threads, Goes(n, t)
  PROVE  \A m \in Nodes : Written(n, t, m, cva[m], cva'[m])
<1>0. /\ TypeOK
      /\ cva \in [Nodes -> CVARecord]
      /\ pc[n][t] \notin Remounting
  BY DEF IInv, NodeInv, ThreadInv, TypeOK
<1>1. CASE UNCHANGED cva
  BY <1>1, UnwrittenCVA
<1>2. CASE StageDel(n, t)
  <2>1. PICK m \in Nodes :
          \/ cva[m].exists /\ cva' = [cva EXCEPT ![m] = Deleted(cva[m])]
          \/ UNCHANGED cva
    BY <1>2 DEF StageDel, WriteCVA
  <2>2. cva[m].exists => Written(n, t, m, cva[m], Deleted(cva[m]))
    BY <1>0, <1>2, DeletedCVA DEF StageDel, At
  <2> QED BY <1>0, <1>1, <2>1, <2>2, UnwrittenCVA
<1>3. CASE StageCreate(n, t)
  <2>1. \/ ~cva[n].exists /\ cva' = [cva EXCEPT ![n] = NewCVA]
        \/ UNCHANGED cva
    BY <1>3 DEF StageCreate, WriteCVA
  <2>2. ~cva[n].exists => Written(n, t, n, cva[n], NewCVA)
    BY <1>3 DEF StageCreate, At, Written, NewCVA, Absent, OnRecord
  <2> QED BY <1>0, <1>1, <2>1, <2>2, UnwrittenCVA
<1>4. CASE UnstageDelete(n, t)
  <2>1. \/ cva[n].exists /\ cva' = [cva EXCEPT ![n] = Deleted(cva[n])]
        \/ UNCHANGED cva
    BY <1>4 DEF UnstageDelete, WriteCVA
  <2>2. cva[n].exists => Written(n, t, n, cva[n], Deleted(cva[n]))
    BY <1>0, <1>4, DeletedCVA DEF UnstageDelete, At
  <2> QED BY <1>0, <1>1, <2>1, <2>2, UnwrittenCVA
<1>5. CASE StageUpdate(n, t)
  BY <1>0, <1>5, UpdatedCVA, UpdateWrites DEF StageUpdate, At
<1>6. CASE StageUndo(n, t)
  BY <1>0, <1>6, UpdatedCVA, UpdateWrites DEF StageUndo, At
<1>7. CASE UnstageUpdate(n, t)
  BY <1>0, <1>7, UpdatedCVA, UpdateWrites DEF UnstageUpdate, At
<1>8. CASE CleanupUpdate(n, t)
  BY <1>0, <1>8, UpdatedCVA, UpdateWrites DEF CleanupUpdate, At
<1>9. CASE PublishUpdate(n, t) \/ UnpublishUpdate(n, t)
  BY <1>0, <1>9, UpdatedCVA, UpdateWrites DEF PublishUpdate, UnpublishUpdate
<1>10. ~RemountVolume(n, t)
  BY <1>0 DEF Remounting, RemountCalls, RemountVolume, RemountReady,
     RemountUnmountStaging, RemountUnmountTarget, RemountMountStaging,
     RemountMountTarget, RemountRelease, At
<1>11. \/ UNCHANGED cva
       \/ StageDel(n, t) \/ StageCreate(n, t) \/ UnstageDelete(n, t)
       \/ StageUpdate(n, t) \/ StageUndo(n, t) \/ UnstageUpdate(n, t)
       \/ CleanupUpdate(n, t) \/ PublishUpdate(n, t) \/ UnpublishUpdate(n, t)
  <2>1. CASE NodeStageVolume(n, t)
    BY <2>1 DEF NodeStageVolume, StageList, StageNodes, StageDelList, StageGet,
       StageWait, StageVerify, StageAttach, StageMkdir, StageMount, ReadCVA, cluster
  <2>2. CASE NodeUnstageVolume(n, t) \/ CleanupVolume(n, t)
    BY <2>2 DEF NodeUnstageVolume, UnstageGet, UnstageDetach, UnstageLogout,
       UnstageRemove, CleanupVolume, CleanupDetach, CleanupLogout, CleanupRemove,
       CleanupRelease, DetachUnmount, DetachLogout, DetachRemove, ReadCVA, cluster
  <2>3. CASE \/ NodePublishVolume(n, t) \/ NodeUnpublishVolume(n, t)
             \/ NodeExpandVolume(n, t)
    BY <2>3 DEF NodePublishVolume, NodeUnpublishVolume, NodeExpandVolume,
       PublishGet, PublishMount, UnpublishCheck, UnpublishGet, ExpandGet,
       ExpandResize, ReadCVA, cluster
  <2>4. CASE removeVolumeFromTransitionList(n, t) \/ CallFails(n, t)
    BY <2>4 DEF removeVolumeFromTransitionList, CallFails, cluster
  <2> QED BY <1>10, <2>1, <2>2, <2>3, <2>4 DEF Goes, Handler
<1> QED BY <1>1, <1>2, <1>3, <1>4, <1>5, <1>6, <1>7, <1>8, <1>9, <1>11

-----------------------------------------------------------------------------
(* The hosts *)

\* What a step of t of n may do on the host of m: mounts come from a Stage with a
\* session, and go, as sessions do, in the hands of Unstage or Cleanup; the target
\* path is touched by Stage, Publish and Unpublish.
Touched(n, t, m) ==
  /\ \/ stg'[m] = stg[m]
     \/ m = n /\ pc[n][t] = "stage_mount" /\ n \in session /\ stg'[n] > 0
     \/ m = n /\ pc[n][t] \in {"unstage_detach", "cleanup_detach"}
              /\ (stg'[n] > 0 => stg[n] > 0)
  /\ m \in session =>
       m \in session' \/ (m = n /\ pc[n][t] \in {"unstage_logout", "cleanup_logout"})
  /\ \/ tgt'[m] = tgt[m]
     \/ m = n /\ pc[n][t] \in {"stage_verify", "unpublish_check"}
     \/ m = n /\ pc[n][t] = "publish_mount" /\ pc'[n][t] = "publish_ok"

\* A host that is left alone.
LEMMA Untouched ==
  ASSUME UNCHANGED <<stg, session, tgt>>, NEW n, NEW t, NEW m
  PROVE  Touched(n, t, m)
  BY DEF Touched

\* What DetachDisk, in Unstage and in Cleanup, does on the host.
LEMMA DetachTouches ==
  ASSUME TypeOK, NEW n \in Nodes, NEW t \in Threads, NEW m \in Nodes, NEW p, NEW q
  PROVE  /\ \A path : /\ pc[n][t] \in {"unstage_detach", "cleanup_detach"}
                      /\ DetachUnmount(n, t, path, p, q)
                      => Touched(n, t, m)
         /\ /\ pc[n][t] \in {"unstage_logout", "cleanup_logout"}
            /\ DetachLogout(n, t, p)
            => Touched(n, t, m)
         /\ DetachRemove(n, t, p) => Touched(n, t, m)
<1>1. ASSUME NEW path, DetachUnmount(n, t, path, p, q),
             pc[n][t] \in {"unstage_detach", "cleanup_detach"}
      PROVE  Touched(n, t, m)
  <2>1. /\ stg' = stg \/ stg' = [stg EXCEPT ![n] = IF @ > 0 THEN @ - 1 ELSE 0]
        /\ UNCHANGED <<session, tgt>>
    BY <1>1 DEF DetachUnmount
  <2>2. stg \in [Nodes -> Nat]
    BY DEF TypeOK
  <2> QED BY <1>1, <2>1, <2>2 DEF Touched
<1>2. ASSUME pc[n][t] \in {"unstage_logout", "cleanup_logout"}, DetachLogout(n, t, p)
      PROVE  Touched(n, t, m)
  BY <1>2 DEF DetachLogout, Touched
<1>3. ASSUME DetachRemove(n, t, p)
      PROVE  Touched(n, t, m)
  BY <1>3, Untouched DEF DetachRemove
<1> QED BY <1>1, <1>2, <1>3

\* What a step of a goroutine may do on the hosts.
LEMMA GoesTouches ==
  ASSUME IInv, NEW n \in Nodes, NEW t \in Threads, Goes(n, t), NEW m \in Nodes
  PROVE  Touched(n, t, m)
<1>0. /\ TypeOK /\ ThreadInv(n, t)
      /\ stg \in [Nodes -> Nat]
      /\ tgt \in [Nodes -> Seq({"vol", "dir"})]
      /\ pc[n][t] \notin Remounting
  BY DEF IInv, NodeInv, ThreadInv, TypeOK
<1>1. CASE UNCHANGED <<stg, session, tgt>>
  BY <1>1, Untouched
<1>2. CASE StageVerify(n, t)
  BY <1>0, <1>2 DEF StageVerify, At, Touched
<1>3. CASE StageAttach(n, t)
  BY <1>0, <1>3 DEF StageAttach, Touched
<1>4. CASE StageMount(n, t)
  <2>1. /\ UNCHANGED <<session, tgt>>
        /\ pc[n][t] = "stage_mount"
        /\ \/ Mountable(n) /\ stg' = [stg EXCEPT ![n] = IF @ > 0 THEN @ ELSE 1]
           \/ UNCHANGED stg
    <3>1. pc[n][t] = "stage_mount" /\ stg[n] = 0
      BY <1>0, <1>4 DEF StageMount, At, ThreadInv, Mounting
    <3> QED BY <1>4, <3>1 DEF StageMount
  <2> QED BY <1>0, <2>1 DEF Mountable, Touched
<1>5. CASE UnstageDetach(n, t) \/ UnstageLogout(n, t) \/ UnstageRemove(n, t)
  BY <1>0, <1>5, DetachTouches DEF UnstageDetach, UnstageLogout, UnstageRemove, At
<1>6. CASE CleanupDetach(n, t) \/ CleanupLogout(n, t) \/ CleanupRemove(n, t)
  BY <1>0, <1>6, DetachTouches DEF CleanupDetach, CleanupLogout, CleanupRemove, At
<1>7. CASE PublishMount(n, t)
  <2>1. /\ UNCHANGED <<session, stg>>
        /\ \/ tgt' = tgt
           \/ /\ \E v : tgt' = [tgt EXCEPT ![n] = Append(@, v)]
              /\ Goto(n, t, "publish_ok")
        /\ pc[n][t] = "publish_mount"
    BY <1>7 DEF PublishMount, At
  <2> QED BY <1>0, <2>1, Arrives DEF Touched
<1>8. CASE UnpublishCheck(n, t)
  BY <1>0, <1>8 DEF UnpublishCheck, At, Touched
<1>9. ~RemountVolume(n, t)
  BY <1>0 DEF Remounting, RemountCalls, RemountVolume, RemountReady,
     RemountUnmountStaging, RemountUnmountTarget, RemountMountStaging,
     RemountMountTarget, RemountRelease, At
<1>10. \/ UNCHANGED <<stg, session, tgt>>
       \/ StageVerify(n, t) \/ StageAttach(n, t) \/ StageMount(n, t)
       \/ UnstageDetach(n, t) \/ UnstageLogout(n, t) \/ UnstageRemove(n, t)
       \/ CleanupDetach(n, t) \/ CleanupLogout(n, t) \/ CleanupRemove(n, t)
       \/ PublishMount(n, t) \/ UnpublishCheck(n, t)
  <2>1. CASE NodeStageVolume(n, t)
    BY <2>1 DEF NodeStageVolume, StageList, StageNodes, StageDelList, StageDel,
       StageCreate, StageGet, StageWait, StageUpdate, StageMkdir, StageUndo, host
  <2>2. CASE NodeUnstageVolume(n, t) \/ CleanupVolume(n, t)
    BY <2>2 DEF NodeUnstageVolume, UnstageGet, UnstageUpdate, UnstageDelete,
       CleanupVolume, CleanupUpdate, CleanupRelease, host
  <2>3. CASE \/ NodePublishVolume(n, t) \/ NodeUnpublishVolume(n, t)
             \/ NodeExpandVolume(n, t)
    BY <2>3 DEF NodePublishVolume, NodeUnpublishVolume, NodeExpandVolume,
       PublishGet, PublishUpdate, UnpublishGet, UnpublishUpdate, ExpandGet,
       ExpandResize, host
  <2>4. CASE removeVolumeFromTransitionList(n, t) \/ CallFails(n, t)
    BY <2>4 DEF removeVolumeFromTransitionList, CallFails, host
  <2> QED BY <1>9, <2>1, <2>2, <2>3, <2>4 DEF Goes, Handler
<1> QED BY <1>1, <1>2, <1>3, <1>4, <1>5, <1>6, <1>7, <1>8, <1>10

-----------------------------------------------------------------------------
(* How the locations that matter are reached *)

\* How a Stage gets on: past the ready nodes of other CVAs, with its own CVA created,
\* and to its end with the record written and the volume attached and mounted.
StageGetsOn(n, t) ==
  LET p == pc[n][t]
      q == pc'[n][t]
  IN  /\ q = "stage_nodes" => arg'[n][t] = Elsewhere(n) /\ UNCHANGED cva
      /\ q \in Cleared =>
           \/ p \in Cleared
           \/ p = "stage_nodes" /\ arg[n][t] \cap ready = {} /\ UNCHANGED cva
      /\ q \in Created =>
           \/ p \in Created
           \/ p = "stage_create" /\ cva'[n] = NewCVA
      /\ q = "stage_mkdir" => n \in session' /\ accessType # "block"
      /\ q = "stage_mount" => p = "stage_mkdir"
      /\ q = "stage_ok" =>
           /\ p \in Created /\ UNCHANGED cva /\ Recorded(n)
           /\ \/ p = "stage_attach" /\ n \in session' /\ accessType = "block"
              \/ p \in {"stage_verify", "stage_mount"} /\ stg'[n] > 0

\* Errors get a Stage nowhere.
LEMMA ErrorGetsNowhere ==
  ASSUME NEW n, NEW t, pc'[n][t] \in {"stage_err", "stage_undo"}
  PROVE  StageGetsOn(n, t)
  BY DEF StageGetsOn, Cleared, Created

\* Where the failing calls of Stage lead.
LEMMA StageErrors == \A p \in StageCalls : OnError(p) \in {"stage_err", "stage_undo"}
  BY DEF OnError, StageCalls, UnstageCalls, PublishCalls, UnpublishCalls,
     ExpandCalls, CleanupCalls

\* How the steps of NodeStageVolume get on.
LEMMA StageProgress ==
  ASSUME IInv, NEW n \in Nodes, NEW t \in Threads, NodeStageVolume(n, t)
  PROVE  StageGetsOn(n, t)
<1>0. /\ TypeOK /\ NodeInv(n) /\ ThreadInv(n, t)
      /\ stg \in [Nodes -> Nat]
      /\ cva \in [Nodes -> CVARecord]
      /\ arg \in [Nodes -> [Threads -> SUBSET (Nodes \cup Paths)]]
  BY DEF IInv, NodeInv, TypeOK
<1>1. \A p, a : GotoWith(n, t, p, a) => pc'[n][t] = p /\ arg'[n][t] = a
  BY <1>0, Arrives
<1>2. \A p : Goto(n, t, p) => pc'[n][t] = p
  BY <1>0, Arrives
<1>3. pc[n][t] \in StageCalls
  BY StageJumps
<1>4. CASE pc'[n][t] \in {"stage_err", "stage_undo"}
  BY <1>4, ErrorGetsNowhere
<1>5. CASE StageList(n, t)
  <2>1. CASE cva[n].exists /\ cva[n].deleting
    BY <1>2, <1>4, <1>5, <2>1 DEF StageList
  <2>2. CASE ~(cva[n].exists /\ cva[n].deleting)
    <3>1. GotoWith(n, t, "stage_nodes", Elsewhere(n)) /\ UNCHANGED cva
      BY <1>5, <2>2 DEF StageList, Elsewhere, cluster
    <3>2. pc'[n][t] = "stage_nodes" /\ arg'[n][t] = Elsewhere(n)
      BY <1>1, <3>1
    <3> QED BY <3>1, <3>2 DEF StageGetsOn, Cleared, Created
  <2> QED BY <2>1, <2>2
<1>6. CASE StageNodes(n, t)
  <2>1. CASE arg[n][t] \cap ready # {}
    BY <1>2, <1>4, <1>6, <2>1 DEF StageNodes
  <2>2. CASE arg[n][t] \cap ready = {}
    <3>1. /\ pc[n][t] = "stage_nodes" /\ Goto(n, t, "stage_dellist")
          /\ UNCHANGED cva
      BY <1>6, <2>2 DEF StageNodes, At, cluster
    <3>2. pc'[n][t] = "stage_dellist"
      BY <1>2, <3>1
    <3> QED BY <2>2, <3>1, <3>2 DEF StageGetsOn, Cleared, Created
  <2> QED BY <2>1, <2>2
<1>7. CASE StageDelList(n, t) \/ StageDel(n, t)
  <2>1. pc[n][t] \in {"stage_dellist", "stage_del"}
    BY <1>7 DEF StageDelList, StageDel, At
  <2>2. \/ \E p \in {"stage_create", "stage_del"} : \E a : GotoWith(n, t, p, a)
        \/ \E p \in {"stage_err", "stage_undo"} : Goto(n, t, p)
    BY <1>3, <1>7, ReplyJumps, StageErrors DEF StageDelList, StageDel
  <2>3. pc'[n][t] \in {"stage_create", "stage_del", "stage_err", "stage_undo"}
    BY <1>1, <1>2, <2>2
  <2> QED BY <1>4, <2>1, <2>3 DEF StageGetsOn, Cleared, Created
<1>8. CASE StageCreate(n, t)
  <2>1. pc[n][t] = "stage_create"
    BY <1>8 DEF StageCreate, At
  <2>2. \/ /\ GotoWith(n, t, "stage_get", {})
           /\ cva' = [cva EXCEPT ![n] = NewCVA]
        \/ \E p \in {"stage_err", "stage_undo"} : Goto(n, t, p)
    BY <1>3, <1>8, ReplyJumps, StageErrors DEF StageCreate, WriteCVA
  <2>3. CASE \E p \in {"stage_err", "stage_undo"} : Goto(n, t, p)
    BY <1>2, <1>4, <2>3
  <2>4. CASE /\ GotoWith(n, t, "stage_get", {})
             /\ cva' = [cva EXCEPT ![n] = NewCVA]
    <3>1. pc'[n][t] = "stage_get" /\ cva'[n] = NewCVA
      BY <1>0, <1>1, <2>4
    <3> QED BY <2>1, <3>1 DEF StageGetsOn, Cleared, Created
  <2> QED BY <2>2, <2>3, <2>4
<1>9. CASE StageGet(n, t) \/ StageWait(n, t)
  <2>1. /\ pc[n][t] \in {"stage_get", "stage_wait"}
        /\ \E p \in {"stage_wait", "stage_verify", "stage_err"} : Goto(n, t, p)
    BY <1>9 DEF StageGet, StageWait, At
  <2>2. pc'[n][t] \in {"stage_wait", "stage_verify", "stage_err"}
    BY <1>2, <2>1
  <2> QED BY <2>1, <2>2 DEF StageGetsOn, Cleared, Created
<1>10. CASE StageVerify(n, t)
  <2>1. /\ pc[n][t] = "stage_verify"
        /\ UNCHANGED <<cva, stg>>
        /\ \/ stg[n] > 0 /\ Goto(n, t, "stage_ok")
           \/ Goto(n, t, "stage_update")
    BY <1>10 DEF StageVerify, At, cluster
  <2>2. \/ stg[n] > 0 /\ pc'[n][t] = "stage_ok"
        \/ pc'[n][t] = "stage_update"
    BY <1>2, <2>1
  <2>3. stg[n] > 0 => Recorded(n)
    BY <1>0 DEF NodeInv, StagingInv
  <2> QED BY <2>1, <2>2, <2>3 DEF StageGetsOn, Cleared, Created
<1>11. CASE StageUpdate(n, t)
  <2>1. pc[n][t] = "stage_update"
    BY <1>11 DEF StageUpdate, At
  <2>2. \/ GotoWith(n, t, "stage_attach", {})
        \/ \E p \in {"stage_err", "stage_undo"} : Goto(n, t, p)
    BY <1>3, <1>11, UpdateJumps, StageErrors DEF StageUpdate
  <2>3. pc'[n][t] \in {"stage_attach", "stage_err", "stage_undo"}
    BY <1>1, <1>2, <2>2
  <2> QED BY <1>4, <2>1, <2>3 DEF StageGetsOn, Cleared, Created
<1>12. CASE StageAttach(n, t)
  <2>1. /\ pc[n][t] = "stage_attach"
        /\ UNCHANGED cva
        /\ \/ /\ n \in session'
              /\ Goto(n, t, IF accessType = "block" THEN "stage_ok" ELSE "stage_mkdir")
           \/ Goto(n, t, "stage_undo")
    BY <1>12 DEF StageAttach, At, cluster
  <2>2. \/ n \in session' /\ accessType = "block" /\ pc'[n][t] = "stage_ok"
        \/ n \in session' /\ accessType # "block" /\ pc'[n][t] = "stage_mkdir"
        \/ pc'[n][t] = "stage_undo"
    BY <1>2, <2>1
  <2>3. Recorded(n)
    BY <1>0, <2>1 DEF ThreadInv, Mounting
  <2> QED BY <1>4, <2>1, <2>2, <2>3 DEF StageGetsOn, Cleared, Created
<1>13. CASE StageMkdir(n, t)
  <2>1. pc[n][t] = "stage_mkdir" /\ Goto(n, t, "stage_mount")
    BY <1>13 DEF StageMkdir, At
  <2>2. pc'[n][t] = "stage_mount"
    BY <1>2, <2>1
  <2> QED BY <2>1, <2>2 DEF StageGetsOn, Cleared, Created
<1>14. CASE StageMount(n, t)
  <2>1. /\ pc[n][t] = "stage_mount"
        /\ UNCHANGED cva
        /\ \/ /\ stg' = [stg EXCEPT ![n] = IF @ > 0 THEN @ ELSE 1]
              /\ Goto(n, t, "stage_ok")
           \/ Goto(n, t, "stage_undo")
    BY <1>14 DEF StageMount, At, cluster
  <2>2. \/ stg'[n] > 0 /\ pc'[n][t] = "stage_ok"
        \/ pc'[n][t] = "stage_undo"
    BY <1>0, <1>2, <2>1
  <2>3. Recorded(n)
    BY <1>0, <2>1 DEF ThreadInv, Mounting
  <2> QED BY <1>4, <2>1, <2>2, <2>3 DEF StageGetsOn, Cleared, Created
<1>15. CASE StageUndo(n, t)
  <2>1. \/ GotoWith(n, t, "stage_err", {})
        \/ \E p \in {"stage_err", "stage_undo"} : Goto(n, t, p)
    BY <1>3, <1>15, UpdateJumps, StageErrors DEF StageUndo
  <2> QED BY <1>1, <1>2, <1>4, <2>1
<1> QED
  BY <1>5, <1>6, <1>7, <1>8, <1>9, <1>10, <1>11, <1>12, <1>13, <1>14, <1>15
     DEF NodeStageVolume

\* A goroutine that is not at a call of a handler does not take its steps.
LEMMA OtherHandlers ==
  ASSUME IInv, NEW n \in Nodes, NEW t \in Threads, Goes(n, t)
  PROVE  /\ pc'[n][t] \in Staging =>
              \/ NodeStageVolume(n, t)
              \/ CallFails(n, t) /\ pc'[n][t] \in {"stage_err", "stage_undo"}
         /\ pc'[n][t] \in Unstaging =>
              \/ NodeUnstageVolume(n, t)
              \/ CallFails(n, t) /\ pc'[n][t] = "unstage_err"
         /\ pc'[n][t] \in Publishing =>
              \/ NodePublishVolume(n, t)
              \/ CallFails(n, t) /\ pc'[n][t] = "publish_err"
<1> DEFINE q == pc'[n][t]
<1>0. TypeOK /\ pc[n][t] \notin Remounting
  BY DEF IInv, NodeInv, ThreadInv
<1>1. /\ q \in Staging => pc[n][t] \in Staging
      /\ q \in Unstaging => pc[n][t] \in Unstaging
      /\ q \in Publishing => pc[n][t] \in Publishing
  BY GoesMoves DEF Moves, SameHandler
<1>2. /\ StageCalls \subseteq Staging /\ UnstageCalls \subseteq Unstaging
      /\ PublishCalls \subseteq Publishing /\ UnpublishCalls \subseteq Unpublishing
      /\ \A p \in ExpandCalls \cup RemountCalls \cup {"idle"} :
           p \notin Staging \cup Unstaging \cup Publishing
      /\ CleanupCalls \subseteq Cleaning
  BY DEF Staging, StageCalls, Unstaging, UnstageCalls, Publishing, PublishCalls,
     Unpublishing, UnpublishCalls, ExpandCalls, RemountCalls, Cleaning, CleanupCalls
<1> HIDE DEF q
<1>3. NodeStageVolume(n, t) => pc[n][t] \in Staging
  BY <1>2, StageJumps
<1>4. NodeUnstageVolume(n, t) => pc[n][t] \in Unstaging
  BY <1>2, UnstageJumps
<1>5. /\ NodePublishVolume(n, t) => pc[n][t] \in Publishing
      /\ NodeUnpublishVolume(n, t) => pc[n][t] \in Unpublishing
      /\ NodeExpandVolume(n, t) => pc[n][t] \in ExpandCalls
  BY <1>2, PublishJumps
<1>6. CleanupVolume(n, t) => pc[n][t] \in Cleaning
  BY CleanupJumps
<1>7. removeVolumeFromTransitionList(n, t) => q = "idle"
  BY <1>0, Arrives DEF removeVolumeFromTransitionList, q
<1>8. ~RemountVolume(n, t)
  BY <1>0 DEF Remounting, RemountCalls, RemountVolume, RemountReady,
     RemountUnmountStaging, RemountUnmountTarget, RemountMountStaging,
     RemountMountTarget, RemountRelease, At
<1>9. ASSUME CallFails(n, t)
      PROVE  /\ q \in Staging => q \in {"stage_err", "stage_undo"}
             /\ q \in Unstaging => q = "unstage_err"
             /\ q \in Publishing => q = "publish_err"
  <2>1. pc[n][t] \in Calls /\ q = OnError(pc[n][t])
    BY <1>0, <1>9, Arrives DEF CallFails, q
  <2>2. /\ q \in Staging => pc[n][t] \in StageCalls
        /\ q \in Unstaging => pc[n][t] \in UnstageCalls
        /\ q \in Publishing => pc[n][t] \in PublishCalls
    BY <1>1, <1>2, <2>1, Disjoint DEF Calls
  <2>3. /\ \A p \in UnstageCalls : OnError(p) = "unstage_err"
        /\ \A p \in PublishCalls : OnError(p) = "publish_err"
    BY DEF OnError, StageCalls, UnstageCalls, PublishCalls, UnpublishCalls,
       ExpandCalls, CleanupCalls
  <2> QED BY <2>1, <2>2, <2>3, StageErrors
<1>10. \/ NodeStageVolume(n, t) \/ NodeUnstageVolume(n, t)
       \/ NodePublishVolume(n, t) \/ NodeUnpublishVolume(n, t)
       \/ NodeExpandVolume(n, t) \/ CleanupVolume(n, t)
       \/ removeVolumeFromTransitionList(n, t) \/ CallFails(n, t)
  BY <1>8 DEF Goes, Handler
<1>11. q \in Staging => \/ NodeStageVolume(n, t)
                        \/ CallFails(n, t) /\ q \in {"stage_err", "stage_undo"}
  BY <1>1, <1>2, <1>4, <1>5, <1>6, <1>7, <1>9, <1>10, Disjoint
<1>12. q \in Unstaging => \/ NodeUnstageVolume(n, t)
                          \/ CallFails(n, t) /\ q = "unstage_err"
  BY <1>1, <1>2, <1>3, <1>5, <1>6, <1>7, <1>9, <1>10, Disjoint
<1>13. q \in Publishing => \/ NodePublishVolume(n, t)
                           \/ CallFails(n, t) /\ q = "publish_err"
  BY <1>1, <1>2, <1>3, <1>4, <1>5, <1>6, <1>7, <1>9, <1>10, Disjoint
<1> QED BY <1>11, <1>12, <1>13 DEF q

\* How a step of any goroutine gets a Stage on.
LEMMA GoesGetsOn ==
  ASSUME IInv, NEW n \in Nodes, NEW t \in Threads, Goes(n, t)
  PROVE  StageGetsOn(n, t)
<1>1. CASE pc'[n][t] \in Staging
  BY <1>1, OtherHandlers, StageProgress, ErrorGetsNowhere
<1>2. CASE pc'[n][t] \notin Staging
  BY <1>2 DEF StageGetsOn, Cleared, Created, Staging, StageCalls
<1> QED BY <1>1, <1>2

\* An Unstage that has dropped the record, or found none, leaves no finalizer.
LEMMA GoesReleases ==
  ASSUME IInv, NEW n \in Nodes, NEW t \in Threads, Goes(n, t), ReleaseInv(n),
         pc'[n][t] \in {"unstage_delete", "unstage_ok"}
  PROVE  "node" \notin cva'[n].finalizers
<1>0. /\ TypeOK /\ cva \in [Nodes -> CVARecord] /\ cva[n] \in CVARecord
  BY DEF IInv, TypeOK
<1>1. NodeUnstageVolume(n, t)
  BY OtherHandlers DEF Unstaging, UnstageCalls
<1>2. CASE UnstageGet(n, t)
  <2>1. \/ Goto(n, t, "unstage_detach")
        \/ ~(cva[n].exists /\ cva[n].staging) /\ UNCHANGED cva
    BY <1>2 DEF UnstageGet, cluster
  <2>2. ~Goto(n, t, "unstage_detach")
    BY <1>0, Arrives
  <2> QED BY <2>1, <2>2 DEF ReleaseInv
<1>3. CASE UnstageDetach(n, t) \/ UnstageLogout(n, t) \/ UnstageRemove(n, t)
  <2>1. pc[n][t] \in UnstageCalls
    BY <1>1, UnstageJumps
  <2>2. OnError(pc[n][t]) = "unstage_err"
    BY <2>1 DEF OnError, StageCalls, UnstageCalls, PublishCalls, UnpublishCalls,
       ExpandCalls, CleanupCalls
  <2>3. \E p \in {"unstage_logout", "unstage_rmdir", "unstage_update", "unstage_err"} :
          Goto(n, t, p) \/ GotoWith(n, t, p, {})
    BY <1>3, <2>2 DEF UnstageDetach, UnstageLogout, UnstageRemove, DetachUnmount,
       DetachLogout, DetachRemove, Reply
  <2> QED BY <1>0, <2>3, Arrives
<1>4. CASE UnstageUpdate(n, t)
  <2> DEFINE new == [cva[n] EXCEPT !.finalizers = {}, !.staging = FALSE]
  <2>1. /\ pc[n][t] = "unstage_update"
        /\ UpdateCStorVolumeAttachmentCR(n, t, new, "unstage_delete")
    BY <1>4 DEF UnstageUpdate, At
  <2>2. "node" \notin Settle(new).finalizers
    BY <1>0 DEF Settle, Absent, CVARecord
  <2>3. OnError(pc[n][t]) = "unstage_err"
    BY <2>1 DEF OnError, StageCalls, UnstageCalls, PublishCalls, UnpublishCalls,
       ExpandCalls, CleanupCalls
  <2> HIDE DEF new
  <2>4. \/ cva' = [cva EXCEPT ![n] = Settle(new)]
        \/ Goto(n, t, "unstage_err")
    BY <2>1, <2>3, UpdateJumps
  <2>5. ~Goto(n, t, "unstage_err")
    BY <1>0, Arrives
  <2> QED BY <1>0, <2>2, <2>4, <2>5
<1>5. CASE UnstageDelete(n, t)
  <2>1. /\ pc[n][t] = "unstage_delete"
        /\ \/ cva' = [cva EXCEPT ![n] = Deleted(cva[n])]
           \/ UNCHANGED cva
    BY <1>5 DEF UnstageDelete, At, WriteCVA
  <2>2. "node" \notin cva[n].finalizers
    BY <2>1 DEF ReleaseInv
  <2>3. "node" \notin Deleted(cva[n]).finalizers
    BY <1>0, <2>2 DEF Deleted, CVARecord
  <2> QED BY <1>0, <2>1, <2>2, <2>3
<1> QED BY <1>1, <1>2, <1>3, <1>4, <1>5 DEF NodeUnstageVolume

\* A Publish that gets to its end has bound the volume if the staging path has it.
LEMMA GoesPublishes ==
  ASSUME IInv, NEW n \in Nodes, NEW t \in Threads, Goes(n, t)
  PROVE  /\ pc'[n][t] \in PublishCalls => pc[n][t] \in PublishCalls
         /\ pc'[n][t] = "publish_ok" =>
              /\ pc[n][t] = "publish_mount"
              /\ accessType = "block" \/ stg[n] > 0 => ShowsVolume(n)'
<1>0. /\ TypeOK /\ tgt \in [Nodes -> Seq({"vol", "dir"})]
      /\ tgt[n] \in Seq({"vol", "dir"})
  BY DEF IInv, TypeOK
<1>1. /\ pc'[n][t] \in PublishCalls \cup {"publish_ok"} =>
           NodePublishVolume(n, t)
  BY OtherHandlers DEF Publishing, PublishCalls
<1>2. ASSUME pc'[n][t] = "publish_ok"
      PROVE  /\ pc[n][t] = "publish_mount"
             /\ accessType = "block" \/ stg[n] > 0 => ShowsVolume(n)'
  <2>1. OnError("publish_update") = "publish_err"
    BY DEF OnError, StageCalls, UnstageCalls, PublishCalls, UnpublishCalls,
       ExpandCalls, CleanupCalls
  <2>2. CASE PublishGet(n, t)
    <3>1. \E p \in {"publish_update", "publish_err"} : Goto(n, t, p)
      BY <2>2 DEF PublishGet
    <3> QED BY <1>0, <1>2, <3>1, Arrives
  <2>3. CASE PublishUpdate(n, t)
    <3>1. GotoWith(n, t, "publish_mount", {}) \/ Goto(n, t, "publish_err")
      BY <2>1, <2>3, UpdateJumps DEF PublishUpdate, At
    <3> QED BY <1>0, <1>2, <3>1, Arrives
  <2>4. CASE PublishMount(n, t)
    <3>1. ~Goto(n, t, "publish_err")
      BY <1>0, <1>2, Arrives
    <3>2. PICK v \in PublishSource(n) : tgt' = [tgt EXCEPT ![n] = Append(@, v)]
      BY <2>4, <3>1 DEF PublishMount
    <3>3. accessType = "block" \/ stg[n] > 0 => v = "vol"
      BY <3>2 DEF PublishSource
    <3>4. tgt'[n] = Append(tgt[n], v)
      BY <1>0, <3>2
    <3>5. v = "vol" => tgt'[n] # <<>> /\ tgt'[n][Len(tgt'[n])] = "vol"
      <4>1. ASSUME v = "vol"
            PROVE  /\ Append(tgt[n], v) \in Seq({"vol", "dir"})
                   /\ Len(Append(tgt[n], v)) = Len(tgt[n]) + 1
                   /\ Append(tgt[n], v)[Len(tgt[n]) + 1] = v
                   /\ Len(tgt[n]) + 1 # 0
        BY <1>0, <4>1
      <4> QED BY <3>4, <4>1
    <3> QED BY <2>4, <3>3, <3>5 DEF PublishMount, At, ShowsVolume
  <2> QED BY <1>1, <1>2, <2>2, <2>3, <2>4 DEF NodePublishVolume
<1> QED BY <1>1, <1>2, PublishJumps
=============================================================================
