---------------------------- MODULE MonitorProofs ----------------------------
(***************************************************************************)
(* What Cleanup may do to an attachment, with the monitor on or off: any   *)
(* number of nodes, goroutines, faults and events.                         *)
(*                                                                         *)
(* Cleanup lists the volume without the busy check and may run beside a    *)
(* Stage, so the invariants of NodeServiceProofs do not hold here.  What   *)
(* does is CopyInv: the copy Cleanup holds is stale, or is one of an       *)
(* object that is still being deleted.  The API server refuses the first,  *)
(* so the finalizers of a live attachment are left alone.                  *)
(***************************************************************************)
EXTENDS NodeMoves

\* A Cleanup that holds a current copy of the node's CVA holds one that is being
\* deleted; only an object that exists has the node's finalizer.
CopyInv(m) ==
  /\ "node" \in cva[m].finalizers => cva[m].exists
  /\ \A t \in Threads :
       pc[m][t] \in CleanupCalls /\ t \in fresh[m] => cva[m].deleting

\* The step takes the node's finalizer off no CVA that is not being deleted, unless
\* the node's own Unstage or the undo of its Stage does it.
Spares(m) ==
  /\ "node" \in cva[m].finalizers /\ ~cva[m].deleting
  /\ "node" \notin cva'[m].finalizers
  => \E t \in Threads : /\ pc[m][t] \in {"unstage_update", "stage_undo"}
                        /\ pc'[m][t] # pc[m][t]

-----------------------------------------------------------------------------
(* Steps that write no CVA *)

\* No Cleanup gets hold of a copy of m's CVA, or it is one under deletion.
Quiet(m) ==
  /\ cva'[m] = cva[m]
  /\ \A u \in Threads : pc'[m][u] \in CleanupCalls /\ u \in fresh'[m]
       => \/ pc[m][u] \in CleanupCalls /\ u \in fresh[m]
          \/ cva[m].deleting

\* Such a step keeps the invariant and takes no finalizer.
LEMMA QuietSpares ==
  ASSUME NEW m \in Nodes, CopyInv(m), Quiet(m)
  PROVE  CopyInv(m)' /\ Spares(m)
  BY DEF CopyInv, Quiet, Spares

\* The locations that are none of Cleanup's calls.
LEMMA NotCleanup ==
  /\ \A p \in Staging \cup Unstaging \cup Publishing \cup Unpublishing :
       p \notin CleanupCalls
  /\ \A p \in {"idle", "expand_get", "expand_resize", "expand_ok", "expand_err",
               "cleanup_release", "remount_ready", "remount_umount_s",
               "remount_umount_t", "remount_mount_s", "remount_mount_t",
               "remount_release", "stage_list", "publish_get", "unpublish_check",
               "unstage_get"} : p \notin CleanupCalls
  BY DEF Staging, StageCalls, Unstaging, UnstageCalls, Publishing, PublishCalls,
     Unpublishing, UnpublishCalls, CleanupCalls

\* A call of RemountVolume that fails leads to no call of Cleanup.
LEMMA RemountErrors == \A p \in RemountCalls : OnError(p) \notin CleanupCalls
  BY DEF OnError, RemountCalls, StageCalls, UnstageCalls, PublishCalls,
     UnpublishCalls, ExpandCalls, CleanupCalls

\* Where a goroutine goes, in whatever handler: a call of Cleanup is reached only
\* from another one.
LEMMA GoesOn ==
  ASSUME TypeOK, NEW n \in Nodes, NEW t \in Threads, Goes(n, t)
  PROVE  /\ \A u \in Threads \ {t} : pc'[n][u] = pc[n][u]
         /\ \A m \in Nodes \ {n} : pc'[m] = pc[m]
         /\ pc'[n][t] \in CleanupCalls => pc[n][t] \in CleanupCalls
<1>0. ASSUME NEW p, NEW a, GotoWith(n, t, p, a) \/ Goto(n, t, p)
      PROVE  /\ \A u \in Threads \ {t} : pc'[n][u] = pc[n][u]
             /\ \A m \in Nodes \ {n} : pc'[m] = pc[m]
             /\ pc'[n][t] = p
  BY <1>0, GotoEffect
<1>1. CASE NodeStageVolume(n, t)
  BY <1>0, <1>1, StageJumps, NotCleanup
<1>2. CASE NodeUnstageVolume(n, t)
  BY <1>0, <1>2, UnstageJumps, NotCleanup
<1>3. CASE NodePublishVolume(n, t) \/ NodeUnpublishVolume(n, t)
  BY <1>0, <1>3, PublishJumps, NotCleanup
<1>4. CASE NodeExpandVolume(n, t)
  BY <1>0, <1>4, PublishJumps, NotCleanup
<1>5. CASE CleanupVolume(n, t)
  <2>1. pc[n][t] \in CleanupCalls \/ Goto(n, t, "idle")
    BY <1>5 DEF CleanupVolume, CleanupDetach, CleanupLogout, CleanupRemove,
       CleanupUpdate, CleanupRelease, At, CleanupCalls
  <2> QED BY <1>0, <1>5, <2>1, CleanupJumps, NotCleanup
<1>6. CASE RemountVolume(n, t)
  <2>1. \E p \in {"remount_umount_s", "remount_umount_t", "remount_mount_s",
                  "remount_mount_t", "remount_release", "idle"} :
          Goto(n, t, p) \/ GotoWith(n, t, p, arg[n][t])
    BY <1>6 DEF RemountVolume, RemountReady, RemountUnmountStaging,
       RemountUnmountTarget, RemountMountStaging, RemountMountTarget, RemountRelease
  <2> QED BY <1>0, <2>1, NotCleanup
<1>7. CASE removeVolumeFromTransitionList(n, t)
  BY <1>0, <1>7, NotCleanup DEF removeVolumeFromTransitionList
<1>8. CASE CallFails(n, t)
  <2>1. /\ pc[n][t] \in Calls
        /\ GotoWith(n, t, OnError(pc[n][t]), arg[n][t])
    BY <1>8 DEF CallFails
  <2>2. OnError(pc[n][t]) \notin CleanupCalls
    BY <2>1, ErrorStays, RemountErrors, NotCleanup DEF Calls
  <2> QED BY <1>0, <2>1, <2>2
<1> QED BY <1>1, <1>2, <1>3, <1>4, <1>5, <1>6, <1>7, <1>8 DEF Goes, Handler

-----------------------------------------------------------------------------
(* Steps of a goroutine *)

\* The step of t of n writes no CVA, and gives a copy to t alone, if at all, and not
\* to a Cleanup.
Reads(n, t) ==
  /\ UNCHANGED cva
  /\ \/ UNCHANGED fresh
     \/ fresh' = [fresh EXCEPT ![n] = @ \ {t}]
     \/ fresh' = [fresh EXCEPT ![n] = @ \cup {t}] /\ pc[n][t] \notin CleanupCalls

\* It writes its copy of n's CVA, changed to new.
Updates(n, t, new) ==
  /\ t \in fresh[n] /\ MayUpdate(cva[n], new)
  /\ WriteCVA(n, Settle(new), {t})
  /\ pc'[n][t] \notin CleanupCalls

\* It deletes the CVA of m.
Deletes(m) ==
  /\ cva[m].exists
  /\ WriteCVA(m, Deleted(cva[m]), IF cva[m].deleting THEN fresh[m] ELSE {})

\* Reading and removing copies.
LEMMA ReadsSpares ==
  ASSUME TypeOK, NEW n \in Nodes, NEW t \in Threads, Goes(n, t), Reads(n, t),
         NEW m \in Nodes, CopyInv(m)
  PROVE  CopyInv(m)' /\ Spares(m)
<1>1. fresh \in [Nodes -> SUBSET Threads]
  BY DEF TypeOK
<1>2. CASE m = n
  <2>1. \A u \in Threads : pc'[n][u] \in CleanupCalls => pc[n][u] \in CleanupCalls
    BY GoesOn
  <2>2. \A u \in Threads : u \in fresh'[n] =>
          u \in fresh[n] \/ (u = t /\ pc[n][t] \notin CleanupCalls)
    BY <1>1 DEF Reads
  <2>3. Quiet(n)
    BY <2>1, <2>2 DEF Quiet, Reads
  <2> QED BY <1>2, <2>3, QuietSpares
<1>3. CASE m # n
  <2>1. fresh'[m] = fresh[m] /\ pc'[m] = pc[m] /\ cva'[m] = cva[m]
    BY <1>1, <1>3, GoesOn DEF Reads
  <2> QED BY <2>1, QuietSpares DEF Quiet
<1> QED BY <1>2, <1>3

\* Deleting a CVA, one's own or another node's.
LEMMA DeletesSpares ==
  ASSUME TypeOK, NEW n \in Nodes, NEW t \in Threads, Goes(n, t), NEW k \in Nodes,
         Deletes(k), NEW m \in Nodes, CopyInv(m)
  PROVE  CopyInv(m)' /\ Spares(m)
<1>1. /\ fresh \in [Nodes -> SUBSET Threads]
      /\ cva \in [Nodes -> CVARecord]
  BY DEF TypeOK
<1>2. \A u \in Threads : pc'[m][u] \in CleanupCalls => pc[m][u] \in CleanupCalls
  BY GoesOn
<1>3. CASE m = k /\ ~cva[k].deleting
  <2>1. fresh'[k] = {} /\ cva'[k] = Deleted(cva[k])
    BY <1>1, <1>3 DEF Deletes, WriteCVA
  <2>2. /\ "node" \in cva[k].finalizers <=> "node" \in cva'[k].finalizers
        /\ cva'[k].exists
    BY <1>1, <1>3, <2>1 DEF Deletes, Deleted, CVARecord
  <2> QED BY <1>3, <2>1, <2>2 DEF CopyInv, Spares
<1>4. CASE m # k \/ cva[k].deleting
  <2>1. fresh'[m] = fresh[m] /\ cva'[m] = cva[m]
    BY <1>1, <1>4 DEF Deletes, WriteCVA, Deleted
  <2> QED BY <1>2, <2>1, QuietSpares DEF Quiet
<1> QED BY <1>3, <1>4

\* Updating one's own CVA, in a way that is not to be feared.
LEMMA UpdatesSpares ==
  ASSUME TypeOK, NEW n \in Nodes, NEW t \in Threads, Goes(n, t),
         NEW new \in CVARecord, Updates(n, t, new),
         new.exists = cva[n].exists, new.deleting = cva[n].deleting,
         \/ "node" \in new.finalizers
         \/ new.finalizers = cva[n].finalizers
         \/ pc[n][t] = "cleanup_update"
         \/ pc[n][t] \in {"unstage_update", "stage_undo"} /\ pc'[n][t] # pc[n][t],
         NEW m \in Nodes, CopyInv(m)
  PROVE  CopyInv(m)' /\ Spares(m)
<1>1. /\ fresh \in [Nodes -> SUBSET Threads]
      /\ cva \in [Nodes -> CVARecord]
  BY DEF TypeOK
<1>2. CASE m = n
  <2>1. /\ fresh'[n] = {t} /\ cva'[n] = Settle(new)
        /\ t \in fresh[n] /\ cva[n].exists
    BY <1>1 DEF Updates, WriteCVA, MayUpdate
  <2>2. "node" \in cva'[n].finalizers => cva'[n].exists
    <3>1. Settle(new) = new \/ Settle(new).finalizers = {}
      BY DEF Settle, Absent
    <3>2. new.exists
      BY <2>1
    <3> QED BY <2>1, <3>1, <3>2
  <2>3. CopyInv(n)'
    BY <2>1, <2>2 DEF CopyInv, Updates
  <2>4. pc[n][t] = "cleanup_update" => cva[n].deleting
    BY <1>2, <2>1 DEF CopyInv, CleanupCalls
  <2>5. ~cva[n].deleting => cva'[n].finalizers = new.finalizers
    BY <2>1 DEF Settle
  <2> QED BY <1>2, <2>3, <2>4, <2>5 DEF Spares
<1>3. CASE m # n
  <2>1. fresh'[m] = fresh[m] /\ pc'[m] = pc[m] /\ cva'[m] = cva[m]
    BY <1>1, <1>3, GoesOn DEF Updates, WriteCVA
  <2> QED BY <2>1, QuietSpares DEF Quiet
<1> QED BY <1>2, <1>3

\* Creating one's CVA.
LEMMA CreateSpares ==
  ASSUME TypeOK, NEW n \in Nodes, NEW t \in Threads, Goes(n, t),
         ~cva[n].exists, WriteCVA(n, NewCVA, {}), NEW m \in Nodes, CopyInv(m)
  PROVE  CopyInv(m)' /\ Spares(m)
<1>1. /\ fresh \in [Nodes -> SUBSET Threads]
      /\ cva \in [Nodes -> CVARecord]
  BY DEF TypeOK
<1>2. CASE m = n
  <2>1. fresh'[n] = {} /\ cva'[n] = NewCVA
    BY <1>1 DEF WriteCVA
  <2> QED BY <1>2, <2>1 DEF CopyInv, Spares, NewCVA, Absent
<1>3. CASE m # n
  <2>1. fresh'[m] = fresh[m] /\ pc'[m] = pc[m] /\ cva'[m] = cva[m]
    BY <1>1, <1>3, GoesOn DEF WriteCVA
  <2> QED BY <2>1, QuietSpares DEF Quiet
<1> QED BY <1>2, <1>3

\* An update through the client, refused or not.
LEMMA UpdateOrNot ==
  ASSUME TypeOK, NEW n \in Nodes, NEW t \in Threads, NEW new, NEW p,
         UpdateCStorVolumeAttachmentCR(n, t, new, p),
         pc[n][t] \in Calls, p \notin CleanupCalls
  PROVE  Reads(n, t) \/ (Updates(n, t, new) /\ pc'[n][t] \in {p, OnError(pc[n][t])})
<1>1. OnError(pc[n][t]) \notin CleanupCalls
  BY ErrorStays, RemountErrors, NotCleanup DEF Calls
<1>2. CASE UNCHANGED <<cva, fresh>>
  BY <1>2 DEF Reads
<1>3. CASE /\ t \in fresh[n] /\ MayUpdate(cva[n], new)
           /\ WriteCVA(n, Settle(new), {t})
           /\ Reply(n, t, p, {})
  <2>1. pc'[n][t] \in {p, OnError(pc[n][t])}
    BY <1>3, GotoEffect DEF Reply
  <2> QED BY <1>1, <1>3, <2>1 DEF Updates
<1> QED BY <1>2, <1>3 DEF UpdateCStorVolumeAttachmentCR

-----------------------------------------------------------------------------
(* Every step *)

\* What a goroutine does to the CVAs.
LEMMA GoesSpares ==
  ASSUME TypeOK, NEW n \in Nodes, NEW t \in Threads, Goes(n, t),
         NEW m \in Nodes, CopyInv(m)
  PROVE  CopyInv(m)' /\ Spares(m)
<1> USE ReadsSpares
<1>0. cva[n] \in CVARecord
  BY DEF TypeOK
<1>1. ASSUME UNCHANGED <<cva, fresh>>
      PROVE  Reads(n, t)
  BY <1>1 DEF Reads
<1>2. ASSUME ReadCVA(n, t), pc[n][t] \notin CleanupCalls
      PROVE  Reads(n, t)
  BY <1>2 DEF ReadCVA, Reads
<1>3. CASE NodeStageVolume(n, t)
  <2>1. CASE StageDel(n, t)
    <3>1. UNCHANGED <<cva, fresh>> \/ \E k \in Nodes : Deletes(k)
      BY <2>1 DEF StageDel, Deletes
    <3> QED BY <1>1, <3>1, DeletesSpares
  <2>2. CASE StageCreate(n, t)
    <3>1. UNCHANGED <<cva, fresh>> \/ (~cva[n].exists /\ WriteCVA(n, NewCVA, {}))
      BY <2>2 DEF StageCreate
    <3> QED BY <1>1, <3>1, CreateSpares
  <2>3. CASE StageGet(n, t)
    BY <1>1, <1>2, <2>3 DEF StageGet, At, CleanupCalls, cluster
  <2>4. CASE StageUpdate(n, t)
    <3> DEFINE new == [cva[n] EXCEPT !.staging = TRUE, !.finalizers = {"node"}]
    <3>1. /\ new \in CVARecord
          /\ new.exists = cva[n].exists /\ new.deleting = cva[n].deleting
          /\ "node" \in new.finalizers
      BY <1>0 DEF CVARecord
    <3>2. Reads(n, t) \/ Updates(n, t, new)
      BY <2>4, UpdateOrNot DEF StageUpdate, At, Calls, StageCalls, CleanupCalls
    <3> HIDE DEF new
    <3> QED BY <3>1, <3>2, UpdatesSpares
  <2>5. CASE StageUndo(n, t)
    <3> DEFINE new == [cva[n] EXCEPT !.finalizers = {}]
    <3>1. /\ new \in CVARecord
          /\ new.exists = cva[n].exists /\ new.deleting = cva[n].deleting
      BY <1>0 DEF CVARecord
    <3>2. OnError("stage_undo") = "stage_err"
      BY DEF OnError, StageCalls, UnstageCalls, PublishCalls, UnpublishCalls,
         ExpandCalls, CleanupCalls
    <3>3. \/ Reads(n, t)
          \/ /\ Updates(n, t, new)
             /\ pc[n][t] = "stage_undo" /\ pc'[n][t] # pc[n][t]
      BY <2>5, <3>2, UpdateOrNot DEF StageUndo, At, Calls, StageCalls, CleanupCalls
    <3> HIDE DEF new
    <3> QED BY <3>1, <3>3, UpdatesSpares
  <2>6. CASE \/ StageList(n, t) \/ StageNodes(n, t) \/ StageDelList(n, t)
             \/ StageWait(n, t) \/ StageVerify(n, t) \/ StageAttach(n, t)
             \/ StageMkdir(n, t) \/ StageMount(n, t)
    BY <1>1, <2>6 DEF StageList, StageNodes, StageDelList, StageWait, StageVerify,
       StageAttach, StageMkdir, StageMount, cluster
  <2> QED BY <1>3, <2>1, <2>2, <2>3, <2>4, <2>5, <2>6 DEF NodeStageVolume
<1>4. CASE NodeUnstageVolume(n, t)
  <2>1. CASE UnstageGet(n, t)
    BY <1>1, <1>2, <2>1 DEF UnstageGet, At, CleanupCalls, cluster
  <2>2. CASE UnstageUpdate(n, t)
    <3> DEFINE new == [cva[n] EXCEPT !.finalizers = {}, !.staging = FALSE]
    <3>1. /\ new \in CVARecord
          /\ new.exists = cva[n].exists /\ new.deleting = cva[n].deleting
      BY <1>0 DEF CVARecord
    <3>2. OnError("unstage_update") = "unstage_err"
      BY DEF OnError, StageCalls, UnstageCalls, PublishCalls, UnpublishCalls,
         ExpandCalls, CleanupCalls
    <3>3. \/ Reads(n, t)
          \/ /\ Updates(n, t, new)
             /\ pc[n][t] = "unstage_update" /\ pc'[n][t] # pc[n][t]
      BY <2>2, <3>2, UpdateOrNot DEF UnstageUpdate, At, Calls, UnstageCalls,
         CleanupCalls
    <3> HIDE DEF new
    <3> QED BY <3>1, <3>3, UpdatesSpares
  <2>3. CASE UnstageDelete(n, t)
    <3>1. UNCHANGED <<cva, fresh>> \/ Deletes(n)
      BY <2>3 DEF UnstageDelete, Deletes
    <3> QED BY <1>1, <3>1, DeletesSpares
  <2>4. CASE UnstageDetach(n, t) \/ UnstageLogout(n, t) \/ UnstageRemove(n, t)
    BY <1>1, <2>4 DEF UnstageDetach, UnstageLogout, UnstageRemove, DetachUnmount,
       DetachLogout, DetachRemove, cluster
  <2> QED BY <1>4, <2>1, <2>2, <2>3, <2>4 DEF NodeUnstageVolume
<1>5. CASE \/ NodePublishVolume(n, t) \/ NodeUnpublishVolume(n, t)
           \/ NodeExpandVolume(n, t)
  <2>1. CASE PublishGet(n, t) \/ UnpublishGet(n, t)
    BY <1>1, <1>2, <2>1 DEF PublishGet, UnpublishGet, At, CleanupCalls, cluster
  <2>2. ASSUME NEW b \in BOOLEAN, NEW p \in {"publish_mount", "unpublish_ok"},
               pc[n][t] \in Calls,
               UpdateCStorVolumeAttachmentCR(n, t, [cva[n] EXCEPT !.target = b], p)
        PROVE  CopyInv(m)' /\ Spares(m)
    <3> DEFINE new == [cva[n] EXCEPT !.target = b]
    <3>1. /\ new \in CVARecord
          /\ new.exists = cva[n].exists /\ new.deleting = cva[n].deleting
          /\ new.finalizers = cva[n].finalizers
      BY <1>0 DEF CVARecord
    <3>2. Reads(n, t) \/ Updates(n, t, new)
      BY <2>2, UpdateOrNot DEF CleanupCalls
    <3> HIDE DEF new
    <3> QED BY <3>1, <3>2, UpdatesSpares
  <2>3. CASE PublishUpdate(n, t) \/ UnpublishUpdate(n, t)
    BY <2>2, <2>3 DEF PublishUpdate, UnpublishUpdate, At, Calls, PublishCalls,
       UnpublishCalls
  <2>4. CASE \/ PublishMount(n, t) \/ UnpublishCheck(n, t) \/ ExpandGet(n, t)
             \/ ExpandResize(n, t)
    BY <1>1, <2>4 DEF PublishMount, UnpublishCheck, ExpandGet, ExpandResize, cluster
  <2> QED BY <1>5, <2>1, <2>3, <2>4 DEF NodePublishVolume, NodeUnpublishVolume,
          NodeExpandVolume
<1>6. CASE CleanupVolume(n, t)
  <2>1. CASE CleanupUpdate(n, t)
    <3> DEFINE new == [cva[n] EXCEPT !.finalizers = {}]
    <3>1. /\ new \in CVARecord
          /\ new.exists = cva[n].exists /\ new.deleting = cva[n].deleting
      BY <1>0 DEF CVARecord
    <3>2. Reads(n, t) \/ (Updates(n, t, new) /\ pc[n][t] = "cleanup_update")
      BY <2>1, UpdateOrNot DEF CleanupUpdate, At, Calls, CleanupCalls
    <3> HIDE DEF new
    <3> QED BY <3>1, <3>2, UpdatesSpares
  <2>2. CASE CleanupRelease(n, t)
    BY <2>2 DEF CleanupRelease, Reads
  <2>3. CASE CleanupDetach(n, t) \/ CleanupLogout(n, t) \/ CleanupRemove(n, t)
    BY <1>1, <2>3 DEF CleanupDetach, CleanupLogout, CleanupRemove, DetachUnmount,
       DetachLogout, DetachRemove, cluster
  <2> QED BY <1>6, <2>1, <2>2, <2>3 DEF CleanupVolume
<1>7. CASE RemountVolume(n, t)
  BY <1>1, <1>7 DEF RemountVolume, RemountReady, RemountUnmountStaging,
     RemountUnmountTarget, RemountMountStaging, RemountMountTarget, RemountRelease,
     cluster
<1>8. CASE removeVolumeFromTransitionList(n, t)
  BY <1>8 DEF removeVolumeFromTransitionList, Reads
<1>9. CASE CallFails(n, t)
  BY <1>1, <1>9 DEF CallFails, cluster
<1> QED BY <1>3, <1>4, <1>5, <1>6, <1>7, <1>8, <1>9 DEF Goes, Handler

\* A Cleanup begins with a copy of a CVA that is being deleted.
LEMMA StartSpares ==
  ASSUME TypeOK, NEW n \in Nodes, Cleanup(n), UNCHANGED cva,
         NEW m \in Nodes, CopyInv(m)
  PROVE  CopyInv(m)' /\ Spares(m)
<1>0. fresh \in [Nodes -> SUBSET Threads]
  BY DEF TypeOK
<1>1. CASE UNCHANGED <<fresh, pc>>
  BY <1>1, QuietSpares DEF Quiet
<1>2. CASE cva[n].exists /\ cva[n].deleting
  <2>1. PICK t \in Threads :
          /\ fresh' = [fresh EXCEPT ![n] = @ \cup {t}]
          /\ \E a : GotoWith(n, t, "cleanup_detach", a)
    BY <1>2 DEF Cleanup, Idle
  <2>2. m # n => pc'[m] = pc[m] /\ fresh'[m] = fresh[m]
    BY <1>0, <2>1, GotoEffect
  <2> QED BY <1>2, <2>2, QuietSpares DEF Quiet
<1> QED BY <1>1, <1>2 DEF Cleanup

\* The monitor, the start and the death of the driver.
LEMMA DriverSpares ==
  ASSUME TypeOK, NEW n \in Nodes,
         Monitor(n) \/ DriverStart(n) \/ DriverCrash(n) \/ Reboot(n),
         NEW m \in Nodes, CopyInv(m)
  PROVE  CopyInv(m)' /\ Spares(m)
<1>1. CASE MonitorTick(n)
  <2>1. UNCHANGED <<cva, fresh>>
    BY <1>1 DEF MonitorTick, cluster
  <2>2. UNCHANGED pc \/ \E t \in Threads : \E a : GotoWith(n, t, "remount_ready", a)
    BY <1>1 DEF MonitorTick, Idle
  <2>3. \A u \in Threads : pc'[m][u] = pc[m][u] \/ pc'[m][u] = "remount_ready"
    BY <2>2, GotoEffect
  <2> QED BY <2>1, <2>3, NotCleanup, QuietSpares DEF Quiet
<1>2. CASE MonitorCleanup(n) \/ DriverStart(n)
  BY <1>2, StartSpares DEF MonitorCleanup, DriverStart
<1>3. CASE DriverCrash(n) \/ Reboot(n)
  <2>1. UNCHANGED cva /\ ProcessDies(n)
    BY <1>3 DEF DriverCrash, Reboot
  <2>2. fresh'[n] = {} /\ (m # n => pc'[m] = pc[m] /\ fresh'[m] = fresh[m])
    BY <2>1 DEF ProcessDies, TypeOK
  <2> QED BY <2>1, <2>2, QuietSpares DEF Quiet
<1> QED BY <1>1, <1>2, <1>3 DEF Monitor

\* The calls of a kubelet.
LEMMA CallSpares ==
  ASSUME TypeOK, NEW n \in Nodes, KubeletCall(n) \/ CallExpand(n),
         NEW m \in Nodes, CopyInv(m)
  PROVE  CopyInv(m)' /\ Spares(m)
<1>1. PICK p \in {"stage_list", "publish_get", "expand_get", "unpublish_check",
                  "unstage_get"} : \E k : Call(n, p, k)
  BY DEF KubeletCall, CallStage, CallPublish, CallExpand, CallUnpublish, CallUnstage
<1>2. UNCHANGED <<cva, fresh>>
  BY <1>1 DEF Call, cluster
<1>3. UNCHANGED pc \/ \E t \in Threads : Goto(n, t, p)
  BY <1>1 DEF Call, addVolumeToTransitionList, Idle
<1>4. \A u \in Threads : pc'[m][u] = pc[m][u] \/ pc'[m][u] = p
  BY <1>3, GotoEffect
<1> QED BY <1>2, <1>4, NotCleanup, QuietSpares DEF Quiet

\* The garbage collector only touches what is being deleted.
LEMMA CollectSpares ==
  ASSUME TypeOK, NEW n \in Nodes, CollectGarbage(n), NEW m \in Nodes, CopyInv(m)
  PROVE  CopyInv(m)' /\ Spares(m)
<1>1. /\ UNCHANGED pc /\ cva[n].deleting
      /\ cva'[n] = Collected(cva[n]) /\ fresh'[n] = {}
      /\ m # n => cva'[m] = cva[m] /\ fresh'[m] = fresh[m]
  BY DEF CollectGarbage, WriteCVA, TypeOK
<1>2. CASE m = n
  <2>1. cva[n] \in CVARecord
    BY DEF TypeOK
  <2> DEFINE d == [cva[n] EXCEPT !.finalizers = @ \ {"foreground"}]
  <2>2. /\ d.exists = cva[n].exists
        /\ "node" \in d.finalizers => "node" \in cva[n].finalizers
    BY <2>1 DEF CVARecord
  <2>3. Collected(cva[n]) = d \/ Collected(cva[n]).finalizers = {}
    BY DEF Collected, Settle, Absent
  <2> HIDE DEF d
  <2> QED BY <1>1, <1>2, <2>2, <2>3 DEF CopyInv, Spares
<1>3. CASE m # n
  BY <1>1, <1>3, QuietSpares DEF Quiet
<1> QED BY <1>2, <1>3

\* Every step keeps the invariant and takes the finalizer off no live CVA.
LEMMA CopyStep ==
  ASSUME TypeOK, \A m \in Nodes : CopyInv(m), [Next]_allvars
  PROVE  \A m \in Nodes : CopyInv(m)' /\ Spares(m)
<1> SUFFICES ASSUME NEW m \in Nodes
             PROVE  CopyInv(m)' /\ Spares(m)
  OBVIOUS
<1>1. CASE UNCHANGED <<cva, fresh, pc>>
  BY <1>1, QuietSpares DEF Quiet
<1>2. ASSUME NEW n \in Nodes, NEW t \in Threads, Handler(n, t) \/ CallFails(n, t)
      PROVE  CopyInv(m)' /\ Spares(m)
  BY <1>2, GoesSpares DEF Goes
<1>3. ASSUME NEW n \in Nodes,
             \/ CallTimeout(n) \/ KubeletRestart(n) \/ SchedulePod(n) \/ DeletePod(n)
             \/ NodeNotReady(n) \/ NodeReady(n) \/ MountDamaged(n) \/ SessionLost(n)
      PROVE  UNCHANGED <<cva, fresh, pc>>
  BY <1>3 DEF CallTimeout, KubeletRestart, SchedulePod, DeletePod, NodeNotReady,
     NodeReady, MountDamaged, SessionLost, cluster
<1>4. ASSUME VolumeOffline \/ VolumeOnline
      PROVE  UNCHANGED <<cva, fresh, pc>>
  BY <1>4 DEF VolumeOffline, VolumeOnline
<1>5. UNCHANGED allvars => UNCHANGED <<cva, fresh, pc>>
  BY DEF allvars, vars
<1> QED BY <1>1, <1>2, <1>3, <1>4, <1>5, DriverSpares, CallSpares, CollectSpares
        DEF Next, Step

\* In the initial state no Cleanup runs and no CVA exists.
LEMMA CopyInit == Init => \A m \in Nodes : CopyInv(m)
  BY NotCleanup DEF Init, CopyInv, Absent

\* With the monitor on or off, whatever faults strike and however Cleanup's slow
\* detach interleaves with a Stage that has the CVA collected and creates it anew: no
\* Cleanup, no other node's Stage and no garbage collection takes the node's finalizer
\* off a CVA that is not being deleted.
THEOREM LiveAttachmentKept == Spec => CleanupSparesLive
<1> DEFINE Inv == TypeOK /\ \A m \in Nodes : CopyInv(m)
<1>1. Init => Inv
  BY TypeInit, CopyInit
<1>2. Inv /\ [Next]_allvars => Inv'
  BY TypeStep, CopyStep
<1>3. Inv /\ [Next]_allvars =>
        [\A n \in Nodes :
           /\ "node" \in cva[n].finalizers /\ ~cva[n].deleting
           /\ "node" \notin cva'[n].finalizers
           => \E t \in Threads : /\ pc[n][t] \in {"unstage_update", "stage_undo"}
                                 /\ pc'[n][t] # pc[n][t]]_allvars
  BY CopyStep DEF Spares
<1> QED BY <1>1, <1>2, <1>3, PTL DEF Spec, CleanupSparesLive
=============================================================================
