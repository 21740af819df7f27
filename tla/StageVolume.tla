----------------------------- MODULE StageVolume -----------------------------
(***************************************************************************)
(* NodeStageVolume and NodeUnstageVolume of the node plugin, one action    *)
(* per call the handlers make.  DetachDisk is shared with Cleanup.         *)
(***************************************************************************)
EXTENDS NodeState

-----------------------------------------------------------------------------
(* prepareVolumeForNode *)

\* List the volume's CVAs: the node's own may not be under deletion; the
\* nodes of the others are looked at next.
StageList(n, t) ==
  /\ At(n, t, "stage_list")
  /\ IF cva[n].exists /\ cva[n].deleting
       THEN Goto(n, t, "stage_err")
       ELSE GotoWith(n, t, "stage_nodes", {m \in Nodes \ {n} : cva[m].exists})
  /\ UNCHANGED <<cluster, host, up, TransitionVolList, mon, kubelet, faults>>

\* Mutant: nodes holding another CVA are not asked whether they are ready.
StageNodesUnchecked(n, t) ==
  /\ At(n, t, "stage_nodes")
  /\ Goto(n, t, "stage_dellist")
  /\ UNCHANGED <<cluster, host, up, TransitionVolList, mon, kubelet, faults>>

\* Refuse while a node with another CVA is ready; then build the CVA from the
\* bound CVC and the volume's iSCSI details (failures, and a CVC that is not bound,
\* are CallFails).
StageNodes(n, t) ==
  /\ At(n, t, "stage_nodes")
  /\ Goto(n, t, IF arg[n][t] \cap ready # {} THEN "stage_err" ELSE "stage_dellist")
  /\ UNCHANGED <<cluster, host, up, TransitionVolList, mon, kubelet, faults>>

\* DeleteOldCStorVolumeAttachmentCRs lists again ...
StageDelList(n, t) ==
  /\ At(n, t, "stage_dellist")
  /\ LET old == {m \in Nodes : cva[m].exists}
     IN  GotoWith(n, t, IF old = {} THEN "stage_create" ELSE "stage_del", old)
  /\ UNCHANGED <<cluster, host, up, TransitionVolList, mon, kubelet, faults>>

\* ... and deletes one by one, its own CVA included; one that is gone is an
\* error.  The wait for its own CVA to vanish ends either way.
StageDel(n, t) ==
  /\ At(n, t, "stage_del")
  /\ \E m \in arg[n][t] \cap Nodes :
       IF cva[m].exists
         THEN /\ WriteCVA(m, Deleted(cva[m]),
                          IF cva[m].deleting THEN fresh[m] ELSE {})
              /\ LET rest == arg[n][t] \ {m}
                 IN  Reply(n, t, IF rest = {} THEN "stage_create" ELSE "stage_del",
                           rest)
         ELSE /\ Goto(n, t, "stage_err")
              /\ UNCHANGED <<cva, fresh, faults>>
  /\ UNCHANGED <<ready, online, host, up, TransitionVolList, mon, kubelet>>

\* CreateCStorVolumeAttachmentCR fails if the object still exists.
StageCreate(n, t) ==
  /\ At(n, t, "stage_create")
  /\ IF cva[n].exists
       THEN /\ Goto(n, t, "stage_err")
            /\ UNCHANGED <<cva, fresh, faults>>
       ELSE /\ WriteCVA(n, NewCVA, {})
            /\ Reply(n, t, "stage_get", {})
  /\ UNCHANGED <<ready, online, host, up, TransitionVolList, mon, kubelet>>

-----------------------------------------------------------------------------
(* The rest of NodeStageVolume *)

StageGet(n, t) ==
  /\ At(n, t, "stage_get")
  /\ IF cva[n].exists
       THEN ReadCVA(n, t) /\ Goto(n, t, "stage_wait")
       ELSE Goto(n, t, "stage_err") /\ UNCHANGED cluster
  /\ UNCHANGED <<host, up, TransitionVolList, mon, kubelet, faults>>

\* WaitForVolumeReadyAndReachable gives up after its retries; while it waits
\* for the volume to be ready, not for its portal to be reachable, it marks the
\* volume in the transition list.
StageWait(n, t) ==
  /\ At(n, t, "stage_wait")
  /\ Goto(n, t, IF online THEN "stage_verify" ELSE "stage_err")
  /\ MarkInTransition(n) \/ UNCHANGED TransitionVolList
  /\ UNCHANGED <<cluster, host, up, mon, kubelet, faults>>

\* Mutant: any mount of the volume counts as the staging mount.
StageVerifyAnyMount(n, t) ==
  /\ At(n, t, "stage_verify")
  /\ Goto(n, t, IF stg[n] > 0 \/ tgt[n] # <<>> THEN "stage_ok" ELSE "stage_update")
  /\ UNCHANGED <<cluster, host, up, TransitionVolList, mon, kubelet, faults>>

\* VerifyIfMountRequired: nothing to do when the staging path is mounted; a
\* mount of the volume elsewhere is unmounted first.
StageVerify(n, t) ==
  /\ At(n, t, "stage_verify")
  /\ IF stg[n] > 0
       THEN Goto(n, t, "stage_ok") /\ UNCHANGED tgt
       ELSE /\ Goto(n, t, "stage_update")
            /\ tgt' = [tgt EXCEPT ![n] = Unmounted(@)]
  /\ UNCHANGED <<cluster, session, stg, ro, dir, up, TransitionVolList, mon,
                 kubelet, faults>>

\* Mutant: the finalizer is forgotten.
StageUpdateNoFinalizer(n, t) ==
  /\ At(n, t, "stage_update")
  /\ UpdateCStorVolumeAttachmentCR(n, t, [cva[n] EXCEPT !.staging = TRUE],
                                   "stage_attach")
  /\ UNCHANGED <<host, up, TransitionVolList, mon, kubelet>>

\* Record the staging path and place the node's finalizer.
StageUpdate(n, t) ==
  /\ At(n, t, "stage_update")
  /\ UpdateCStorVolumeAttachmentCR(n, t,
       [cva[n] EXCEPT !.staging = TRUE, !.finalizers = {"node"}],
       "stage_attach")
  /\ UNCHANGED <<host, up, TransitionVolList, mon, kubelet>>

\* attachDisk: log in to the volume, having marked it as being mounted.  A failed
\* attach may have logged in.  Which node the target lets in is outside the driver.
StageAttach(n, t) ==
  /\ At(n, t, "stage_attach")
  /\ MarkInTransition(n)
  /\ \/ /\ online
        /\ session' = session \cup {n}
        /\ Goto(n, t, IF accessType = "block" THEN "stage_ok" ELSE "stage_mkdir")
        /\ UNCHANGED faults
     \/ /\ online
        /\ Fault("error")
        /\ session' = session \cup {n}
        /\ Goto(n, t, "stage_undo")
     \/ /\ ~online
        /\ Goto(n, t, "stage_undo")
        /\ UNCHANGED <<session, faults>>
  /\ UNCHANGED <<cluster, stg, ro, tgt, dir, up, mon, kubelet>>

\* os.MkdirAll of the staging path; its error returns without the undo.
StageMkdir(n, t) ==
  /\ At(n, t, "stage_mkdir")
  /\ dir' = [dir EXCEPT ![n] = @ \cup {"staging"}]
  /\ Goto(n, t, "stage_mount")
  /\ UNCHANGED <<cluster, session, stg, ro, tgt, up, TransitionVolList, mon,
                 kubelet, faults>>

\* The device can be mounted read-write on the staging path: it is attached and
\* answers, the directory is there, and no mount of it is left in read-only state.
Mountable(n) ==
  /\ online /\ n \in session /\ "staging" \in dir[n]
  /\ n \in ro => stg[n] = 0 /\ "vol" \notin {tgt[n][i] : i \in DOMAIN tgt[n]}

\* formatAndMount: done when something is mounted there already.
StageMount(n, t) ==
  /\ At(n, t, "stage_mount")
  /\ IF stg[n] > 0 \/ Mountable(n)
       THEN /\ stg' = [stg EXCEPT ![n] = IF @ > 0 THEN @ ELSE 1]
            /\ ro' = IF stg[n] > 0 THEN ro ELSE ro \ {n}
            /\ Goto(n, t, "stage_ok")
            /\ MarkInTransition(n)
       ELSE /\ Goto(n, t, "stage_undo")
            /\ UNCHANGED <<stg, ro, TransitionVolList>>
  /\ UNCHANGED <<cluster, session, tgt, dir, up, mon, kubelet, faults>>

\* Attach or mount failed: drop the finalizer, keep the staging path.
StageUndo(n, t) ==
  /\ At(n, t, "stage_undo")
  /\ UpdateCStorVolumeAttachmentCR(n, t, [cva[n] EXCEPT !.finalizers = {}],
                                   "stage_err")
  /\ UNCHANGED <<host, up, TransitionVolList, mon, kubelet>>

NodeStageVolume(n, t) ==
  \/ StageList(n, t) \/ StageNodes(n, t) \/ StageDelList(n, t) \/ StageDel(n, t)
  \/ StageCreate(n, t) \/ StageGet(n, t) \/ StageWait(n, t) \/ StageVerify(n, t)
  \/ StageUpdate(n, t) \/ StageAttach(n, t) \/ StageMkdir(n, t)
  \/ StageMount(n, t) \/ StageUndo(n, t)

-----------------------------------------------------------------------------
(* DetachDisk, at the locations of its caller *)

\* Mutant: the path is unmounted without asking whether it is mounted.
DetachUnmountUnchecked(n, t, path, logout, skip) ==
  /\ IF path /\ "staging" \in dir[n]
       THEN /\ stg' = [stg EXCEPT ![n] = @ - 1]
            /\ Goto(n, t, IF stg[n] > 1 THEN OnError(pc[n][t]) ELSE logout)
       ELSE /\ Goto(n, t, skip)
            /\ UNCHANGED stg
  /\ UNCHANGED <<cluster, session, ro, tgt, dir, up, mon, kubelet, faults>>

\* The path is skipped when it does not exist.  Otherwise one mount is taken
\* off it, and a mount still found there is an error (mounts of the volume on
\* other paths are not found).
DetachUnmount(n, t, path, logout, skip) ==
  /\ IF path /\ "staging" \in dir[n]
       THEN /\ stg' = [stg EXCEPT ![n] = IF @ > 0 THEN @ - 1 ELSE 0]
            /\ Goto(n, t, IF stg[n] > 1 THEN OnError(pc[n][t]) ELSE logout)
       ELSE /\ Goto(n, t, skip)
            /\ UNCHANGED stg
  /\ UNCHANGED <<cluster, session, ro, tgt, dir, up, mon, kubelet, faults>>

\* detachISCSIDisk: log out, then forget the target, which may fail with the session
\* gone; no session is no error.
DetachLogout(n, t, rmdir) ==
  /\ session' = session \ {n}
  /\ Reply(n, t, rmdir, {})
  /\ UNCHANGED <<cluster, stg, ro, tgt, dir, up, TransitionVolList, mon, kubelet>>

\* os.RemoveAll of the staging path; a mount point cannot be removed.
DetachRemove(n, t, done) ==
  /\ IF stg[n] = 0
       THEN /\ dir' = [dir EXCEPT ![n] = @ \ {"staging"}]
            /\ Goto(n, t, done)
       ELSE /\ Goto(n, t, OnError(pc[n][t]))
            /\ UNCHANGED dir
  /\ UNCHANGED <<cluster, session, stg, ro, tgt, up, TransitionVolList, mon,
                 kubelet, faults>>

-----------------------------------------------------------------------------
(* NodeUnstageVolume *)

\* Mutant: a CVA under deletion is taken for one that is gone.
UnstageGetDeleting(n, t) ==
  /\ At(n, t, "unstage_get")
  /\ IF cva[n].exists /\ cva[n].staging /\ ~cva[n].deleting
       THEN ReadCVA(n, t) /\ Goto(n, t, "unstage_detach") /\ MarkInTransition(n)
       ELSE /\ Goto(n, t, "unstage_ok")
            /\ UNCHANGED <<cluster, TransitionVolList>>
  /\ UNCHANGED <<host, up, mon, kubelet, faults>>

\* Nothing is left to do when the CVA is gone or records no staging path.
UnstageGet(n, t) ==
  /\ At(n, t, "unstage_get")
  /\ IF cva[n].exists /\ cva[n].staging
       THEN ReadCVA(n, t) /\ Goto(n, t, "unstage_detach") /\ MarkInTransition(n)
       ELSE /\ Goto(n, t, "unstage_ok")
            /\ UNCHANGED <<cluster, TransitionVolList>>
  /\ UNCHANGED <<host, up, mon, kubelet, faults>>

UnstageDetach(n, t) ==
  /\ At(n, t, "unstage_detach")
  /\ DetachUnmount(n, t, TRUE, "unstage_logout", "unstage_update")
  /\ UNCHANGED TransitionVolList

UnstageLogout(n, t) ==
  /\ At(n, t, "unstage_logout")
  /\ DetachLogout(n, t, "unstage_rmdir")

UnstageRemove(n, t) ==
  /\ At(n, t, "unstage_rmdir")
  /\ DetachRemove(n, t, "unstage_update")

\* Mutant: the finalizer is not dropped.
UnstageUpdateKeepsFinalizer(n, t) ==
  /\ At(n, t, "unstage_update")
  /\ MarkInTransition(n)
  /\ UpdateCStorVolumeAttachmentCR(n, t, [cva[n] EXCEPT !.staging = FALSE],
                                   "unstage_delete")
  /\ UNCHANGED <<host, up, mon, kubelet>>

\* Drop the finalizer and the staging path, having marked the volume unmounted.
UnstageUpdate(n, t) ==
  /\ At(n, t, "unstage_update")
  /\ MarkInTransition(n)
  /\ UpdateCStorVolumeAttachmentCR(n, t,
       [cva[n] EXCEPT !.finalizers = {}, !.staging = FALSE], "unstage_delete")
  /\ UNCHANGED <<host, up, mon, kubelet>>

\* Mutant: Unstage leaves its CVA behind.
UnstageKeepsCVA(n, t) ==
  /\ At(n, t, "unstage_delete")
  /\ Goto(n, t, "unstage_ok")
  /\ UNCHANGED <<cluster, host, up, TransitionVolList, mon, kubelet, faults>>

\* DeleteCStorVolumeAttachmentCR: an object that is gone is an error.
UnstageDelete(n, t) ==
  /\ At(n, t, "unstage_delete")
  /\ IF cva[n].exists
       THEN /\ WriteCVA(n, Deleted(cva[n]),
                        IF cva[n].deleting THEN fresh[n] ELSE {})
            /\ Reply(n, t, "unstage_ok", {})
       ELSE /\ Goto(n, t, "unstage_err")
            /\ UNCHANGED <<cva, fresh, faults>>
  /\ UNCHANGED <<ready, online, host, up, TransitionVolList, mon, kubelet>>

NodeUnstageVolume(n, t) ==
  \/ UnstageGet(n, t) \/ UnstageDetach(n, t) \/ UnstageLogout(n, t)
  \/ UnstageRemove(n, t) \/ UnstageUpdate(n, t) \/ UnstageDelete(n, t)
=============================================================================
