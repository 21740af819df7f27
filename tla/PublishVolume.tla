---------------------------- MODULE PublishVolume ----------------------------
(***************************************************************************)
(* NodePublishVolume, NodeUnpublishVolume and NodeExpandVolume of the node *)
(* plugin, one action per call the handlers make.                          *)
(***************************************************************************)
EXTENDS NodeState

-----------------------------------------------------------------------------
(* NodePublishVolume *)

\* Mutant: a target path on record is taken for a mounted one.
PublishGetRecorded(n, t) ==
  /\ At(n, t, "publish_get")
  /\ IF cva[n].exists
       THEN /\ ReadCVA(n, t)
            /\ Goto(n, t, IF cva[n].target THEN "publish_ok" ELSE "publish_update")
       ELSE Goto(n, t, "publish_err") /\ UNCHANGED cluster
  /\ UNCHANGED <<host, up, TransitionVolList, mon, kubelet, faults>>

PublishGet(n, t) ==
  /\ At(n, t, "publish_get")
  /\ IF cva[n].exists
       THEN ReadCVA(n, t) /\ Goto(n, t, "publish_update")
       ELSE Goto(n, t, "publish_err") /\ UNCHANGED cluster
  /\ UNCHANGED <<host, up, TransitionVolList, mon, kubelet, faults>>

PublishUpdate(n, t) ==
  /\ At(n, t, "publish_update")
  /\ UpdateCStorVolumeAttachmentCR(n, t, [cva[n] EXCEPT !.target = TRUE],
                                   "publish_mount")
  /\ UNCHANGED <<host, up, TransitionVolList, mon, kubelet>>

\* What the bind mount shows: the block device of the CVA's DevicePath, the
\* filesystem mounted on the staging path, or the bare staging directory.
PublishSource(n) ==
  IF accessType = "block"
    THEN IF cva[n].exists /\ cva[n].staging /\ n \in session THEN {"vol"} ELSE {}
    ELSE IF "staging" \notin dir[n] THEN {}
         ELSE IF stg[n] > 0 THEN {"vol"} ELSE {"dir"}

\* nodePublishVolumeForFileSystem and nodePublishVolumeForBlock create the
\* target and bind the source to it, whether or not something is mounted
\* there already; when the bind fails the target is removed.
PublishMount(n, t) ==
  /\ At(n, t, "publish_mount")
  /\ \/ \E v \in PublishSource(n) :
          /\ tgt' = [tgt EXCEPT ![n] = Append(@, v)]
          /\ dir' = [dir EXCEPT ![n] = @ \cup {"target"}]
          /\ Goto(n, t, "publish_ok")
          /\ UNCHANGED faults
     \/ /\ \/ PublishSource(n) = {} /\ UNCHANGED faults
           \/ Fault("error")
        /\ dir' = [dir EXCEPT ![n] = IF tgt[n] = <<>> THEN @ \ {"target"} ELSE @]
        /\ Goto(n, t, "publish_err")
        /\ UNCHANGED tgt
  /\ UNCHANGED <<cluster, session, stg, ro, up, TransitionVolList, mon, kubelet>>

NodePublishVolume(n, t) ==
  PublishGet(n, t) \/ PublishUpdate(n, t) \/ PublishMount(n, t)

-----------------------------------------------------------------------------
(* NodeUnpublishVolume *)

\* IsLikelyNotMountPoint compares device numbers, so it does not see a bind
\* mount of a directory of the same filesystem; such a target, like one that
\* is not mounted, is reported unpublished and the CVA is left alone.
UnpublishCheck(n, t) ==
  /\ At(n, t, "unpublish_check")
  /\ IF tgt[n] = <<>> \/ tgt[n][Len(tgt[n])] = "dir"
       THEN Goto(n, t, "unpublish_ok") /\ UNCHANGED tgt
       ELSE /\ tgt' = [tgt EXCEPT ![n] = Unmounted(@)]
            /\ Goto(n, t, "unpublish_get")
  /\ UNCHANGED <<cluster, session, stg, ro, dir, up, TransitionVolList, mon,
                 kubelet, faults>>

UnpublishGet(n, t) ==
  /\ At(n, t, "unpublish_get")
  /\ IF cva[n].exists
       THEN ReadCVA(n, t) /\ Goto(n, t, "unpublish_update")
       ELSE Goto(n, t, "unpublish_ok") /\ UNCHANGED cluster
  /\ UNCHANGED <<host, up, TransitionVolList, mon, kubelet, faults>>

UnpublishUpdate(n, t) ==
  /\ At(n, t, "unpublish_update")
  /\ UpdateCStorVolumeAttachmentCR(n, t, [cva[n] EXCEPT !.target = FALSE],
                                   "unpublish_ok")
  /\ UNCHANGED <<host, up, TransitionVolList, mon, kubelet>>

NodeUnpublishVolume(n, t) ==
  UnpublishCheck(n, t) \/ UnpublishGet(n, t) \/ UnpublishUpdate(n, t)

-----------------------------------------------------------------------------
(* NodeExpandVolume: rescans the session and grows the filesystem, neither of
   which this model tells apart; it takes the volume out of everyone else's
   hands while it runs. *)

ExpandGet(n, t) ==
  /\ At(n, t, "expand_get")
  /\ Goto(n, t, IF cva[n].exists THEN "expand_resize" ELSE "expand_err")
  /\ UNCHANGED <<cluster, host, up, TransitionVolList, mon, kubelet, faults>>

\* A session that does not answer fails the rescan; a path that is not mounted
\* is skipped without error.
ExpandResize(n, t) ==
  /\ At(n, t, "expand_resize")
  /\ Goto(n, t, IF tgt[n] # <<>> /\ ~(online /\ n \in session)
                  THEN "expand_err" ELSE "expand_ok")
  /\ UNCHANGED <<cluster, host, up, TransitionVolList, mon, kubelet, faults>>

NodeExpandVolume(n, t) == ExpandGet(n, t) \/ ExpandResize(n, t)
=============================================================================
