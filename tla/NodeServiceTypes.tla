--------------------------- MODULE NodeServiceTypes --------------------------
(***************************************************************************)
(* Type correctness of NodeService, for any number of nodes, goroutines,   *)
(* faults and events: lemmas about the operators the actions are built     *)
(* from, one lemma per group of actions, and the theorem.                  *)
(***************************************************************************)
EXTENDS NodeService, TLAPS

ClusterOK == /\ cva \in [Nodes -> CVARecord]
             /\ fresh \in [Nodes -> SUBSET Threads]
             /\ ready \subseteq Nodes
             /\ online \in BOOLEAN

HostOK == /\ session \subseteq Nodes
          /\ stg \in [Nodes -> Nat]
          /\ ro \subseteq Nodes
          /\ tgt \in [Nodes -> Seq({"vol", "dir"})]
          /\ dir \in [Nodes -> SUBSET Paths]

DriverOK == /\ up \subseteq Nodes
            /\ TransitionVolList \subseteq Nodes
            /\ mon \in [Nodes -> {"off", "wait", "cleanup"}]

ThreadOK == /\ pc \in [Nodes -> [Threads -> Locations]]
            /\ arg \in [Nodes -> [Threads -> SUBSET (Nodes \cup Paths)]]

KubeletRecord == [want : BOOLEAN,
                  st   : {"unstaged", "maybe", "staged"},
                  pub  : {"no", "maybe", "yes"}]

KubeletOK == /\ co \in [Nodes -> KubeletRecord]
             /\ call \in [Nodes -> SUBSET Threads]
             /\ events \in 0..MaxEvents

FaultsOK == faults \in 0..MaxFaults

\* The type invariant, by the tuples the actions leave unchanged together.
LEMMA TypeParts ==
  /\ TypeOK <=> /\ ClusterOK /\ HostOK /\ DriverOK
                /\ ThreadOK /\ KubeletOK /\ FaultsOK
  /\ TypeOK' <=> /\ ClusterOK' /\ HostOK' /\ DriverOK'
                 /\ ThreadOK' /\ KubeletOK' /\ FaultsOK'
  BY DEF TypeOK, ClusterOK, HostOK, DriverOK, ThreadOK, KubeletOK, FaultsOK,
         KubeletRecord

\* What is unchanged keeps its type.
LEMMA Unchanged ==
  ASSUME TypeOK
  PROVE  /\ UNCHANGED cluster => ClusterOK'
         /\ UNCHANGED host => HostOK'
         /\ UNCHANGED <<up, TransitionVolList, mon>> => DriverOK'
         /\ UNCHANGED kubelet => KubeletOK'
         /\ UNCHANGED faults => FaultsOK'
  BY TypeParts DEF cluster, host, kubelet, ClusterOK, HostOK, DriverOK,
     KubeletOK, FaultsOK

-----------------------------------------------------------------------------
(* The operators the actions are built from *)

\* The locations the code's jumps name exist.
LEMMA JumpTargets ==
  /\ Calls \subseteq Locations
  /\ Ends \subseteq Locations
  /\ "idle" \in Locations
  /\ "cleanup_release" \in Locations
  /\ "remount_release" \in Locations
  BY DEF Locations

\* The jumps of NodeStageVolume.
LEMMA StageTargets ==
  /\ {"stage_nodes", "stage_dellist", "stage_del", "stage_create", "stage_get",
      "stage_wait", "stage_verify", "stage_update", "stage_attach",
      "stage_mkdir", "stage_mount", "stage_undo"} \subseteq Calls
  /\ {"stage_ok", "stage_err"} \subseteq Locations
  BY JumpTargets DEF Calls, StageCalls, Ends

\* The jumps of NodeUnstageVolume and Cleanup.
LEMMA UnstageTargets ==
  /\ {"unstage_detach", "unstage_logout", "unstage_rmdir", "unstage_update",
      "unstage_delete", "cleanup_detach", "cleanup_logout", "cleanup_rmdir",
      "cleanup_update"} \subseteq Calls
  /\ {"unstage_ok", "unstage_err"} \subseteq Locations
  BY JumpTargets DEF Calls, UnstageCalls, CleanupCalls, Ends

\* The jumps of NodePublishVolume, NodeUnpublishVolume and NodeExpandVolume.
LEMMA PublishTargets ==
  /\ {"publish_update", "publish_mount", "unpublish_get", "unpublish_update",
      "expand_resize"} \subseteq Calls
  /\ {"publish_ok", "publish_err", "unpublish_ok", "unpublish_err",
      "expand_ok", "expand_err"} \subseteq Locations
  BY JumpTargets DEF Calls, PublishCalls, UnpublishCalls, ExpandCalls, Ends

\* The jumps of RemountVolume.
LEMMA RemountTargets ==
  {"remount_ready", "remount_umount_s", "remount_umount_t", "remount_mount_s",
   "remount_mount_t"} \subseteq Calls
  BY DEF Calls, RemountCalls

\* A failing call leads to a location.
LEMMA OnErrorType ==
  \A p \in Calls : OnError(p) \in Locations
<1>1. \A p \in StageCalls : OnError(p) \in Locations
  BY JumpTargets DEF OnError, StageCalls, Calls, Ends
<1>2. \A p \in UnstageCalls : OnError(p) \in Locations
  BY JumpTargets DEF OnError, StageCalls, UnstageCalls, Ends
<1>3. \A p \in PublishCalls : OnError(p) \in Locations
  BY JumpTargets DEF OnError, StageCalls, UnstageCalls, PublishCalls, Ends
<1>4. \A p \in UnpublishCalls : OnError(p) \in Locations
  BY JumpTargets DEF OnError, StageCalls, UnstageCalls, PublishCalls,
     UnpublishCalls, Ends
<1>5. \A p \in ExpandCalls : OnError(p) \in Locations
  BY JumpTargets DEF OnError, StageCalls, UnstageCalls, PublishCalls,
     UnpublishCalls, ExpandCalls, Ends
<1>6. \A p \in CleanupCalls : OnError(p) \in Locations
  BY JumpTargets DEF OnError, StageCalls, UnstageCalls, PublishCalls,
     UnpublishCalls, ExpandCalls, CleanupCalls
<1>7. \A p \in RemountCalls : OnError(p) \in Locations
  BY JumpTargets DEF OnError, StageCalls, UnstageCalls, PublishCalls,
     UnpublishCalls, ExpandCalls, CleanupCalls, RemountCalls, Calls
<1> QED BY <1>1, <1>2, <1>3, <1>4, <1>5, <1>6, <1>7 DEF Calls

\* A jump to a location keeps pc and arg well formed.
LEMMA GotoType ==
  ASSUME TypeOK, NEW n \in Nodes, NEW t \in Threads, NEW p \in Locations,
         NEW a \in SUBSET (Nodes \cup Paths)
  PROVE  /\ Goto(n, t, p) => ThreadOK'
         /\ GotoWith(n, t, p, a) => ThreadOK'
<1> DEFINE Args == SUBSET (Nodes \cup Paths)
<1>1. {} \in Args
  OBVIOUS
<1>2. /\ pc \in [Nodes -> [Threads -> Locations]]
      /\ arg \in [Nodes -> [Threads -> Args]]
  BY DEF TypeOK
<1> HIDE DEF Args
<1>3. \A b \in Args : GotoWith(n, t, p, b) =>
        /\ pc' \in [Nodes -> [Threads -> Locations]]
        /\ arg' \in [Nodes -> [Threads -> Args]]
  BY <1>2 DEF GotoWith
<1>4. Goto(n, t, p) => GotoWith(n, t, p, {})
  BY DEF Goto, GotoWith
<1> QED BY <1>1, <1>3, <1>4 DEF ThreadOK, Args

\* Faults stay within their bound.
LEMMA FaultType ==
  ASSUME TypeOK, NEW k, Fault(k)
  PROVE  FaultsOK'
  BY ConstantsAssumption DEF TypeOK, FaultsOK, Fault

\* A reply that arrives or is lost.
LEMMA ReplyType ==
  ASSUME TypeOK, NEW n \in Nodes, NEW t \in Threads, pc[n][t] \in Calls,
         NEW p \in Locations, NEW a \in SUBSET (Nodes \cup Paths),
         Reply(n, t, p, a)
  PROVE  ThreadOK' /\ FaultsOK'
  BY GotoType, FaultType, OnErrorType, Unchanged DEF Reply

\* Deleting, settling and collecting give well-formed objects.
LEMMA SettleType ==
  \A c \in CVARecord : /\ Settle(c) \in CVARecord
                       /\ Deleted(c) \in CVARecord
                       /\ Collected(c) \in CVARecord
  BY DEF CVARecord, Settle, Deleted, Collected, Absent

\* So do the changes the handlers make to their copy of the CVA.
LEMMA RecordTypes ==
  ASSUME NEW c \in CVARecord
  PROVE  /\ [c EXCEPT !.staging = TRUE, !.finalizers = {"node"}] \in CVARecord
         /\ [c EXCEPT !.finalizers = {}] \in CVARecord
         /\ [c EXCEPT !.finalizers = {}, !.staging = FALSE] \in CVARecord
         /\ [c EXCEPT !.target = TRUE] \in CVARecord
         /\ [c EXCEPT !.target = FALSE] \in CVARecord
<1>1. /\ [c EXCEPT !.target = TRUE] \in CVARecord
      /\ [c EXCEPT !.target = FALSE] \in CVARecord
  BY DEF CVARecord
<1>2. \A f \in SUBSET {"node", "foreground"} :
        [c EXCEPT !.finalizers = f] \in CVARecord
  BY DEF CVARecord
<1>3. \A f \in SUBSET {"node", "foreground"}, b \in BOOLEAN :
        /\ [c EXCEPT !.staging = b, !.finalizers = f] \in CVARecord
        /\ [c EXCEPT !.finalizers = f, !.staging = b] \in CVARecord
  BY DEF CVARecord
<1> QED BY <1>1, <1>2, <1>3

\* A write to a CVA.
LEMMA WriteType ==
  ASSUME TypeOK, NEW n \in Nodes, NEW c \in CVARecord, NEW h \in SUBSET Threads,
         WriteCVA(n, c, h), UNCHANGED <<ready, online>>
  PROVE  ClusterOK'
  BY TypeParts DEF WriteCVA, ClusterOK

\* A read of a CVA.
LEMMA ReadType ==
  ASSUME TypeOK, NEW n \in Nodes, NEW t \in Threads, ReadCVA(n, t)
  PROVE  ClusterOK'
  BY TypeParts DEF ReadCVA, ClusterOK

\* An update, accepted or refused.
LEMMA UpdateType ==
  ASSUME TypeOK, NEW n \in Nodes, NEW t \in Threads, pc[n][t] \in Calls,
         NEW new \in CVARecord, NEW p \in Locations,
         UpdateCStorVolumeAttachmentCR(n, t, new, p)
  PROVE  ClusterOK' /\ ThreadOK' /\ FaultsOK'
<1>1. CASE /\ t \in fresh[n] /\ MayUpdate(cva[n], new)
           /\ WriteCVA(n, Settle(new), {t})
           /\ Reply(n, t, p, {})
  BY <1>1, SettleType, WriteType, ReplyType DEF UpdateCStorVolumeAttachmentCR
<1>2. CASE /\ Goto(n, t, OnError(pc[n][t]))
           /\ UNCHANGED <<cva, fresh, faults>>
  BY <1>2, GotoType, OnErrorType, Unchanged DEF UpdateCStorVolumeAttachmentCR,
     cluster
<1> QED BY <1>1, <1>2 DEF UpdateCStorVolumeAttachmentCR

\* Unmounting leaves a sequence of mounts.
LEMMA UnmountedType ==
  \A s \in Seq({"vol", "dir"}) : Unmounted(s) \in Seq({"vol", "dir"})
  BY DEF Unmounted
-----------------------------------------------------------------------------
(* Every action keeps the type invariant *)

\* NodeStageVolume keeps the types.
LEMMA StageTypes ==
  ASSUME TypeOK, NEW n \in Nodes, NEW t \in Threads, NodeStageVolume(n, t)
  PROVE  TypeOK'
<1> USE JumpTargets, StageTargets
<1>1. CASE StageList(n, t)
  BY <1>1, GotoType, Unchanged, TypeParts DEF StageList
<1>2. CASE StageNodes(n, t)
  BY <1>2, GotoType, Unchanged, TypeParts DEF StageNodes
<1>3. CASE StageDelList(n, t)
  BY <1>3, GotoType, Unchanged, TypeParts DEF StageDelList
<1>4. CASE StageDel(n, t)
  <2>1. PICK m \in arg[n][t] \cap Nodes :
          IF cva[m].exists
            THEN /\ WriteCVA(m, Deleted(cva[m]),
                             IF cva[m].deleting THEN fresh[m] ELSE {})
                 /\ LET rest == arg[n][t] \ {m}
                    IN  Reply(n, t, IF rest = {} THEN "stage_create"
                                    ELSE "stage_del", rest)
            ELSE /\ Goto(n, t, "stage_err")
                 /\ UNCHANGED <<cva, fresh, faults>>
    BY <1>4 DEF StageDel
  <2>2. ClusterOK' /\ ThreadOK' /\ FaultsOK'
    <3>1. CASE cva[m].exists
      <4>1. arg[n][t] \ {m} \in SUBSET (Nodes \cup Paths)
        BY DEF TypeOK
      <4>2. /\ Deleted(cva[m]) \in CVARecord
            /\ (IF cva[m].deleting THEN fresh[m] ELSE {}) \in SUBSET Threads
        BY SettleType DEF TypeOK
      <4>3. ClusterOK'
        BY <1>4, <2>1, <3>1, <4>2, WriteType DEF StageDel
      <4>4. ThreadOK' /\ FaultsOK'
        BY <1>4, <2>1, <3>1, <4>1, ReplyType DEF StageDel, At
      <4> QED BY <4>3, <4>4
    <3>2. CASE ~cva[m].exists
      BY <1>4, <2>1, <3>2, GotoType, Unchanged DEF StageDel, cluster
    <3> QED BY <3>1, <3>2
  <2> QED BY <1>4, <2>2, Unchanged, TypeParts DEF StageDel
<1>5. CASE StageCreate(n, t)
  <2>1. NewCVA \in CVARecord
    BY DEF NewCVA, Absent, CVARecord
  <2>2. CASE cva[n].exists
    BY <1>5, <2>2, GotoType, Unchanged, TypeParts DEF StageCreate, cluster
  <2>3. CASE ~cva[n].exists
    BY <1>5, <2>1, <2>3, WriteType, ReplyType, Unchanged, TypeParts
       DEF StageCreate, At
  <2> QED BY <2>2, <2>3
<1>6. CASE StageGet(n, t)
  BY <1>6, GotoType, ReadType, Unchanged, TypeParts DEF StageGet
<1>7. CASE StageWait(n, t)
  <2>1. DriverOK'
    BY <1>7, TypeParts DEF StageWait, MarkInTransition, DriverOK
  <2> QED BY <1>7, <2>1, GotoType, Unchanged, TypeParts DEF StageWait
<1>8. CASE StageVerify(n, t)
  <2>1. HostOK'
    <3>1. HostOK
      BY TypeParts
    <3>2. /\ UNCHANGED <<session, stg, ro, dir>>
          /\ tgt' = tgt \/ tgt' = [tgt EXCEPT ![n] = Unmounted(@)]
      BY <1>8 DEF StageVerify
    <3>3. Unmounted(tgt[n]) \in Seq({"vol", "dir"})
      BY <3>1, UnmountedType DEF HostOK
    <3> QED
      BY <3>1, <3>2, <3>3 DEF HostOK
  <2> QED BY <1>8, <2>1, GotoType, Unchanged, TypeParts DEF StageVerify
<1>9. CASE StageUpdate(n, t)
  <2>1. [cva[n] EXCEPT !.staging = TRUE, !.finalizers = {"node"}] \in CVARecord
    BY RecordTypes DEF TypeOK
  <2> QED BY <1>9, <2>1, UpdateType, Unchanged, TypeParts DEF StageUpdate, At
<1>10. CASE StageAttach(n, t)
  <2>1. DriverOK'
    <3>1. /\ TransitionVolList' = TransitionVolList \cup {n}
          /\ UNCHANGED <<up, mon>>
      BY <1>10 DEF StageAttach, MarkInTransition
    <3> QED BY <3>1, TypeParts DEF DriverOK
  <2>2. HostOK'
    <3>1. /\ session' = session \cup {n} \/ session' = session
          /\ UNCHANGED <<stg, ro, tgt, dir>>
      BY <1>10 DEF StageAttach
    <3> QED BY <3>1, TypeParts DEF HostOK
  <2>3. ThreadOK' /\ FaultsOK'
    BY <1>10, GotoType, FaultType, Unchanged DEF StageAttach
  <2> QED BY <1>10, <2>1, <2>2, <2>3, Unchanged, TypeParts DEF StageAttach
<1>11. CASE StageMkdir(n, t)
  <2>1. HostOK'
    BY <1>11, TypeParts DEF StageMkdir, HostOK, Paths
  <2> QED BY <1>11, <2>1, GotoType, Unchanged, TypeParts DEF StageMkdir
<1>12. CASE StageMount(n, t)
  <2>1. DriverOK'
    BY <1>12, TypeParts DEF StageMount, MarkInTransition, DriverOK
  <2>2. HostOK'
    <3>1. CASE stg[n] > 0 \/ Mountable(n)
      <4>1. /\ stg' = [stg EXCEPT ![n] = IF @ > 0 THEN @ ELSE 1]
            /\ ro' = IF stg[n] > 0 THEN ro ELSE ro \ {n}
            /\ UNCHANGED <<session, tgt, dir>>
        BY <1>12, <3>1 DEF StageMount
      <4> QED BY <4>1, TypeParts DEF HostOK
    <3>2. CASE ~(stg[n] > 0 \/ Mountable(n))
      BY <1>12, <3>2, Unchanged DEF StageMount, host
    <3> QED BY <3>1, <3>2
  <2> QED BY <1>12, <2>1, <2>2, GotoType, Unchanged, TypeParts DEF StageMount
<1>13. CASE StageUndo(n, t)
  <2>1. [cva[n] EXCEPT !.finalizers = {}] \in CVARecord
    BY RecordTypes DEF TypeOK
  <2> QED BY <1>13, <2>1, UpdateType, Unchanged, TypeParts DEF StageUndo, At
<1> QED
  BY <1>1, <1>2, <1>3, <1>4, <1>5, <1>6, <1>7, <1>8, <1>9, <1>10, <1>11, <1>12,
     <1>13 DEF NodeStageVolume

\* The steps Unstage and Cleanup share.
LEMMA DetachTypes ==
  ASSUME TypeOK, NEW n \in Nodes, NEW t \in Threads, pc[n][t] \in Calls,
         NEW p \in Locations, NEW q \in Locations
  PROVE  /\ \A path : DetachUnmount(n, t, path, p, q) /\ UNCHANGED TransitionVolList
                        => TypeOK'
         /\ DetachLogout(n, t, p) => TypeOK'
         /\ DetachRemove(n, t, p) => TypeOK'
<1>1. ASSUME NEW path, DetachUnmount(n, t, path, p, q),
             UNCHANGED TransitionVolList
      PROVE  TypeOK'
  <2>1. stg' = stg \/ stg' = [stg EXCEPT ![n] = IF @ > 0 THEN @ - 1 ELSE 0]
    BY <1>1 DEF DetachUnmount
  <2>2. stg' \in [Nodes -> Nat]
    BY <2>1 DEF TypeOK
  <2>3. HostOK'
    BY <1>1, <2>2, TypeParts DEF DetachUnmount, HostOK
  <2>4. ThreadOK'
    BY <1>1, GotoType, OnErrorType DEF DetachUnmount
  <2> QED BY <1>1, <2>3, <2>4, Unchanged, TypeParts DEF DetachUnmount
<1>2. ASSUME DetachLogout(n, t, p)
      PROVE  TypeOK'
  <2>1. HostOK'
    BY <1>2, TypeParts DEF DetachLogout, HostOK
  <2>2. ThreadOK' /\ FaultsOK'
    BY <1>2, ReplyType DEF DetachLogout
  <2> QED BY <1>2, <2>1, <2>2, Unchanged, TypeParts DEF DetachLogout
<1>3. ASSUME DetachRemove(n, t, p)
      PROVE  TypeOK'
  <2>1. HostOK'
    BY <1>3, TypeParts DEF DetachRemove, HostOK
  <2>2. ThreadOK'
    BY <1>3, GotoType, OnErrorType DEF DetachRemove
  <2> QED BY <1>3, <2>1, <2>2, Unchanged, TypeParts DEF DetachRemove
<1> QED BY <1>1, <1>2, <1>3

\* NodeUnstageVolume keeps the types.
LEMMA UnstageTypes ==
  ASSUME TypeOK, NEW n \in Nodes, NEW t \in Threads, NodeUnstageVolume(n, t)
  PROVE  TypeOK'
<1> USE JumpTargets, UnstageTargets
<1>1. CASE UnstageGet(n, t)
  <2>1. DriverOK'
    BY <1>1, TypeParts DEF UnstageGet, MarkInTransition, DriverOK
  <2> QED BY <1>1, <2>1, GotoType, ReadType, Unchanged, TypeParts DEF UnstageGet
<1>2. CASE UnstageDetach(n, t)
  BY <1>2, DetachTypes DEF UnstageDetach, At
<1>3. CASE UnstageLogout(n, t)
  BY <1>3, DetachTypes DEF UnstageLogout, At
<1>4. CASE UnstageRemove(n, t)
  BY <1>4, DetachTypes DEF UnstageRemove, At
<1>5. CASE UnstageUpdate(n, t)
  <2>1. [cva[n] EXCEPT !.finalizers = {}, !.staging = FALSE] \in CVARecord
    BY RecordTypes DEF TypeOK
  <2>2. DriverOK'
    BY <1>5, TypeParts DEF UnstageUpdate, MarkInTransition, DriverOK
  <2> QED BY <1>5, <2>1, <2>2, UpdateType, Unchanged, TypeParts
          DEF UnstageUpdate, At
<1>6. CASE UnstageDelete(n, t)
  <2>1. CASE cva[n].exists
    <3>1. /\ Deleted(cva[n]) \in CVARecord
          /\ (IF cva[n].deleting THEN fresh[n] ELSE {}) \in SUBSET Threads
      BY SettleType DEF TypeOK
    <3>2. ClusterOK'
      BY <1>6, <2>1, <3>1, WriteType DEF UnstageDelete
    <3>3. ThreadOK' /\ FaultsOK'
      BY <1>6, <2>1, ReplyType DEF UnstageDelete, At
    <3> QED BY <1>6, <3>2, <3>3, Unchanged, TypeParts DEF UnstageDelete
  <2>2. CASE ~cva[n].exists
    BY <1>6, <2>2, GotoType, Unchanged, TypeParts DEF UnstageDelete, cluster
  <2> QED BY <2>1, <2>2
<1> QED
  BY <1>1, <1>2, <1>3, <1>4, <1>5, <1>6 DEF NodeUnstageVolume

\* NodePublishVolume, NodeUnpublishVolume and NodeExpandVolume keep the types.
LEMMA PublishTypes ==
  ASSUME TypeOK, NEW n \in Nodes, NEW t \in Threads,
         NodePublishVolume(n, t) \/ NodeUnpublishVolume(n, t)
           \/ NodeExpandVolume(n, t)
  PROVE  TypeOK'
<1> USE JumpTargets, PublishTargets
<1>1. CASE PublishGet(n, t)
  BY <1>1, GotoType, ReadType, Unchanged, TypeParts DEF PublishGet
<1>2. CASE PublishUpdate(n, t)
  <2>1. [cva[n] EXCEPT !.target = TRUE] \in CVARecord
    BY RecordTypes DEF TypeOK
  <2> QED BY <1>2, <2>1, UpdateType, Unchanged, TypeParts DEF PublishUpdate, At
<1>3. CASE PublishMount(n, t)
  <2>1. PublishSource(n) \subseteq {"vol", "dir"}
    BY DEF PublishSource
  <2>2. HostOK'
    <3>1. CASE \E v \in PublishSource(n) :
                 /\ tgt' = [tgt EXCEPT ![n] = Append(@, v)]
                 /\ dir' = [dir EXCEPT ![n] = @ \cup {"target"}]
      <4>1. PICK v \in {"vol", "dir"} : tgt' = [tgt EXCEPT ![n] = Append(@, v)]
        BY <2>1, <3>1
      <4>2. tgt' \in [Nodes -> Seq({"vol", "dir"})]
        BY <4>1 DEF TypeOK
      <4>3. dir' \in [Nodes -> SUBSET Paths]
        BY <3>1 DEF TypeOK, Paths
      <4> QED BY <1>3, <4>2, <4>3, TypeParts DEF PublishMount, HostOK
    <3>2. CASE /\ UNCHANGED tgt
               /\ dir' = [dir EXCEPT ![n] =
                            IF tgt[n] = <<>> THEN @ \ {"target"} ELSE @]
      BY <1>3, <3>2, TypeParts DEF PublishMount, HostOK
    <3> QED BY <1>3, <3>1, <3>2 DEF PublishMount
  <2>3. ThreadOK'
    BY <1>3, GotoType DEF PublishMount
  <2>4. FaultsOK'
    BY <1>3, FaultType, Unchanged DEF PublishMount
  <2> QED BY <1>3, <2>2, <2>3, <2>4, Unchanged, TypeParts DEF PublishMount
<1>4. CASE UnpublishCheck(n, t)
  <2>1. HostOK'
    <3>1. HostOK
      BY TypeParts
    <3>2. /\ UNCHANGED <<session, stg, ro, dir>>
          /\ tgt' = tgt \/ tgt' = [tgt EXCEPT ![n] = Unmounted(@)]
      BY <1>4 DEF UnpublishCheck
    <3>3. Unmounted(tgt[n]) \in Seq({"vol", "dir"})
      BY <3>1, UnmountedType DEF HostOK
    <3> QED
      BY <3>1, <3>2, <3>3 DEF HostOK
  <2> QED BY <1>4, <2>1, GotoType, Unchanged, TypeParts DEF UnpublishCheck
<1>5. CASE UnpublishGet(n, t)
  BY <1>5, GotoType, ReadType, Unchanged, TypeParts DEF UnpublishGet
<1>6. CASE UnpublishUpdate(n, t)
  <2>1. [cva[n] EXCEPT !.target = FALSE] \in CVARecord
    BY RecordTypes DEF TypeOK
  <2> QED BY <1>6, <2>1, UpdateType, Unchanged, TypeParts DEF UnpublishUpdate, At
<1>7. CASE ExpandGet(n, t)
  BY <1>7, GotoType, Unchanged, TypeParts DEF ExpandGet
<1>8. CASE ExpandResize(n, t)
  BY <1>8, GotoType, Unchanged, TypeParts DEF ExpandResize
<1> QED
  BY <1>1, <1>2, <1>3, <1>4, <1>5, <1>6, <1>7, <1>8
     DEF NodePublishVolume, NodeUnpublishVolume, NodeExpandVolume

\* Cleanup keeps the types.
LEMMA CleanupTypes ==
  ASSUME TypeOK, NEW n \in Nodes, NEW t \in Threads, CleanupVolume(n, t)
  PROVE  TypeOK'
<1> USE JumpTargets, UnstageTargets
<1>1. CASE CleanupDetach(n, t)
  BY <1>1, DetachTypes DEF CleanupDetach, At
<1>2. CASE CleanupLogout(n, t)
  BY <1>2, DetachTypes DEF CleanupLogout, At
<1>3. CASE CleanupRemove(n, t)
  BY <1>3, DetachTypes DEF CleanupRemove, At
<1>4. CASE CleanupUpdate(n, t)
  <2>1. [cva[n] EXCEPT !.finalizers = {}] \in CVARecord
    BY RecordTypes DEF TypeOK
  <2> QED BY <1>4, <2>1, UpdateType, Unchanged, TypeParts DEF CleanupUpdate, At
<1>5. CASE CleanupRelease(n, t)
  <2>1. DriverOK' /\ ClusterOK'
    BY <1>5, TypeParts DEF CleanupRelease, DriverOK, ClusterOK
  <2> QED BY <1>5, <2>1, GotoType, Unchanged, TypeParts DEF CleanupRelease
<1> QED
  BY <1>1, <1>2, <1>3, <1>4, <1>5 DEF CleanupVolume

\* RemountVolume keeps the types.
LEMMA RemountTypes ==
  ASSUME TypeOK, NEW n \in Nodes, NEW t \in Threads, RemountVolume(n, t)
  PROVE  TypeOK'
<1> USE JumpTargets, RemountTargets
<1>0. arg[n][t] \in SUBSET (Nodes \cup Paths)
  BY DEF TypeOK
<1>1. CASE RemountReady(n, t)
  BY <1>0, <1>1, GotoType, Unchanged, TypeParts DEF RemountReady
<1>2. CASE RemountUnmountStaging(n, t)
  <2>1. HostOK'
    BY <1>2, TypeParts DEF RemountUnmountStaging, HostOK
  <2> QED BY <1>0, <1>2, <2>1, GotoType, Unchanged, TypeParts
          DEF RemountUnmountStaging
<1>3. CASE RemountUnmountTarget(n, t)
  <2>1. HostOK'
    BY <1>3, UnmountedType, TypeParts DEF RemountUnmountTarget, HostOK
  <2> QED BY <1>3, <2>1, GotoType, Unchanged, TypeParts DEF RemountUnmountTarget
<1>4. CASE RemountMountStaging(n, t)
  <2>1. \/ stg' = [stg EXCEPT ![n] = @ + 1] /\ ro' = ro \ {n}
        \/ UNCHANGED <<stg, ro>>
    BY <1>4 DEF RemountMountStaging
  <2>2. stg' \in [Nodes -> Nat] /\ ro' \subseteq Nodes
    BY <2>1 DEF TypeOK
  <2>3. HostOK'
    BY <1>4, <2>2, TypeParts DEF RemountMountStaging, HostOK
  <2> QED BY <1>4, <2>3, GotoType, Unchanged, TypeParts DEF RemountMountStaging
<1>5. CASE RemountMountTarget(n, t)
  <2>1. ASSUME NEW v \in {"vol", "dir"}, tgt' = [tgt EXCEPT ![n] = Append(@, v)]
        PROVE  tgt' \in [Nodes -> Seq({"vol", "dir"})]
    BY <2>1 DEF TypeOK
  <2>2. \/ UNCHANGED tgt
        \/ \E v \in {"vol", "dir"} : tgt' = [tgt EXCEPT ![n] = Append(@, v)]
    BY <1>5 DEF RemountMountTarget
  <2>3. tgt' \in [Nodes -> Seq({"vol", "dir"})]
    BY <2>1, <2>2 DEF TypeOK
  <2>4. HostOK'
    BY <1>5, <2>3, TypeParts DEF RemountMountTarget, HostOK
  <2> QED BY <1>5, <2>4, GotoType, Unchanged, TypeParts DEF RemountMountTarget
<1>6. CASE RemountRelease(n, t)
  <2>1. DriverOK'
    BY <1>6, TypeParts DEF RemountRelease, DriverOK
  <2> QED BY <1>6, <2>1, GotoType, Unchanged, TypeParts DEF RemountRelease
<1> QED
  BY <1>1, <1>2, <1>3, <1>4, <1>5, <1>6 DEF RemountVolume

\* The kubelet's knowledge after a reply, a call or a restart is well formed.
LEMMA KubeletTypes ==
  ASSUME NEW k \in KubeletRecord
  PROVE  /\ \A e : Learn(k, e) \in KubeletRecord
         /\ Unsure(k) \in KubeletRecord
         /\ [k EXCEPT !.st = "maybe"] \in KubeletRecord
         /\ [k EXCEPT !.pub = "maybe"] \in KubeletRecord
         /\ \A b \in BOOLEAN : [k EXCEPT !.want = b] \in KubeletRecord
<1>1. \A s \in {"unstaged", "maybe", "staged"} :
        [k EXCEPT !.st = s] \in KubeletRecord
  BY DEF KubeletRecord
<1>2. \A s \in {"no", "maybe", "yes"} : [k EXCEPT !.pub = s] \in KubeletRecord
  BY DEF KubeletRecord
<1>3. \A e : Learn(k, e) \in KubeletRecord
  BY <1>1, <1>2 DEF Learn
<1>4. Unsure(k) \in KubeletRecord
  BY DEF KubeletRecord, Unsure
<1>5. \A b \in BOOLEAN : [k EXCEPT !.want = b] \in KubeletRecord
  BY DEF KubeletRecord
<1> QED BY <1>1, <1>2, <1>3, <1>4, <1>5

\* The return of a handler keeps the types.
LEMMA ReturnTypes ==
  ASSUME TypeOK, NEW n \in Nodes, NEW t \in Threads,
         removeVolumeFromTransitionList(n, t)
  PROVE  TypeOK'
<1>1. DriverOK' /\ ClusterOK'
  BY TypeParts DEF removeVolumeFromTransitionList, DriverOK, ClusterOK
<1>2. ThreadOK'
  BY GotoType, JumpTargets DEF removeVolumeFromTransitionList
<1>3. HostOK'
  BY TypeParts DEF removeVolumeFromTransitionList, HostOK
<1>4. co' \in [Nodes -> KubeletRecord]
  <2>1. co[n] \in KubeletRecord
    BY TypeParts DEF KubeletOK
  <2>2. co' = co \/ co' = [co EXCEPT ![n] = Learn(co[n], pc[n][t])]
    BY TypeParts DEF removeVolumeFromTransitionList, KubeletOK
  <2>3. Learn(co[n], pc[n][t]) \in KubeletRecord
    BY <2>1, KubeletTypes
  <2>4. co \in [Nodes -> KubeletRecord]
    BY TypeParts DEF KubeletOK
  <2> QED BY <2>2, <2>3, <2>4
<1>5. KubeletOK'
  BY <1>4, TypeParts DEF removeVolumeFromTransitionList, KubeletOK
<1> QED
  BY <1>1, <1>2, <1>3, <1>5, Unchanged, TypeParts
     DEF removeVolumeFromTransitionList

\* A failing call keeps the types.
LEMMA FailureTypes ==
  ASSUME TypeOK, NEW n \in Nodes, NEW t \in Threads, CallFails(n, t)
  PROVE  TypeOK'
<1>1. arg[n][t] \in SUBSET (Nodes \cup Paths)
  BY DEF TypeOK
<1>2. DriverOK'
  BY TypeParts DEF CallFails, MarkInTransition, DriverOK
<1> QED BY <1>1, <1>2, GotoType, OnErrorType, FaultType, Unchanged, TypeParts
        DEF CallFails

\* Cleanup touches the transition list, one goroutine and its copy of the CVA.
LEMMA CleanupStartTypes ==
  ASSUME TypeOK, NEW n \in Nodes, Cleanup(n)
  PROVE  /\ TransitionVolList' \subseteq Nodes
         /\ fresh' \in [Nodes -> SUBSET Threads]
         /\ ThreadOK'
<1>1. CASE cva[n].exists /\ cva[n].deleting
  <2>1. PICK t \in Idle(n) :
          /\ TransitionVolList' = TransitionVolList \cup {n}
          /\ fresh' = [fresh EXCEPT ![n] = @ \cup {t}]
          /\ GotoWith(n, t, "cleanup_detach",
                      IF cva[n].staging THEN {"staging"} ELSE {})
    BY <1>1 DEF Cleanup
  <2>2. t \in Threads
    BY DEF Idle
  <2>3. ThreadOK'
    BY <2>1, <2>2, GotoType, JumpTargets, UnstageTargets DEF Paths
  <2> QED BY <2>1, <2>2, <2>3 DEF TypeOK
<1>2. CASE ~(cva[n].exists /\ cva[n].deleting)
  BY <1>2, TypeParts DEF Cleanup, TypeOK, ThreadOK
<1> QED BY <1>1, <1>2

\* MonitorMounts keeps the types.
LEMMA MonitorTypes ==
  ASSUME TypeOK, NEW n \in Nodes, Monitor(n)
  PROVE  TypeOK'
<1>1. CASE MonitorTick(n)
  <2>1. DriverOK'
    BY <1>1, TypeParts DEF MonitorTick, DriverOK
  <2>2. ThreadOK'
    <3>1. CASE UNCHANGED <<pc, arg>>
      BY <3>1, TypeParts DEF ThreadOK
    <3>2. CASE \E t \in Idle(n) :
                 GotoWith(n, t, "remount_ready",
                          (IF stg[n] > 0 THEN {"staging"} ELSE {})
                            \cup (IF tgt[n] # <<>> THEN {"target"} ELSE {}))
      <4>1. (IF stg[n] > 0 THEN {"staging"} ELSE {})
              \cup (IF tgt[n] # <<>> THEN {"target"} ELSE {})
            \in SUBSET (Nodes \cup Paths)
        BY DEF Paths
      <4>2. Idle(n) \subseteq Threads
        BY DEF Idle
      <4> QED BY <3>2, <4>1, <4>2, GotoType, JumpTargets, RemountTargets
    <3> QED BY <1>1, <3>1, <3>2 DEF MonitorTick
  <2> QED BY <1>1, <2>1, <2>2, Unchanged, TypeParts DEF MonitorTick
<1>2. CASE MonitorCleanup(n)
  <2>1. DriverOK' /\ ClusterOK'
    BY <1>2, CleanupStartTypes, TypeParts DEF MonitorCleanup, DriverOK, ClusterOK
  <2> QED BY <1>2, <2>1, CleanupStartTypes, Unchanged, TypeParts
          DEF MonitorCleanup
<1> QED BY <1>1, <1>2 DEF Monitor

\* The death and the start of a driver keep the types.
LEMMA ProcessTypes ==
  ASSUME TypeOK, NEW n \in Nodes,
         DriverCrash(n) \/ Reboot(n) \/ DriverStart(n)
  PROVE  TypeOK'
<1>1. ProcessDies(n) =>
        /\ DriverOK' /\ ThreadOK'
        /\ fresh' \in [Nodes -> SUBSET Threads]
        /\ call' \in [Nodes -> SUBSET Threads]
  BY JumpTargets, TypeParts DEF ProcessDies, DriverOK, ThreadOK, TypeOK
<1>2. CASE DriverCrash(n)
  <2>1. ClusterOK' /\ KubeletOK'
    BY <1>1, <1>2, TypeParts DEF DriverCrash, ClusterOK, KubeletOK
  <2> QED BY <1>1, <1>2, <2>1, FaultType, Unchanged, TypeParts DEF DriverCrash
<1>3. CASE Reboot(n)
  <2>1. ClusterOK'
    BY <1>1, <1>3, TypeParts DEF Reboot, ClusterOK
  <2>2. HostOK'
    BY <1>3, TypeParts DEF Reboot, HostOK
  <2>3. co' \in [Nodes -> KubeletRecord]
    BY <1>3, KubeletTypes, TypeParts DEF Reboot, KubeletOK
  <2>4. KubeletOK'
    BY <1>1, <1>3, <2>3, TypeParts DEF Reboot, KubeletOK
  <2> QED BY <1>1, <1>3, <2>1, <2>2, <2>4, FaultType, TypeParts DEF Reboot
<1>4. CASE DriverStart(n)
  <2>1. DriverOK' /\ ClusterOK'
    BY <1>4, CleanupStartTypes, TypeParts DEF DriverStart, DriverOK, ClusterOK
  <2> QED BY <1>4, <2>1, CleanupStartTypes, Unchanged, TypeParts DEF DriverStart
<1> QED BY <1>2, <1>3, <1>4

\* A call of the kubelet.
LEMMA CallTypes ==
  ASSUME TypeOK, NEW n \in Nodes, NEW p \in Locations,
         NEW k \in KubeletRecord, Call(n, p, k)
  PROVE  /\ ClusterOK' /\ DriverOK' /\ ThreadOK' /\ FaultsOK'
         /\ co' \in [Nodes -> KubeletRecord]
         /\ call' \in [Nodes -> SUBSET Threads]
<1>1. PICK t \in Idle(n) : addVolumeToTransitionList(n, t, p)
  BY DEF Call
<1>2. t \in Threads
  BY DEF Idle
<1>3. DriverOK'
  BY <1>1, TypeParts DEF Call, addVolumeToTransitionList, DriverOK
<1>4. ThreadOK'
  <2>1. CASE UNCHANGED <<pc, arg>>
    BY <2>1, TypeParts DEF ThreadOK
  <2>2. CASE Goto(n, t, p)
    BY <1>2, <2>2, GotoType
  <2> QED BY <1>1, <2>1, <2>2 DEF addVolumeToTransitionList
<1>5. call' \in [Nodes -> SUBSET Threads]
  <2>1. call' = call \/ call' = [call EXCEPT ![n] = {t}]
    BY <1>1 DEF addVolumeToTransitionList
  <2>2. call \in [Nodes -> SUBSET Threads] /\ {t} \in SUBSET Threads
    BY <1>2 DEF TypeOK
  <2> QED BY <2>1, <2>2
<1>6. co' \in [Nodes -> KubeletRecord]
  BY TypeParts DEF Call, KubeletOK
<1> QED BY <1>3, <1>4, <1>5, <1>6, Unchanged DEF Call

\* The calls of the kubelet keep the types.
LEMMA KubeletCallTypes ==
  ASSUME TypeOK, NEW n \in Nodes, KubeletCall(n) \/ CallExpand(n)
  PROVE  TypeOK'
<1>1. {"stage_list", "publish_get", "expand_get", "unpublish_check",
       "unstage_get"} \subseteq Locations
  BY JumpTargets DEF Calls, StageCalls, PublishCalls, ExpandCalls,
     UnpublishCalls, UnstageCalls
<1>2. /\ co[n] \in KubeletRecord
      /\ [co[n] EXCEPT !.st = "maybe"] \in KubeletRecord
      /\ [co[n] EXCEPT !.pub = "maybe"] \in KubeletRecord
  BY KubeletTypes, TypeParts DEF KubeletOK
<1>3. CASE CallStage(n)
  <2>1. /\ Call(n, "stage_list", [co[n] EXCEPT !.st = "maybe"])
        /\ dir' = [dir EXCEPT ![n] = @ \cup {"staging"}]
        /\ UNCHANGED events
    BY <1>3 DEF CallStage
  <2>2. HostOK'
    BY <2>1, TypeParts DEF Call, HostOK, Paths
  <2>3. KubeletOK'
    BY <1>1, <1>2, <2>1, CallTypes, TypeParts DEF KubeletOK
  <2> QED BY <1>1, <1>2, <2>1, <2>2, <2>3, CallTypes, TypeParts
<1>4. ASSUME NEW p \in Locations, NEW k \in KubeletRecord, Call(n, p, k),
             UNCHANGED dir, events' \in 0..MaxEvents
      PROVE  TypeOK'
  <2>1. HostOK'
    BY <1>4, TypeParts DEF Call, HostOK
  <2>2. KubeletOK'
    BY <1>4, CallTypes, TypeParts DEF KubeletOK
  <2> QED BY <1>4, <2>1, <2>2, CallTypes, TypeParts
<1>5. events \in 0..MaxEvents
  BY DEF TypeOK
<1>6. CASE CallPublish(n) \/ CallUnpublish(n) \/ CallUnstage(n)
  BY <1>1, <1>2, <1>4, <1>5, <1>6 DEF CallPublish, CallUnpublish, CallUnstage
<1>7. CASE CallExpand(n)
  <2>1. events' \in 0..MaxEvents
    BY <1>5, <1>7, ConstantsAssumption DEF CallExpand
  <2> QED BY <1>1, <1>2, <1>4, <1>7, <2>1 DEF CallExpand
<1> QED BY <1>3, <1>6, <1>7 DEF KubeletCall

\* Timeouts and restarts of the kubelet, pods, garbage collection, node status
\* and damage.
LEMMA EnvironmentTypes ==
  ASSUME TypeOK, NEW n \in Nodes,
         \/ CallTimeout(n) \/ KubeletRestart(n) \/ SchedulePod(n) \/ DeletePod(n)
         \/ CollectGarbage(n) \/ NodeNotReady(n) \/ NodeReady(n)
         \/ MountDamaged(n) \/ SessionLost(n)
  PROVE  TypeOK'
<1>0. co[n] \in KubeletRecord
  BY TypeParts DEF KubeletOK
<1>1. CASE CallTimeout(n)
  <2>1. KubeletOK' /\ ThreadOK'
    BY <1>1, TypeParts DEF CallTimeout, KubeletOK, ThreadOK
  <2> QED BY <1>1, <2>1, FaultType, Unchanged, TypeParts DEF CallTimeout
<1>2. CASE KubeletRestart(n)
  <2>1. co' \in [Nodes -> KubeletRecord]
    BY <1>0, <1>2, KubeletTypes, TypeParts DEF KubeletRestart, KubeletOK
  <2>2. KubeletOK' /\ ThreadOK'
    BY <1>2, <2>1, TypeParts DEF KubeletRestart, KubeletOK, ThreadOK
  <2> QED BY <1>2, <2>2, FaultType, Unchanged, TypeParts DEF KubeletRestart
<1>3. CASE SchedulePod(n) \/ DeletePod(n)
  <2>1. PICK b \in BOOLEAN : co' = [co EXCEPT ![n].want = b]
    BY <1>3 DEF SchedulePod, DeletePod
  <2>2. co' \in [Nodes -> KubeletRecord]
    BY <2>1, TypeParts DEF KubeletOK, KubeletRecord
  <2>3. events' \in 0..MaxEvents
    BY <1>3, ConstantsAssumption DEF SchedulePod, DeletePod, TypeOK
  <2>4. UNCHANGED <<cluster, host, up, TransitionVolList, pc, arg, mon, call,
                    faults>>
    BY <1>3 DEF SchedulePod, DeletePod
  <2>5. KubeletOK' /\ ThreadOK'
    BY <2>2, <2>3, <2>4, TypeParts DEF KubeletOK, ThreadOK
  <2> QED BY <2>4, <2>5, Unchanged, TypeParts
<1>4. CASE CollectGarbage(n)
  <2>1. Collected(cva[n]) \in CVARecord
    BY SettleType DEF TypeOK
  <2>2. ClusterOK'
    BY <1>4, <2>1, WriteType DEF CollectGarbage
  <2>3. ThreadOK'
    BY <1>4, TypeParts DEF CollectGarbage, ThreadOK
  <2> QED BY <1>4, <2>2, <2>3, Unchanged, TypeParts DEF CollectGarbage
<1>5. CASE NodeNotReady(n) \/ NodeReady(n)
  <2>1. ClusterOK' /\ ThreadOK'
    BY <1>5, TypeParts DEF NodeNotReady, NodeReady, ClusterOK, ThreadOK
  <2> QED BY <1>5, <2>1, FaultType, Unchanged, TypeParts
          DEF NodeNotReady, NodeReady
<1>6. CASE MountDamaged(n)
  <2>1. /\ ro' = ro \cup {n} \/ ro' = ro
        /\ stg' = [stg EXCEPT ![n] = 0] \/ stg' = stg
        /\ tgt' = [tgt EXCEPT ![n] = <<>>] \/ tgt' = tgt
        /\ UNCHANGED <<session, dir, pc, arg>>
    BY <1>6 DEF MountDamaged
  <2>2. tgt' \in [Nodes -> Seq({"vol", "dir"})]
    <3>1. <<>> \in Seq({"vol", "dir"})
      OBVIOUS
    <3>2. tgt \in [Nodes -> Seq({"vol", "dir"})]
      BY DEF TypeOK
    <3> QED BY <2>1, <3>1, <3>2
  <2>3. stg' \in [Nodes -> Nat] /\ ro' \subseteq Nodes
    <3>1. stg \in [Nodes -> Nat] /\ ro \subseteq Nodes
      BY DEF TypeOK
    <3> QED BY <2>1, <3>1
  <2>4. HostOK' /\ ThreadOK'
    BY <2>1, <2>2, <2>3, TypeParts DEF HostOK, ThreadOK
  <2> QED BY <1>6, <2>4, FaultType, Unchanged, TypeParts DEF MountDamaged
<1>7. CASE SessionLost(n)
  <2>1. HostOK' /\ ThreadOK'
    BY <1>7, TypeParts DEF SessionLost, HostOK, ThreadOK
  <2> QED BY <1>7, <2>1, FaultType, Unchanged, TypeParts DEF SessionLost
<1> QED BY <1>1, <1>2, <1>3, <1>4, <1>5, <1>6, <1>7

\* The volume going offline and coming back keep the types.
LEMMA VolumeTypes ==
  ASSUME TypeOK, VolumeOffline \/ VolumeOnline
  PROVE  TypeOK'
<1>1. CASE VolumeOffline
  <2>1. /\ ro' \subseteq Nodes
        /\ online' \in BOOLEAN
        /\ UNCHANGED <<cva, fresh, ready, session, stg, tgt, dir, pc, arg>>
    BY <1>1 DEF VolumeOffline, TypeOK
  <2>2. ClusterOK' /\ HostOK' /\ ThreadOK'
    BY <2>1, TypeParts DEF ClusterOK, HostOK, ThreadOK
  <2> QED BY <1>1, <2>2, FaultType, Unchanged, TypeParts DEF VolumeOffline
<1>2. CASE VolumeOnline
  <2>1. ClusterOK' /\ ThreadOK'
    BY <1>2, TypeParts DEF VolumeOnline, ClusterOK, ThreadOK
  <2> QED BY <1>2, <2>1, Unchanged, TypeParts DEF VolumeOnline
<1> QED BY <1>1, <1>2

\* Every step keeps the types.
LEMMA TypeStep ==
  ASSUME TypeOK, [Next]_allvars
  PROVE  TypeOK'
<1>1. CASE UNCHANGED allvars
  BY <1>1 DEF allvars, vars, TypeOK
<1>2. ASSUME NEW n \in Nodes, NEW t \in Threads, Handler(n, t) \/ CallFails(n, t)
      PROVE  TypeOK'
  BY <1>2, StageTypes, UnstageTypes, PublishTypes, CleanupTypes, RemountTypes,
     ReturnTypes, FailureTypes DEF Handler
<1>3. ASSUME NEW n \in Nodes,
             \/ Monitor(n) \/ DriverStart(n) \/ KubeletCall(n) \/ CallExpand(n)
             \/ CallTimeout(n) \/ KubeletRestart(n) \/ SchedulePod(n)
             \/ DeletePod(n) \/ CollectGarbage(n) \/ NodeNotReady(n)
             \/ NodeReady(n) \/ DriverCrash(n) \/ Reboot(n) \/ MountDamaged(n)
             \/ SessionLost(n)
      PROVE  TypeOK'
  BY <1>3, MonitorTypes, ProcessTypes, KubeletCallTypes, EnvironmentTypes
<1>4. CASE VolumeOffline \/ VolumeOnline
  BY <1>4, VolumeTypes
<1> QED BY <1>1, <1>2, <1>3, <1>4 DEF Next, Step

\* The initial state is well formed.
LEMMA TypeInit == Init => TypeOK
  BY JumpTargets, ConstantsAssumption DEF Init, TypeOK, CVARecord, Absent

\* Every reachable state of the node plugins and their environment is well
\* formed, with or without the monitor and whatever faults strike: in
\* particular no handler unmounts a path more often than it was mounted.
THEOREM TypeCorrect == Spec => []TypeOK
<1>1. Init => TypeOK
  BY TypeInit
<1>2. TypeOK /\ [Next]_allvars => TypeOK'
  BY TypeStep
<1> QED BY <1>1, <1>2, PTL DEF Spec
=============================================================================
