----------------------------- MODULE VolumeLife -----------------------------
(***************************************************************************)
(* The objects of a volume from its claim to its attachment: the CVC that  *)
(* CreateVolume builds and ControllerExpandVolume patches, the CStorVolume *)
(* (CV) the cvc-operator makes of it, the snapshot that CreateSnapshot and *)
(* DeleteSnapshot ask the target of a volume for, and the attachment (CVA) *)
(* that NodeStageVolume builds from the CV.                                *)
(*                                                                         *)
(* Volume "src" is there at the start.  Volume "vol" is asked for by one   *)
(* of the VolumeRequests; it may be a clone of a snapshot of "src".  Each  *)
(* action is one call of a handler, made through the clients of            *)
(* KubeClient.                                                             *)
(***************************************************************************)
EXTENDS Rounding, Sequences, KubeClient

CONSTANTS
  Requests,         \* goroutines the controller can have at once (bound)
  VolumeRequests,   \* what a volume may be asked for with, one in a behaviour
  Nodes,            \* the nodes of the cluster
  FaultKinds,       \* which faults the environment injects
  MaxFaults,        \* how many of them (bound)
  Strings           \* the strings the objects may hold

ASSUME LifeAssumption ==
  /\ "node" \notin Requests
  /\ Nodes # {} /\ "" \notin Nodes
  /\ FaultKinds \subseteq {"error", "lost", "timeout", "crash", "config"}
  /\ MaxFaults \in Nat
  /\ OpenEBSNamespace # ""

ASSUME StringsAssumption ==
  Nodes \cup {OpenEBSNamespace, "", "src", "vol", "snap", "s1", "node", "vol-node",
              "cspc", "pool", "source", "volumeID", "policy", "pvc",
              "created-through", "velero", "nodeID", "Volname", "mount", "block",
              "iqn.vol", "ip:3260", "0", "default"} \subseteq Strings

\* What is known of a request before the driver has looked at it.  The API server
\* admits no claim for nothing, and a source that is named at all is "src".
ASSUME RequestsAssumption ==
  \A r \in VolumeRequests :
    /\ r.name \in {"", "vol"}
    /\ r.size \in Nat \ {0} /\ r.grown \in Nat
    /\ {r.cstorPoolCluster, r.policy, r.pvcName, r.fsType} \subseteq Strings
    /\ r.source \in Seq(Strings)
    /\ r.source # <<>> => r.source[1] \in {"", "src"}
    /\ r.access \in {"", "mount", "block"}
    /\ {r.topology, r.through, r.taken} \subseteq BOOLEAN

CVC == INSTANCE ConfigBuilder
CVA == INSTANCE AttachmentBuilder

VARIABLES
  req,        \* the requests to create, grow and stage "vol"; what this behaviour
              \*   is about: create and delete "vol", "grow" it, "stage" it, delete
              \*   "src", make and delete a "snap"; the snapshot is taken before
  cvc,        \* the CVCs, a store
  cv,         \* the volumes that have a CV, and so a target
  snaps,      \* the snapshots on the targets, by id
  cva,        \* the attachment of "vol" on the node, CVA!Zero when there is none
  pc,         \* [Procs -> Locations]
  arg,        \* [Procs -> what a handler holds]
  co,         \* what the sidecars want and were told
  waiting,    \* the requests the sidecars are waiting for
  readable,   \* where the plugins can read the configuration of a client
  faults

store == <<cvc, cv, snaps, cva>>
vars == <<req, store, pc, arg, co, waiting, readable, faults>>

\* The controller's goroutines, and the one of the node plugin.
Procs == Requests \cup {"node"}

Volumes == {"src", "vol"}

\* The id CreateSnapshot answers with, source volume "@" name, cut at "@".
SnapshotID == <<"src", "s1">>

\* What a handler holds: the volume or snapshot it is about; the node that was
\* chosen; the created-through annotation of the claim; a CVC it has read, and
\* whether the client gave it nil instead; a CVA it builds.
NoArg == [about |-> "", node |-> "", through |-> FALSE, held |-> CVC!Zero,
          isNil |-> FALSE, vol |-> CVA!Zero]

-----------------------------------------------------------------------------
(* Control *)

Goto(p, l) == pc' = [pc EXCEPT ![p] = l]

Fault(k) == /\ k \in FaultKinds
            /\ faults < MaxFaults
            /\ faults' = faults + 1

\* The client and the operation of each call to the API server.
APICall ==
  [create_node   |-> <<NodeClient, "List">>,  create_source |-> <<CVCClient, "Get">>,
   create_get    |-> <<CVCClient, "Get">>,    create_pvc    |-> <<PVCClient("app"), "Get">>,
   create_post   |-> <<CVCClient, "Create">>, delete_get    |-> <<CVCClient, "Get">>,
   delete_del    |-> <<CVCClient, "Delete">>, expand_get    |-> <<CVCClient, "Get">>,
   expand_patch  |-> <<CVCClient, "Patch">>,  expand_verify |-> <<CVCClient, "Get">>,
   snap_get      |-> <<CVClient, "Get">>,     unsnap_get    |-> <<CVClient, "Get">>,
   stage_bound   |-> <<CVCClient, "Get">>,    stage_details |-> <<CVClient, "Get">>,
   stage_create  |-> <<CVAClient, "Create">>]

\* The gRPC calls to a target, and the ends of a handler.
TargetCalls == {"snap_run", "unsnap_run"}
Ends == {"create_ok", "create_err", "delete_ok", "delete_err", "expand_ok",
         "expand_err", "snap_ok", "snap_err", "unsnap_ok", "unsnap_err",
         "stage_ok", "stage_err"}

\* Where the handlers of each kind are.
Creating   == {"create_start", "create_node", "create_source", "create_get",
               "create_pvc", "create_post", "create_ok", "create_err"}
Deleting   == {"delete_get", "delete_del", "delete_ok", "delete_err"}
Expanding  == {"expand_get", "expand_patch", "expand_verify", "expand_ok", "expand_err"}
Snapping   == {"snap_get", "snap_run", "snap_ok", "snap_err"}
Unsnapping == {"unsnap_get", "unsnap_run", "unsnap_ok", "unsnap_err"}
Staging    == {"stage_start", "stage_bound", "stage_details", "stage_create",
               "stage_ok", "stage_err"}
Locations  == {"idle"} \cup Creating \cup Deleting \cup Expanding \cup Snapping
              \cup Unsnapping \cup Staging

\* GetVolumeSourceDetails: the volume's name is the first part of the id.  The
\* second is read without asking whether there is one.
SourceVolume == req.source[1]
SourcePanics == Len(req.source) < 2

\* The name or object a call is made with.
Argument(p) == IF pc[p] = "create_source" THEN SourceVolume ELSE "given"

\* A call at location l of p reaches the API server.
Reaches(p, l) ==
  /\ pc[p] = l
  /\ Sent(APICall[l][1], APICall[l][2], Argument(p), readable)

\* After the volume was looked for: the claim is read if the request names it.
AfterGet == IF req.pvcName = "" THEN "create_post" ELSE "create_pvc"

\* Where a call that fails leads, the client having returned nil or not.  Errors
\* of a Get are not looked at by CreateVolume, DeleteVolume and IsSourceAvailable.
OnError(l, isNil) ==
  CASE l = "create_source" -> IF isNil THEN "create_err" ELSE "create_get"
    [] l = "create_get"    -> AfterGet
    [] l \in {"create_node", "create_pvc", "create_post"} -> "create_err"
    [] l = "delete_get"    -> "delete_del"
    [] l = "delete_del"    -> "delete_err"
    [] l \in {"expand_get", "expand_patch", "expand_verify"} -> "expand_err"
    [] l \in {"snap_get", "snap_run"}                        -> "snap_err"
    [] l \in {"unsnap_get", "unsnap_run"}                    -> "unsnap_err"
    [] l \in {"stage_bound", "stage_details", "stage_create"} -> "stage_err"

\* The client refuses the call or has no clientset: it returns nil.
CallUnsent(p) ==
  /\ pc[p] \in DOMAIN APICall
  /\ pc[p] = "create_source" => ~SourcePanics
  /\ ~Reaches(p, pc[p])
  /\ Goto(p, OnError(pc[p], TRUE))
  /\ arg' = [arg EXCEPT ![p].isNil = TRUE]
  /\ UNCHANGED <<req, store, co, waiting, readable, faults>>

\* The call fails on its way, or the API server or the target does.
CallFails(p) ==
  /\ pc[p] \in DOMAIN APICall \cup TargetCalls
  /\ pc[p] = "create_source" => ~SourcePanics
  /\ pc[p] \in DOMAIN APICall => Reaches(p, pc[p])
  /\ Fault("error")
  /\ Goto(p, OnError(pc[p], FALSE))
  /\ UNCHANGED <<req, store, arg, co, waiting, readable>>

\* A write took effect; its reply arrives or is lost.
Reply(p, l) == \/ Goto(p, l) /\ UNCHANGED faults
               \/ Goto(p, OnError(pc[p], FALSE)) /\ Fault("lost")

\* The controller's process is replaced; the sidecars' calls break off.
Restarted ==
  /\ pc' = [p \in Procs |-> IF p \in Requests THEN "idle" ELSE pc[p]]
  /\ arg' = [p \in Procs |-> IF p \in Requests THEN NoArg ELSE arg[p]]
  /\ waiting' = {}

-----------------------------------------------------------------------------
(* CreateVolume *)

isValidFStype(fstype) == fstype \in {"ext4", "xfs"}

\* Every parameter is given, and each capability is a block device or a valid
\* filesystem for a single writer.
validateVolumeCreateReq(r) ==
  /\ r.name # "" /\ r.cstorPoolCluster # "" /\ r.replicaCount # "" /\ r.casType # ""
  /\ r.capabilities # {}
  /\ \A c \in r.capabilities : /\ c.mount => isValidFStype(c.fsType)
                               /\ c.mode \in {"", "SINGLE_NODE_WRITER"}

\* A request without topology is refused as well.
CreateStart(p) ==
  /\ pc[p] = "create_start"
  /\ Goto(p, IF validateVolumeCreateReq(req) /\ req.topology
               THEN "create_node" ELSE "create_err")
  /\ UNCHANGED <<req, store, arg, co, waiting, readable, faults>>

\* getNode: a node that fits the first preferred topology any node fits; a
\* topology is the set of nodes with its labels.  "" if there is none.
getNode(preferred) ==
  LET fits == {i \in DOMAIN preferred : preferred[i] \cap Nodes # {}}
  IN  IF fits = {} THEN {""}
      ELSE preferred[CHOOSE i \in fits : \A j \in fits : i <= j] \cap Nodes

CreateNode(p) ==
  /\ Reaches(p, "create_node")
  /\ \E n \in getNode(req.preferred) :
       /\ arg' = [arg EXCEPT ![p].node = n]
       /\ Goto(p, IF n = "" \/ req.source = <<"">> THEN "create_err"
                  ELSE IF req.source = <<>> THEN "create_get"
                  ELSE "create_source")
  /\ UNCHANGED <<req, store, co, waiting, readable, faults>>

\* An id without "@" ends the process.
CreateSourcePanic(p) ==
  /\ pc[p] = "create_source" /\ SourcePanics
  /\ Restarted
  /\ UNCHANGED <<req, store, co, readable, faults>>

\* IsSourceAvailable: any object will do, the zero one of a failed Get too.
CreateSource(p) ==
  /\ ~SourcePanics /\ Reaches(p, "create_source")
  /\ Goto(p, "create_get")
  /\ UNCHANGED <<req, store, arg, co, waiting, readable, faults>>

\* Mutant: any object the client returns is taken for the volume.
CreateGetAnyObject(p) ==
  /\ Reaches(p, "create_get")
  /\ Goto(p, "create_ok")
  /\ UNCHANGED <<req, store, arg, co, waiting, readable, faults>>

\* A volume that is there, and not being deleted, is the answer.
CreateGet(p) ==
  /\ Reaches(p, "create_get")
  /\ Goto(p, IF Found(cvc, "vol") /\ ~cvc["vol"].deleting THEN "create_ok" ELSE AfterGet)
  /\ UNCHANGED <<req, store, arg, co, waiting, readable, faults>>

\* The claim tells whether velero restores it; one that is gone is an error.
CreatePVC(p) ==
  /\ Reaches(p, "create_pvc")
  /\ Goto(p, IF "vol" \in co.want THEN "create_post" ELSE "create_err")
  /\ arg' = [arg EXCEPT ![p].through = "vol" \in co.want /\ req.through]
  /\ UNCHANGED <<req, store, co, waiting, readable, faults>>

\* Mutant: nothing protects the CVC from being removed before its CV.
ProvisionUnprotected(r, node, through) ==
  LET size == RoundUpGiB(r.size)
      b1 == CVC!WithNamespace(CVC!WithName(CVC!NewBuilder, r.name), OpenEBSNamespace)
      b2 == CVC!WithLabelsNew(b1, {<<"cspc", r.cstorPoolCluster>>})
      b3 == CVC!WithProvisionCapacityQty(CVC!WithCapacityQty(b2, size), size)
      b4 == CVC!WithReplicaCount(CVC!WithNodeID(b3, node), r.replicaCount)
  IN  CVC!Build(CVC!WithStatusPhase(CVC!WithSource(b4, r.source), "Pending"))

\* ProvisionVolume: the CVC for a request, or an error.
Provision(r, node, through) ==
  LET annotations == {<<"volumeID", r.name>>, <<"policy", r.policy>>, <<"pvc", r.pvcName>>}
                     \cup (IF through THEN {<<"created-through", "velero">>} ELSE {})
      labels == {<<"cspc", r.cstorPoolCluster>>}
                \cup (IF r.source # <<>> THEN {<<"source", r.source[1]>>} ELSE {})
      size == RoundUpGiB(r.size)
      b1 == CVC!WithNamespace(CVC!WithName(CVC!NewBuilder, r.name), OpenEBSNamespace)
      b2 == CVC!WithLabelsNew(CVC!WithAnnotations(b1, annotations), labels)
      b3 == CVC!WithCapacityQty(CVC!WithFinalizers(b2, {"cvc"}), size)
      b4 == CVC!WithNodeID(CVC!WithSource(b3, r.source), node)
      b5 == CVC!WithProvisionCapacityQty(CVC!WithReplicaCount(b4, r.replicaCount), size)
  IN  CVC!Build(CVC!WithStatusPhase(CVC!WithDependentsUpgraded(b5), "Pending"))

\* The CVC is created unless a setter refused or there is one.
CreatePost(p) ==
  LET b == Provision(req, arg[p].node, arg[p].through)
  IN  /\ Reaches(p, "create_post")
      /\ IF b.errs \/ Found(cvc, "vol")
           THEN Goto(p, "create_err") /\ UNCHANGED <<cvc, faults>>
           ELSE cvc' = Put(cvc, "vol", b.obj) /\ Reply(p, "create_ok")
      /\ UNCHANGED <<req, cv, snaps, cva, arg, co, waiting, readable>>

-----------------------------------------------------------------------------
(* DeleteVolume *)

\* Mutant: DeletionTimestamp is not looked at; any volume is taken for one that is
\* being deleted already.
DeleteGetUnread(p) ==
  /\ Reaches(p, "delete_get")
  /\ Goto(p, "delete_ok")
  /\ UNCHANGED <<req, store, arg, co, waiting, readable, faults>>

DeleteGet(p) ==
  LET v == arg[p].about
  IN  /\ Reaches(p, "delete_get")
      /\ Goto(p, IF Found(cvc, v) /\ cvc[v].deleting THEN "delete_ok" ELSE "delete_del")
      /\ UNCHANGED <<req, store, arg, co, waiting, readable, faults>>

\* Mutant: a volume that is gone cannot be deleted.
DeleteDelStrict(p) ==
  LET v == arg[p].about
  IN  /\ Reaches(p, "delete_del")
      /\ IF Found(cvc, v)
           THEN cvc' = Deleted(cvc, v) /\ Reply(p, "delete_ok")
           ELSE Goto(p, "delete_err") /\ UNCHANGED <<cvc, faults>>
      /\ UNCHANGED <<req, cv, snaps, cva, arg, co, waiting, readable>>

\* Mark the CVC; one that is gone is no error.  The event that is sent next is
\* put together from the object of the first Get: nil ends the process.
DeleteDel(p) ==
  LET v == arg[p].about
  IN  /\ Reaches(p, "delete_del")
      /\ cvc' = IF Found(cvc, v) THEN Deleted(cvc, v) ELSE cvc
      /\ \/ arg[p].isNil /\ Restarted /\ UNCHANGED faults
         \/ /\ ~arg[p].isNil /\ Goto(p, "delete_ok")
            /\ UNCHANGED <<arg, waiting, faults>>
         \/ /\ Found(cvc, v) /\ Fault("lost") /\ Goto(p, "delete_err")
            /\ UNCHANGED <<arg, waiting>>
      /\ UNCHANGED <<req, cv, snaps, cva, co, readable>>

-----------------------------------------------------------------------------
(* ControllerExpandVolume, with the whole CVC where ControllerService has its
   sizes *)

Desired == RoundUpGiB(req.grown)

ExpandGet(p) ==
  LET o == cvc["vol"]
  IN  /\ Reaches(p, "expand_get")
      /\ IF ~Found(cvc, "vol")
           THEN Goto(p, "expand_err") /\ UNCHANGED arg
           ELSE /\ Goto(p, IF Desired < o.capacity THEN "expand_err"
                           ELSE IF o.phase = "Pending" THEN "expand_patch"
                           ELSE IF o.capacity > o.status THEN "expand_err"
                           ELSE IF Desired = o.status THEN "expand_ok"
                           ELSE "expand_patch")
                /\ arg' = [arg EXCEPT ![p].held = o]
      /\ UNCHANGED <<req, store, co, waiting, readable, faults>>

\* updateCVCSize works on a copy and sends the difference to what was read.
ExpandPatch(p) ==
  LET new == CVC!Build(CVC!WithCapacityQty(CVC!BuildFrom(FALSE, arg[p].held), Desired))
  IN  /\ Reaches(p, "expand_patch")
      /\ IF Found(cvc, "vol")
           THEN /\ cvc' = Patched(cvc, "vol", arg[p].held, new.obj)
                /\ Reply(p, IF arg[p].held.nodeID = "" THEN "expand_ok"
                                                       ELSE "expand_verify")
           ELSE Goto(p, "expand_err") /\ UNCHANGED <<cvc, faults>>
      /\ UNCHANGED <<req, cv, snaps, cva, arg, co, waiting, readable>>

ExpandVerify(p) ==
  /\ Reaches(p, "expand_verify")
  /\ Goto(p, IF Found(cvc, "vol") /\ cvc["vol"].status = Desired
               THEN "expand_ok" ELSE "expand_err")
  /\ UNCHANGED <<req, store, arg, co, waiting, readable, faults>>

-----------------------------------------------------------------------------
(* CreateSnapshot and DeleteSnapshot *)

\* GetVolumeIP: the target is found through the volume's CV.
SnapGet(p) ==
  /\ Reaches(p, "snap_get")
  /\ Goto(p, IF SnapshotID[1] \in cv THEN "snap_run" ELSE "snap_err")
  /\ UNCHANGED <<req, store, arg, co, waiting, readable, faults>>

\* Mutant: the status in the answer is not looked at.
SnapRunBlind(p) ==
  /\ pc[p] = "snap_run" /\ SnapshotID[1] \in cv
  /\ \/ snaps' = snaps \cup {SnapshotID} /\ Reply(p, "snap_ok")
     \/ Goto(p, "snap_ok") /\ Fault("error") /\ UNCHANGED snaps
  /\ UNCHANGED <<req, cvc, cv, cva, arg, co, waiting, readable>>

\* Mutant: volume and snapshot are swapped on the way to the target.
SnapRunSwapped(p) ==
  /\ pc[p] = "snap_run" /\ SnapshotID[1] \in cv
  /\ snaps' = snaps \cup {<<SnapshotID[2], SnapshotID[1]>>} /\ Reply(p, "snap_ok")
  /\ UNCHANGED <<req, cvc, cv, cva, arg, co, waiting, readable>>

\* The target takes the snapshot, or answers with a status that contains ERR.  A
\* snapshot it has already is no error.
SnapRun(p) ==
  /\ pc[p] = "snap_run" /\ SnapshotID[1] \in cv
  /\ \/ snaps' = snaps \cup {SnapshotID} /\ Reply(p, "snap_ok")
     \/ Goto(p, "snap_err") /\ Fault("error") /\ UNCHANGED snaps
  /\ UNCHANGED <<req, cvc, cv, cva, arg, co, waiting, readable>>

\* DeleteSnapshot refuses an id that has not exactly two parts.
UnsnapGet(p) ==
  /\ Reaches(p, "unsnap_get")
  /\ Goto(p, IF Len(SnapshotID) = 2 /\ SnapshotID[1] \in cv THEN "unsnap_run"
                                                           ELSE "unsnap_err")
  /\ UNCHANGED <<req, store, arg, co, waiting, readable, faults>>

\* Mutant: a snapshot that is gone cannot be deleted.
UnsnapRunStrict(p) ==
  /\ pc[p] = "unsnap_run" /\ SnapshotID[1] \in cv
  /\ IF SnapshotID \in snaps
       THEN snaps' = snaps \ {SnapshotID} /\ Reply(p, "unsnap_ok")
       ELSE Goto(p, "unsnap_err") /\ UNCHANGED <<snaps, faults>>
  /\ UNCHANGED <<req, cvc, cv, cva, arg, co, waiting, readable>>

\* The target destroys the snapshot or answers ERR; one it has not is no error.
UnsnapRun(p) ==
  /\ pc[p] = "unsnap_run" /\ SnapshotID[1] \in cv
  /\ \/ snaps' = snaps \ {SnapshotID} /\ Reply(p, "unsnap_ok")
     \/ Goto(p, "unsnap_err") /\ Fault("error") /\ UNCHANGED snaps
  /\ UNCHANGED <<req, cvc, cv, cva, arg, co, waiting, readable>>

\* The target went away meanwhile: nobody answers the call.
TargetGone(p) ==
  /\ pc[p] \in TargetCalls /\ SnapshotID[1] \notin cv
  /\ Goto(p, OnError(pc[p], FALSE))
  /\ UNCHANGED <<req, store, arg, co, waiting, readable, faults>>

-----------------------------------------------------------------------------
(* prepareVolumeForNode: the attachment that NodeStageVolume creates *)

\* What the cvc-operator puts into the CV of a volume.
Target == [iqn |-> "iqn.vol", targetPortal |-> "ip:3260"]

\* The attachment before the target is known, or an error.
NewAttachment(access, fsType) ==
  LET b1 == CVA!WithName(CVA!NewBuilder, "vol-node")
      b2 == CVA!WithLabels(b1, {<<"nodeID", "node">>, <<"Volname", "vol">>})
      b3 == CVA!WithAccessType(CVA!WithVolName(b2, "vol"), access)
  IN  CVA!Build(CVA!WithReadOnly(CVA!WithFSType(b3, fsType), FALSE))

StageStart(p) ==
  LET b == NewAttachment(req.access, req.fsType)
  IN  /\ pc[p] = "stage_start"
      /\ Goto(p, IF b.errs THEN "stage_err" ELSE "stage_bound")
      /\ arg' = [arg EXCEPT ![p].vol = b.obj]
      /\ UNCHANGED <<req, store, co, waiting, readable, faults>>

\* IsCVCBound: anything that is not pending.
StageBound(p) ==
  /\ Reaches(p, "stage_bound")
  /\ Goto(p, IF Found(cvc, "vol") /\ cvc["vol"].phase # "Pending"
               THEN "stage_details" ELSE "stage_err")
  /\ UNCHANGED <<req, store, arg, co, waiting, readable, faults>>

\* Mutant: the builder works on a copy, and what it builds is dropped.
DetailsDropped(vol) == [obj |-> vol, errs |-> FALSE]

\* FetchAndUpdateISCSIDetails drops what Build returns: the attachment is
\* complete only because the builder works on the caller's object.
FetchAndUpdateISCSIDetails(vol) ==
  LET b1 == CVA!WithIQN(CVA!BuildFrom(FALSE, vol), Target.iqn)
      b2 == CVA!WithLun(CVA!WithTargetPortal(b1, Target.targetPortal), "0")
  IN  CVA!Build(CVA!WithIscsiInterface(b2, "default"))

StageDetails(p) ==
  LET b == FetchAndUpdateISCSIDetails(arg[p].vol)
  IN  /\ Reaches(p, "stage_details")
      /\ IF "vol" \in cv /\ ~b.errs
           THEN /\ Goto(p, "stage_create")
                /\ arg' = [arg EXCEPT ![p].vol = b.obj]
           ELSE Goto(p, "stage_err") /\ UNCHANGED arg
      /\ UNCHANGED <<req, store, co, waiting, readable, faults>>

\* CreateCStorVolumeAttachmentCR names the owner and creates the object, unless
\* there is one.  The owner's Node object is read before; that call failing is the
\* create failing, as neither has an effect and both errors are returned.
StageCreate(p) ==
  /\ Reaches(p, "stage_create")
  /\ IF cva # CVA!Zero
       THEN Goto(p, "stage_err") /\ UNCHANGED <<cva, faults>>
       ELSE /\ cva' = [arg[p].vol EXCEPT !.ownerNodeID = "node"]
            /\ Reply(p, "stage_ok")
  /\ UNCHANGED <<req, cvc, cv, snaps, arg, co, waiting, readable>>

Handler(p) ==
  \/ CreateStart(p) \/ CreateNode(p) \/ CreateSourcePanic(p) \/ CreateSource(p)
  \/ CreateGet(p) \/ CreatePVC(p) \/ CreatePost(p)
  \/ DeleteGet(p) \/ DeleteDel(p)
  \/ ExpandGet(p) \/ ExpandPatch(p) \/ ExpandVerify(p)
  \/ SnapGet(p) \/ SnapRun(p) \/ UnsnapGet(p) \/ UnsnapRun(p)
  \/ TargetGone(p) \/ CallUnsent(p)
  \/ StageStart(p) \/ StageBound(p) \/ StageDetails(p) \/ StageCreate(p)

-----------------------------------------------------------------------------
(* The sidecars (external-provisioner, external-resizer, external-snapshotter)
   and the kubelet.  They wait for one call about a volume or snapshot at a
   time. *)

Learn(k, about, end) ==
  CASE end = "create_ok" -> [k EXCEPT !.vol = "yes"]
    [] end = "expand_ok" -> [k EXCEPT !.grown = TRUE]
    [] end = "snap_ok"   -> [k EXCEPT !.snap = "yes"]
    [] end \in {"delete_ok", "unsnap_ok"} -> [k EXCEPT ![about] = "gone"]
    [] OTHER             -> k

Return(p) ==
  /\ pc[p] \in Ends
  /\ Goto(p, "idle")
  /\ arg' = [arg EXCEPT ![p] = NoArg]
  /\ co' = IF p \in waiting THEN Learn(co, arg[p].about, pc[p]) ELSE co
  /\ waiting' = waiting \ {p}
  /\ UNCHANGED <<req, store, readable, faults>>

Call(about, l, k) ==
  /\ \A p \in waiting : arg[p].about # about
  /\ \E p \in Requests : /\ pc[p] = "idle"
                         /\ Goto(p, l)
                         /\ arg' = [arg EXCEPT ![p] = [NoArg EXCEPT !.about = about]]
                         /\ waiting' = waiting \cup {p}
  /\ co' = k
  /\ UNCHANGED <<req, store, readable, faults>>

\* A clone is asked for once its snapshot is ready.
CallCreate == /\ "vol" \in co.want /\ co.vol \in {"none", "maybe"}
              /\ req.source = SnapshotID => co.snap = "yes"
              /\ Call("vol", "create_start", [co EXCEPT !.vol = "maybe"])

CallExpand == /\ "grow" \in req.uses /\ "vol" \in co.want /\ co.vol = "yes" /\ ~co.grown
              /\ Call("vol", "expand_get", co)

CallDelete(v) == /\ v \notin co.want /\ co[v] \in {"maybe", "yes", "deleting"}
                 /\ Call(v, "delete_get", [co EXCEPT ![v] = "deleting"])

CallSnapshot == /\ "snap" \in co.want /\ co.snap \in {"none", "maybe"}
                /\ Call("snap", "snap_get", [co EXCEPT !.snap = "maybe"])

CallUnsnapshot == /\ "snap" \notin co.want /\ co.snap \in {"maybe", "yes", "deleting"}
                  /\ Call("snap", "unsnap_get", [co EXCEPT !.snap = "deleting"])

\* A pod uses the volume: the kubelet stages it.
CallStage == /\ "stage" \in req.uses /\ co.vol = "yes" /\ cva = CVA!Zero /\ pc["node"] = "idle"
             /\ Goto("node", "stage_start")
             /\ UNCHANGED <<req, store, arg, co, waiting, readable, faults>>

\* NodeUnstageVolume removes the attachment (StageVolume has its steps).
Unstage == /\ cva # CVA!Zero /\ pc["node"] = "idle"
           /\ cva' = CVA!Zero
           /\ UNCHANGED <<req, cvc, cv, snaps, pc, arg, co, waiting, readable, faults>>

\* A sidecar stops waiting; the handler goes on.
CallTimeout == /\ Fault("timeout")
               /\ \E p \in waiting : waiting' = waiting \ {p}
               /\ UNCHANGED <<req, store, pc, arg, co, readable>>

ControllerCrash == /\ Fault("crash")
                   /\ Restarted
                   /\ UNCHANGED <<req, store, co, readable>>

\* The configuration cannot be read, for a while.
ConfigLost == /\ Fault("config")
              /\ readable' = {}
              /\ UNCHANGED <<req, store, pc, arg, co, waiting>>

ConfigBack == /\ readable = {}
              /\ readable' = {"path", "env", "incluster"}
              /\ UNCHANGED <<req, store, pc, arg, co, waiting, faults>>

\* Users ask for a snapshot, and give up what they asked for, for good.
Want == /\ "snap" \in req.uses /\ "snap" \notin co.want /\ co.snap = "none"
        /\ co' = [co EXCEPT !.want = @ \cup {"snap"}]
        /\ UNCHANGED <<req, store, pc, arg, waiting, readable, faults>>

GiveUp(x) == /\ x \in co.want /\ x \in req.uses
             /\ co' = [co EXCEPT !.want = @ \ {x},
                                 ![x] = IF @ = "none" THEN "gone" ELSE @]
             /\ UNCHANGED <<req, store, pc, arg, waiting, readable, faults>>

-----------------------------------------------------------------------------
(* The cvc-operator and the garbage collector *)

\* A clone is made from its snapshot.
Bind(v) ==
  /\ Found(cvc, v) /\ ~cvc[v].deleting /\ cvc[v].phase = "Pending"
  /\ cvc[v].source = <<>> \/ cvc[v].source \in snaps
  /\ cvc' = [cvc EXCEPT ![v].phase = "Bound", ![v].status = cvc[v].provisioned]
  /\ cv' = cv \cup {v}
  /\ UNCHANGED <<req, snaps, cva, pc, arg, co, waiting, readable, faults>>

Resize(v) ==
  /\ Found(cvc, v) /\ ~cvc[v].deleting /\ cvc[v].phase = "Bound"
  /\ cvc[v].capacity > cvc[v].status
  /\ cvc' = [cvc EXCEPT ![v].status = cvc[v].capacity]
  /\ UNCHANGED <<req, cv, snaps, cva, pc, arg, co, waiting, readable, faults>>

\* The volume, its snapshots and then the operator's finalizer are removed.
Reap(v) ==
  /\ Found(cvc, v) /\ cvc[v].deleting /\ "cvc" \in cvc[v].finalizers
  /\ cvc' = Settled([cvc EXCEPT ![v].finalizers = @ \ {"cvc"}], v)
  /\ cv' = cv \ {v}
  /\ snaps' = {s \in snaps : s[1] # v}
  /\ UNCHANGED <<req, cva, pc, arg, co, waiting, readable, faults>>

Collect(v) ==
  /\ Found(cvc, v) /\ cvc[v].deleting /\ "foreground" \in cvc[v].finalizers
  /\ cvc' = Settled([cvc EXCEPT ![v].finalizers = @ \ {"foreground"}], v)
  /\ UNCHANGED <<req, cv, snaps, cva, pc, arg, co, waiting, readable, faults>>

-----------------------------------------------------------------------------

SourceCVC == [CVC!Zero EXCEPT
  !.name = "src", !.namespace = OpenEBSNamespace, !.labels = {<<"cspc", "pool">>},
  !.finalizers = {"cvc"}, !.capacity = 1, !.provisioned = 1, !.status = 1,
  !.replicaCount = 3, !.nodeID = CHOOSE n \in Nodes : TRUE, !.phase = "Bound"]

Init ==
  /\ req \in VolumeRequests
  /\ cvc = [v \in {"src"} |-> SourceCVC]
  /\ cv = {"src"}
  /\ snaps = IF req.taken THEN {SnapshotID} ELSE {}
  /\ cva = CVA!Zero
  /\ pc = [p \in Procs |-> "idle"]
  /\ arg = [p \in Procs |-> NoArg]
  /\ co = [want |-> {"src"} \cup (req.uses \cap {"vol"})
                            \cup (IF req.taken THEN {"snap"} ELSE {}),
           vol |-> IF "vol" \in req.uses THEN "none" ELSE "gone", src |-> "yes",
           snap |-> IF req.taken THEN "yes" ELSE "none", grown |-> FALSE]
  /\ waiting = {}
  /\ readable = {"path", "env", "incluster"}
  /\ faults = 0

Next ==
  \/ \E p \in Procs : Handler(p) \/ CallFails(p) \/ Return(p)
  \/ CallCreate \/ CallExpand \/ CallSnapshot \/ CallUnsnapshot \/ CallStage
  \/ Unstage \/ CallTimeout \/ ControllerCrash \/ ConfigLost \/ ConfigBack \/ Want
  \/ \E x \in Volumes \cup {"snap"} : GiveUp(x)
  \/ \E v \in Volumes : CallDelete(v) \/ Bind(v) \/ Resize(v) \/ Reap(v) \/ Collect(v)

Spec == Init /\ [][Next]_vars

\* Goroutines run, the configuration comes back, sidecars repeat their calls, the
\* operator and the garbage collector act on what is being deleted.  That weak
\* fairness is enough for a call although it waits for a goroutine, whose number
\* is bounded here: no other sidecar repeats its calls for ever.
FairSpec ==
  /\ Spec
  /\ \A p \in Procs : WF_vars(Handler(p) \/ Return(p))
  /\ WF_vars(ConfigBack)
  /\ WF_vars(CallSnapshot) /\ WF_vars(CallUnsnapshot)
  /\ \A v \in Volumes : WF_vars(CallDelete(v)) /\ WF_vars(Reap(v) \/ Collect(v))

-----------------------------------------------------------------------------

\* What a handler can hold.
Args == [about : {""} \cup Volumes \cup {"snap"}, node : Strings, through : BOOLEAN,
         held : CVC!Objects, isNil : BOOLEAN, vol : CVA!Objects]

\* What the sidecars can want and know.
CoTypes == [want : SUBSET (Volumes \cup {"snap"}), grown : BOOLEAN,
            vol  : {"none", "maybe", "yes", "deleting", "gone"},
            src  : {"yes", "deleting", "gone"},
            snap : {"none", "maybe", "yes", "deleting", "gone"}]

TypeOK ==
  /\ req \in VolumeRequests
  /\ DOMAIN cvc \subseteq Volumes /\ cvc \in [DOMAIN cvc -> CVC!Objects]
  /\ cv \subseteq Volumes
  /\ snaps \subseteq {SnapshotID}
  /\ cva \in CVA!Objects
  /\ pc \in [Procs -> Locations]
  /\ arg \in [Procs -> Args]
  /\ co \in CoTypes
  /\ waiting \subseteq Requests
  /\ readable \subseteq {"path", "env", "incluster"}
  /\ faults \in 0..MaxFaults

\* Whatever a request lacks, what calls fail and what is patched, a CVC in the
\* store is one the operator can provision: it names its pool, a node of the
\* cluster, a number of replicas as asked for and a capacity, is protected by the
\* operator's finalizer until its deletion, names the source volume exactly if it
\* is a clone, and tells of velero exactly if the claim does.
OnlyCompleteCVCs ==
  \A v \in DOMAIN cvc :
    LET o == cvc[v]
    IN  /\ o.name = v /\ o.namespace = OpenEBSNamespace
        /\ o.nodeID \in Nodes
        /\ 0 < o.provisioned /\ o.provisioned <= o.capacity
        /\ o.deleting \/ "cvc" \in o.finalizers
        /\ \E pool \in {l[2] : l \in {l \in o.labels : l[1] = "cspc"}} : pool # ""
        /\ {l[2] : l \in {l \in o.labels : l[1] = "source"}}
             = (IF o.source = <<>> THEN {} ELSE {"src"})
        /\ v = "vol" => /\ req.replicaCount \in CVC!Numerals
                        /\ o.replicaCount = CVC!Atoi(req.replicaCount)
                        /\ (<<"created-through", "velero">> \in o.annotations)
                             = (req.through /\ req.pvcName # "")

\* The CV of a volume never outlives its CVC, so what is provisioned on the pools
\* can always be found and removed.
NoOrphanCV == cv \subseteq DOMAIN cvc

\* A volume DeleteVolume was answered for is gone or marked for deletion, although
\* the handler looks at no error of its first call and may die after the second.
\* (For a volume no CreateVolume handler is left over from.)
DeletedIsDeleted == co.src = "gone" => ~Found(cvc, "src") \/ cvc["src"].deleting

\* A snapshot that was answered for, and nobody asked to delete, is on the target
\* of its volume for as long as that volume is wanted.
SnapshotReal == co.snap = "yes" /\ co.src = "yes" => SnapshotID \in snaps

\* What a node needs to mount a volume, and to log in to its target.
Mountable(a) == /\ a.volName = "vol" /\ a.accessType \in {"mount", "block"}
                /\ a.accessType = "mount" => a.fsType # ""
Connectable(a) == /\ a.iqn = Target.iqn /\ a.targetPortal = Target.targetPortal
                  /\ a.lun # "" /\ a.iscsiInterface # ""

\* An attachment in the store has all that a node needs to log in and mount.
AttachmentComplete ==
  cva # CVA!Zero => Mountable(cva) /\ Connectable(cva) /\ cva.ownerNodeID # ""

\* A patch from an old copy of the CVC does not undo what the operator did since:
\* a volume that is bound stays bound, with the capacity that it has.
BoundStaysBound ==
  [][\A v \in DOMAIN cvc \cap DOMAIN cvc' :
       cvc[v].phase = "Bound" => /\ cvc'[v].phase = "Bound"
                                 /\ cvc'[v].status >= cvc[v].status]_vars

\* The volume as the sidecars see it.
Volume == INSTANCE ProvisionedVolume WITH
            st    <- co.vol,
            there <- Found(cvc, "vol") /\ ~cvc["vol"].deleting,
            size  <- IF Found(cvc, "vol") THEN cvc["vol"].status * GiB ELSE 0,
            told  <- IF co.grown THEN req.grown ELSE 0

\* The volume is as ProvisionedVolume promises it at every step, also when the
\* clients have no configuration, a source makes the plugin panic, and
\* patches of old copies meet the operator's changes.
VolumeSteps == [][Volume!Next]_(Volume!vars)

-----------------------------------------------------------------------------
(* The inductive invariant: what the sidecars can rely on while they wait, and
   what each handler knows at each of its calls *)

\* A handler works on what its calls name, and the sidecars wait for one of them
\* about a volume or snapshot at a time.
HandlerInv ==
  /\ \A p \in Procs :
       /\ pc[p] = "idle" => arg[p] = NoArg
       /\ pc[p] \in Creating \cup Expanding => arg[p].about = "vol"
       /\ pc[p] \in Deleting => arg[p].about \in Volumes
       /\ pc[p] \in Snapping \cup Unsnapping => arg[p].about = "snap"
       /\ IF p = "node" THEN pc[p] \in {"idle"} \cup Staging ELSE pc[p] \notin Staging
  /\ \A p \in waiting : pc[p] # "idle"
  /\ \A p, q \in waiting : arg[p].about = arg[q].about => p = q

\* A sidecar that waits knows no more than when it called, and what somebody has
\* asked to delete stays asked for although the handler is not waited for.
Ending == {"deleting", "gone"}
AskedInv ==
  /\ \A p \in waiting :
       /\ pc[p] \in Creating => co.vol = "maybe"
       /\ pc[p] \in Expanding => co.vol = "yes"
       /\ pc[p] \in Deleting => co[arg[p].about] = "deleting"
       /\ pc[p] \in Snapping => co.snap = "maybe"
  /\ \A p \in Requests :
       /\ pc[p] \in Deleting => co[arg[p].about] \in Ending
       /\ pc[p] \in Unsnapping => co.snap \in Ending
  /\ \A v \in DOMAIN cvc : cvc[v].deleting => co[v] \in Ending

\* The operator's finalizer is on every CVC that is not being deleted, and on one
\* that is until the CV is gone.
FinalizerInv ==
  /\ \A v \in DOMAIN cvc : cvc[v].deleting \/ "cvc" \in cvc[v].finalizers
  /\ \A v \in cv : Found(cvc, v) /\ "cvc" \in cvc[v].finalizers

\* A handler about to answer for a deletion or a snapshot tells the truth.
SourceInv ==
  /\ DeletedIsDeleted
  /\ SnapshotReal
  /\ \A p \in Requests :
       /\ pc[p] = "delete_ok" /\ arg[p].about = "src" /\ Found(cvc, "src")
            => cvc["src"].deleting
       /\ pc[p] = "snap_ok" /\ co.src = "yes" /\ co.snap \notin Ending
            => SnapshotID \in snaps

\* NodeStageVolume fills the attachment in the order of its calls.
StageInv ==
  /\ AttachmentComplete
  /\ pc["node"] \in {"stage_bound", "stage_details", "stage_create"}
       => Mountable(arg["node"].vol)
  /\ pc["node"] = "stage_create" => Connectable(arg["node"].vol)

\* What CreateVolume has made sure of at each call.
SourceGood == req.source # <<>> => req.source[1] = "src"
CreateAt(l, a) ==
  /\ l \in Creating \ {"create_start", "create_ok", "create_err"}
       => validateVolumeCreateReq(req)
  /\ l \in {"create_source", "create_get", "create_pvc", "create_post"} => a.node \in Nodes
  /\ l \in {"create_get", "create_pvc", "create_post"} => SourceGood
  /\ l \in Creating \ {"create_post", "create_ok", "create_err"} => ~a.through
  /\ l = "create_pvc" => req.pvcName # ""
  /\ l = "create_post" => a.through = (req.through /\ req.pvcName # "")
CreateInv == \A p \in Requests : CreateAt(pc[p], arg[p])

\* The CVCs are complete, "vol" is of the size that was asked for, and a patch
\* that is about to be sent takes nothing from it.
ConfigInv ==
  /\ OnlyCompleteCVCs
  /\ Found(cvc, "vol") => /\ cvc["vol"].provisioned = RoundUpGiB(req.size)
                          /\ cvc["vol"].phase = "Pending" => cvc["vol"].status = 0
  /\ \A p \in Requests :
       pc[p] = "expand_patch" => /\ arg[p].held.nodeID # ""
                                 /\ RoundUpGiB(req.size) <= Desired

\* Until somebody asks to delete it, a volume that was answered for, or is about
\* to be, is there with the size of that answer.
Usable == Found(cvc, "vol") /\ ~cvc["vol"].deleting
AnswerInv ==
  /\ co.vol = "yes" => Usable
  /\ \A p \in Requests :
       co.vol \notin Ending =>
         /\ pc[p] = "create_ok" => Usable
         /\ pc[p] = "expand_ok" => Usable /\ req.grown <= cvc["vol"].status * GiB

\* Together they are inductive.
IInv == /\ TypeOK /\ HandlerInv /\ AskedInv /\ FinalizerInv /\ SourceInv
        /\ StageInv /\ CreateInv /\ ConfigInv /\ AnswerInv

-----------------------------------------------------------------------------

\* The id of the clone's source stops the controller whenever it is read.
Poisoned == Len(req.source) = 1 /\ req.source # <<"">>

\* A volume that is given up is reported gone in the end, whatever fails, also
\* when the plugin dies in the middle of DeleteVolume.
VolumeDeleted ==
  \A v \in Volumes : v \notin co.want /\ ~Poisoned ~> co[v] = "gone"

\* A snapshot that is asked for is there in the end, and one that is given up is
\* gone, unless its volume is given up: the target cannot be found then.
SnapshotSettled ==
  /\ "snap" \in co.want /\ ~Poisoned
       ~> co.snap = "yes" \/ "snap" \notin co.want \/ "src" \notin co.want
  /\ "snap" \notin co.want /\ co.snap # "none" /\ ~Poisoned
       ~> co.snap = "gone" \/ "src" \notin co.want

\* CreateVolume makes a clone only of a volume that is there: it goes on from the
\* check of the source only if that has a CVC.
CloneSourceAvailable ==
  [][\A p \in Requests : pc[p] = "create_source" /\ pc'[p] = "create_get"
                           => Found(cvc, SourceVolume)]_vars

=============================================================================
