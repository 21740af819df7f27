------------------------------ MODULE NodeState ------------------------------
(***************************************************************************)
(* The state the node plugins of the cstor CSI driver share, for one       *)
(* volume, and the vocabulary the handlers are written in.                 *)
(*                                                                         *)
(* On every node the driver runs goroutines: one per CSI call that the     *)
(* kubelet makes, one per Cleanup and one per remount.  A goroutine is a   *)
(* member of Threads and pc[n][t] names the next call it makes to the API  *)
(* server, to iscsiadm or to the mount table; between two such calls it    *)
(* only computes, so one action reaches from a call to the next.           *)
(***************************************************************************)
EXTENDS Integers, Sequences, AttachmentStore

CONSTANTS
  Nodes,        \* the nodes of the cluster
  Threads,      \* goroutines a driver can have at once (bound)
  AccessTypes,  \* volume capabilities the volume may be used with
  Remount,      \* the REMOUNT environment variable of the node plugin
  Overlap,      \* a pod may be placed while another node's Stage is unsettled
  FaultKinds,   \* which faults the environment injects
  MaxFaults,    \* how many of them (bound)
  MaxEvents     \* how many pods are placed, removed or grown (bound)

AllFaults == {"error", "lost", "timeout", "crash", "reboot", "kubelet",
              "offline", "notready", "damage", "logout"}

ASSUME ConstantsAssumption ==
  /\ AccessTypes \subseteq {"mount", "block"}
  /\ Remount \in BOOLEAN
  /\ Overlap \in BOOLEAN
  /\ FaultKinds \subseteq AllFaults
  /\ MaxFaults \in Nat
  /\ MaxEvents \in Nat

VARIABLES
  \* the requests
  accessType,   \* "mount" or "block", the same in all requests for the volume
  \* the cluster
  cva,          \* [Nodes -> CVARecord], the CVA of the volume on each node
  ready,        \* nodes whose Ready condition is true
  online,       \* the cStor volume is Healthy or Degraded, its portal reachable
  \* the hosts
  session,      \* nodes with an iSCSI session to the volume
  stg,          \* [Nodes -> Nat], mounts of the volume on the staging path
  ro,           \* nodes whose kernel turned the volume's filesystem read-only
  tgt,          \* [Nodes -> Seq({"vol", "dir"})], mounts on the target path,
                \*   oldest first, of the volume or of the bare staging directory
  dir,          \* [Nodes -> SUBSET {"staging", "target"}], directories that exist
  \* the node plugins
  up,           \* nodes whose driver is running
  TransitionVolList, \* nodes whose driver lists the volume as under transition
  pc,           \* [Nodes -> [Threads -> Locations]]
  arg,          \* [Nodes -> [Threads -> SUBSET (Nodes \cup Paths)]], locals
  fresh,        \* [Nodes -> SUBSET Threads], goroutines whose copy of the
                \*   node's CVA has the current resourceVersion
  mon,          \* [Nodes -> {"off", "wait", "cleanup"}], MonitorMounts
  \* the kubelets
  co,           \* [Nodes -> [want, st, pub]], what the kubelet wants and knows
  call,         \* [Nodes -> SUBSET Threads], the call it is waiting for
  \* bounds
  faults, events

cluster == <<cva, fresh, ready, online>>
host    == <<session, stg, ro, tgt, dir>>
kubelet == <<co, call, events>>
vars    == <<cva, ready, online, session, stg, ro, tgt, dir, up,
             TransitionVolList, pc, arg, fresh, mon, co, call, faults, events>>

\* vars is all that steps change; accessType never does.
allvars == <<vars, accessType>>

Paths == {"staging", "target"}

\* The calls a goroutine can be about to make, by the handler it runs.
StageCalls     == {"stage_list", "stage_nodes", "stage_dellist", "stage_del",
                   "stage_create", "stage_get", "stage_wait", "stage_verify",
                   "stage_update", "stage_attach", "stage_mkdir",
                   "stage_mount", "stage_undo"}
UnstageCalls   == {"unstage_get", "unstage_detach", "unstage_logout",
                   "unstage_rmdir", "unstage_update", "unstage_delete"}
PublishCalls   == {"publish_get", "publish_update", "publish_mount"}
UnpublishCalls == {"unpublish_check", "unpublish_get", "unpublish_update"}
ExpandCalls    == {"expand_get", "expand_resize"}
CleanupCalls   == {"cleanup_detach", "cleanup_logout", "cleanup_rmdir",
                   "cleanup_update"}
RemountCalls   == {"remount_ready", "remount_umount_s", "remount_umount_t",
                   "remount_mount_s", "remount_mount_t"}
Calls == StageCalls \cup UnstageCalls \cup PublishCalls \cup UnpublishCalls
           \cup ExpandCalls \cup CleanupCalls \cup RemountCalls

\* Where a goroutine goes when the call it makes at p fails: a handler returns
\* the error, except that a failed attach or mount is undone first; Cleanup
\* leaves the transition list, except after a failed update; a remount ignores
\* failed unmounts.
OnError(p) ==
  CASE p \in {"stage_attach", "stage_mount"} -> "stage_undo"
    [] p \in StageCalls \ {"stage_attach", "stage_mount"} -> "stage_err"
    [] p \in UnstageCalls   -> "unstage_err"
    [] p \in PublishCalls   -> "publish_err"
    [] p \in UnpublishCalls -> "unpublish_err"
    [] p \in ExpandCalls    -> "expand_err"
    [] p = "cleanup_update" -> "idle"
    [] p \in CleanupCalls \ {"cleanup_update"} -> "cleanup_release"
    [] p = "remount_umount_s" -> "remount_umount_t"
    [] p = "remount_umount_t" -> "remount_mount_s"
    [] p \in {"remount_ready", "remount_mount_s", "remount_mount_t"}
                            -> "remount_release"

\* The end of each CSI call, with the outcome its reply carries.
Ends == {"stage_ok", "stage_err", "unstage_ok", "unstage_err", "publish_ok",
         "publish_err", "unpublish_ok", "unpublish_err", "expand_ok",
         "expand_err"}

Locations == {"idle"} \cup Calls \cup Ends
               \cup {"cleanup_release", "remount_release"}

-----------------------------------------------------------------------------
(* Control of a goroutine. *)

At(n, t, p) == pc[n][t] = p

Goto(n, t, p) == /\ pc'  = [pc EXCEPT ![n][t] = p]
                 /\ arg' = [arg EXCEPT ![n][t] = {}]

GotoWith(n, t, p, a) == /\ pc'  = [pc EXCEPT ![n][t] = p]
                        /\ arg' = [arg EXCEPT ![n][t] = a]

\* One of the budgeted faults strikes.
Fault(k) == /\ k \in FaultKinds
            /\ faults < MaxFaults
            /\ faults' = faults + 1

\* The reply of a call that took effect: it arrives and the goroutine goes to
\* p with locals a, or it is lost and the goroutine sees an error.
Reply(n, t, p, a) ==
  \/ /\ GotoWith(n, t, p, a)
     /\ UNCHANGED faults
  \/ /\ Fault("lost")
     /\ Goto(n, t, OnError(pc[n][t]))

\* Unmount a path: the newest mount goes.
Unmounted(s) == IF s = <<>> THEN s ELSE SubSeq(s, 1, Len(s) - 1)

\* The map TransitionVolList[volumeID] is assigned in the middle of a handler.
MarkInTransition(n) == TransitionVolList' = TransitionVolList \cup {n}

-----------------------------------------------------------------------------
(* Calls to the API server.  Every write gives the object a new            *)
(* resourceVersion, so the copies the goroutines hold become stale.        *)

WriteCVA(n, c, holders) ==
  /\ cva'   = [cva EXCEPT ![n] = c]
  /\ fresh' = [fresh EXCEPT ![n] = holders]

\* The goroutine reads the object and keeps the copy.
ReadCVA(n, t) ==
  /\ fresh' = [fresh EXCEPT ![n] = @ \cup {t}]
  /\ UNCHANGED <<cva, ready, online>>

\* Update with the goroutine's copy changed to new: refused when the copy is
\* stale (conflict or not found) or when the finalizers are not allowed.
UpdateCStorVolumeAttachmentCR(n, t, new, p) ==
  /\ \/ /\ t \in fresh[n] /\ MayUpdate(cva[n], new)
        /\ WriteCVA(n, Settle(new), {t})
        /\ Reply(n, t, p, {})
     \/ /\ ~(t \in fresh[n] /\ MayUpdate(cva[n], new))
        /\ Goto(n, t, OnError(pc[n][t]))
        /\ UNCHANGED <<cva, fresh, faults>>
  /\ UNCHANGED <<ready, online>>

\* An external call of a goroutine fails without effect.  Before the attach and
\* before Unstage's update the handler has assigned to the list already, and a CVC
\* that turns out not to be bound makes Stage assign to it before it gives up.
CallFails(n, t) ==
  /\ pc[n][t] \in Calls
  /\ Fault("error")
  /\ GotoWith(n, t, OnError(pc[n][t]), arg[n][t])
  /\ \/ /\ pc[n][t] \in {"stage_nodes", "stage_attach", "unstage_update"}
        /\ MarkInTransition(n)
     \/ /\ pc[n][t] \notin {"stage_attach", "unstage_update"}
        /\ UNCHANGED TransitionVolList
  /\ UNCHANGED <<cluster, host, up, mon, kubelet>>

-----------------------------------------------------------------------------
(* The transition list as the CSI handlers use it. *)

Idle(n) == {t \in Threads : pc[n][t] = "idle"}

\* Mutant: the busy check of addVolumeToTransitionList is missing.
addVolumeUnchecked(n, t, p) ==
  /\ TransitionVolList' = TransitionVolList \cup {n}
  /\ call' = [call EXCEPT ![n] = {t}]
  /\ Goto(n, t, p)

\* A CSI call arrives: refused as busy when the volume is listed, otherwise
\* listed and served by an idle goroutine starting at p.
addVolumeToTransitionList(n, t, p) ==
  \/ /\ n \in TransitionVolList
     /\ call' = call
     /\ UNCHANGED <<TransitionVolList, pc, arg>>
  \/ /\ n \notin TransitionVolList
     /\ TransitionVolList' = TransitionVolList \cup {n}
     /\ call' = [call EXCEPT ![n] = {t}]
     /\ Goto(n, t, p)

\* What the kubelet knows after a reply; an error leaves it unsure, as does
\* starting a call.
Learn(k, end) ==
  CASE end = "stage_ok"     -> [k EXCEPT !.st = "staged"]
    [] end = "unstage_ok"   -> [k EXCEPT !.st = "unstaged"]
    [] end = "publish_ok"   -> [k EXCEPT !.pub = "yes"]
    [] end = "unpublish_ok" -> [k EXCEPT !.pub = "no"]
    [] OTHER                -> k

\* The kubelet removes the empty mount directory after a successful teardown.
TornDown(n, end) ==
  (IF end = "unstage_ok" /\ stg[n] = 0 THEN {"staging"} ELSE {})
    \cup (IF end = "unpublish_ok" /\ tgt[n] = <<>> THEN {"target"} ELSE {})

\* Mutant: the volume leaves the list on success only (no defer).
removeVolumeOnSuccess(n, t) ==
  /\ pc[n][t] \in Ends
  /\ TransitionVolList' =
       IF pc[n][t] \in {"stage_ok", "unstage_ok", "publish_ok", "unpublish_ok",
                        "expand_ok"}
         THEN TransitionVolList \ {n} ELSE TransitionVolList
  /\ Goto(n, t, "idle")
  /\ IF t \in call[n]
       THEN /\ co' = [co EXCEPT ![n] = Learn(@, pc[n][t])]
            /\ dir' = [dir EXCEPT ![n] = @ \ TornDown(n, pc[n][t])]
       ELSE UNCHANGED <<co, dir>>
  /\ call' = [call EXCEPT ![n] = @ \ {t}]
  /\ fresh' = [fresh EXCEPT ![n] = @ \ {t}]
  /\ UNCHANGED <<cva, ready, online, session, stg, ro, tgt, up, mon, faults,
                 events>>

\* A handler returns: the deferred removeVolumeFromTransitionList runs, and
\* the kubelet, if it still waits for this call, gets the reply.
removeVolumeFromTransitionList(n, t) ==
  /\ pc[n][t] \in Ends
  /\ TransitionVolList' = TransitionVolList \ {n}
  /\ Goto(n, t, "idle")
  /\ IF t \in call[n]
       THEN /\ co' = [co EXCEPT ![n] = Learn(@, pc[n][t])]
            /\ dir' = [dir EXCEPT ![n] = @ \ TornDown(n, pc[n][t])]
       ELSE UNCHANGED <<co, dir>>
  /\ call' = [call EXCEPT ![n] = @ \ {t}]
  /\ fresh' = [fresh EXCEPT ![n] = @ \ {t}]
  /\ UNCHANGED <<cva, ready, online, session, stg, ro, tgt, up, mon, faults,
                 events>>

TypeOK ==
  /\ cva \in [Nodes -> CVARecord]
  /\ ready \subseteq Nodes
  /\ online \in BOOLEAN
  /\ session \subseteq Nodes
  /\ stg \in [Nodes -> Nat]
  /\ ro \subseteq Nodes
  /\ tgt \in [Nodes -> Seq({"vol", "dir"})]
  /\ dir \in [Nodes -> SUBSET Paths]
  /\ up \subseteq Nodes
  /\ TransitionVolList \subseteq Nodes
  /\ pc \in [Nodes -> [Threads -> Locations]]
  /\ arg \in [Nodes -> [Threads -> SUBSET (Nodes \cup Paths)]]
  /\ fresh \in [Nodes -> SUBSET Threads]
  /\ mon \in [Nodes -> {"off", "wait", "cleanup"}]
  /\ co \in [Nodes -> [want : BOOLEAN,
                       st   : {"unstaged", "maybe", "staged"},
                       pub  : {"no", "maybe", "yes"}]]
  /\ call \in [Nodes -> SUBSET Threads]
  /\ faults \in 0..MaxFaults
  /\ events \in 0..MaxEvents
=============================================================================
