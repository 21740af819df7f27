----------------------------- MODULE NodeService -----------------------------
(***************************************************************************)
(* The node plugins of a cluster: the CSI handlers, Cleanup and the mount  *)
(* monitor on every node, together with what drives them: the kubelets,    *)
(* which make the CSI calls in the order CSI prescribes and repeat the     *)
(* ones that fail, the scheduler, which places and removes pods that use   *)
(* the volume, the garbage collector of the API server, and faults.        *)
(***************************************************************************)
EXTENDS MountMonitor, PublishVolume

-----------------------------------------------------------------------------
(* The kubelet *)

\* The kubelet of n makes a call, served from location p on; it makes one call
\* at a time for the volume.  From here to the reply it is unsure.
Call(n, p, k) ==
  /\ n \in up
  /\ call[n] = {}
  /\ co' = [co EXCEPT ![n] = k]
  /\ \E t \in Idle(n) : addVolumeToTransitionList(n, t, p)
  /\ UNCHANGED <<cluster, session, stg, ro, tgt, up, mon, faults>>

\* The staging directory is made by the kubelet before the call.
CallStage(n) ==
  /\ co[n].want /\ co[n].st # "staged"
  /\ Call(n, "stage_list", [co[n] EXCEPT !.st = "maybe"])
  /\ dir' = [dir EXCEPT ![n] = @ \cup {"staging"}]
  /\ UNCHANGED events

CallPublish(n) ==
  /\ co[n].want /\ co[n].st = "staged" /\ co[n].pub # "yes"
  /\ Call(n, "publish_get", [co[n] EXCEPT !.pub = "maybe"])
  /\ UNCHANGED <<dir, events>>

CallExpand(n) ==
  /\ co[n].want /\ co[n].pub = "yes"
  /\ events < MaxEvents
  /\ events' = events + 1
  /\ Call(n, "expand_get", co[n])
  /\ UNCHANGED dir

CallUnpublish(n) ==
  /\ ~co[n].want /\ co[n].pub # "no"
  /\ Call(n, "unpublish_check", [co[n] EXCEPT !.pub = "maybe"])
  /\ UNCHANGED <<dir, events>>

CallUnstage(n) ==
  /\ ~co[n].want /\ co[n].pub = "no" /\ co[n].st # "unstaged"
  /\ Call(n, "unstage_get", [co[n] EXCEPT !.st = "maybe"])
  /\ UNCHANGED <<dir, events>>

\* The kubelet stops waiting for a reply; the handler goes on.
CallTimeout(n) ==
  /\ call[n] # {}
  /\ Fault("timeout")
  /\ call' = [call EXCEPT ![n] = {}]
  /\ UNCHANGED <<cluster, host, up, TransitionVolList, pc, arg, mon, co, events>>

KubeletRestart(n) ==
  /\ Fault("kubelet")
  /\ call' = [call EXCEPT ![n] = {}]
  /\ co' = [co EXCEPT ![n] = Unsure(@)]
  /\ UNCHANGED <<cluster, host, up, TransitionVolList, pc, arg, mon, events>>

-----------------------------------------------------------------------------
(* The rest of the environment *)

\* No other node wants the volume and none has a Stage or Unstage whose outcome
\* its kubelet does not know.
Settled(n) == \A m \in Nodes \ {n} : ~co[m].want /\ co[m].st # "maybe"

SchedulePod(n) ==
  /\ ~co[n].want
  /\ Overlap \/ Settled(n)
  /\ events < MaxEvents
  /\ events' = events + 1
  /\ co' = [co EXCEPT ![n].want = TRUE]
  /\ UNCHANGED <<cluster, host, up, TransitionVolList, pc, arg, mon, call, faults>>

DeletePod(n) ==
  /\ co[n].want
  /\ events < MaxEvents
  /\ events' = events + 1
  /\ co' = [co EXCEPT ![n].want = FALSE]
  /\ UNCHANGED <<cluster, host, up, TransitionVolList, pc, arg, mon, call, faults>>

\* The garbage collector completes a foreground deletion.
CollectGarbage(n) ==
  /\ cva[n].deleting /\ "foreground" \in cva[n].finalizers
  /\ WriteCVA(n, Collected(cva[n]), {})
  /\ UNCHANGED <<ready, online, host, up, TransitionVolList, pc, arg, mon,
                 kubelet, faults>>

NodeNotReady(n) ==
  /\ n \in ready
  /\ Fault("notready")
  /\ ready' = ready \ {n}
  /\ UNCHANGED <<cva, fresh, online, host, up, TransitionVolList, pc, arg, mon,
                 kubelet>>

NodeReady(n) ==
  /\ n \notin ready
  /\ ready' = ready \cup {n}
  /\ UNCHANGED <<cva, fresh, online, host, up, TransitionVolList, pc, arg, mon,
                 kubelet, faults>>

\* The volume loses its quorum or its target: filesystems that are written to
\* turn read-only.
VolumeOffline ==
  /\ online
  /\ Fault("offline")
  /\ online' = FALSE
  /\ \E hit \in SUBSET {n \in Nodes : stg[n] > 0 \/ tgt[n] # <<>>} :
       ro' = ro \cup hit
  /\ UNCHANGED <<cva, fresh, ready, session, stg, tgt, dir, up,
                 TransitionVolList, pc, arg, mon, kubelet>>

\* A mount goes bad behind the driver's back: the kernel turns the filesystem
\* read-only, or the staging or the target path is unmounted.
MountDamaged(n) ==
  /\ stg[n] > 0 \/ tgt[n] # <<>>
  /\ Fault("damage")
  /\ \/ ro' = ro \cup {n} /\ UNCHANGED <<stg, tgt>>
     \/ stg' = [stg EXCEPT ![n] = 0] /\ UNCHANGED <<ro, tgt>>
     \/ tgt' = [tgt EXCEPT ![n] = <<>>] /\ UNCHANGED <<ro, stg>>
  /\ UNCHANGED <<cluster, session, dir, up, TransitionVolList, pc, arg, mon,
                 kubelet>>

\* The iSCSI session is torn down under the volume's mounts.
SessionLost(n) ==
  /\ n \in session
  /\ Fault("logout")
  /\ session' = session \ {n}
  /\ ro' = ro \cup {n}
  /\ UNCHANGED <<cluster, stg, tgt, dir, up, TransitionVolList, pc, arg, mon,
                 kubelet>>

VolumeOnline ==
  /\ ~online
  /\ online' = TRUE
  /\ UNCHANGED <<cva, fresh, ready, host, up, TransitionVolList, pc, arg, mon,
                 kubelet, faults>>

-----------------------------------------------------------------------------

Init ==
  /\ accessType \in AccessTypes
  /\ cva = [n \in Nodes |-> Absent]
  /\ ready = Nodes
  /\ online = TRUE
  /\ session = {}
  /\ stg = [n \in Nodes |-> 0]
  /\ ro = {}
  /\ tgt = [n \in Nodes |-> <<>>]
  /\ dir = [n \in Nodes |-> {}]
  /\ up = Nodes
  /\ TransitionVolList = {}
  /\ pc = [n \in Nodes |-> [t \in Threads |-> "idle"]]
  /\ arg = [n \in Nodes |-> [t \in Threads |-> {}]]
  /\ fresh = [n \in Nodes |-> {}]
  /\ mon = [n \in Nodes |-> IF Remount THEN "wait" ELSE "off"]
  /\ co = [n \in Nodes |-> [want |-> FALSE, st |-> "unstaged", pub |-> "no"]]
  /\ call = [n \in Nodes |-> {}]
  /\ faults = 0
  /\ events = 0

\* A goroutine goes on.
Handler(n, t) ==
  \/ NodeStageVolume(n, t) \/ NodeUnstageVolume(n, t)
  \/ NodePublishVolume(n, t) \/ NodeUnpublishVolume(n, t)
  \/ NodeExpandVolume(n, t)
  \/ CleanupVolume(n, t) \/ RemountVolume(n, t)
  \/ removeVolumeFromTransitionList(n, t)

Monitor(n) == MonitorTick(n) \/ MonitorCleanup(n)

\* The calls a kubelet makes until the node is as it wants it.
KubeletCall(n) ==
  CallStage(n) \/ CallPublish(n) \/ CallUnpublish(n) \/ CallUnstage(n)

Step ==
  \/ \E n \in Nodes, t \in Threads : Handler(n, t) \/ CallFails(n, t)
  \/ \E n \in Nodes : \/ Monitor(n) \/ DriverStart(n)
                      \/ KubeletCall(n) \/ CallExpand(n)
                      \/ CallTimeout(n) \/ KubeletRestart(n)
                      \/ SchedulePod(n) \/ DeletePod(n)
                      \/ CollectGarbage(n)
                      \/ NodeNotReady(n) \/ NodeReady(n)
                      \/ DriverCrash(n) \/ Reboot(n) \/ MountDamaged(n)
                      \/ SessionLost(n)
  \/ VolumeOffline \/ VolumeOnline

Next == Step /\ UNCHANGED accessType

Spec == Init /\ [][Next]_allvars

\* Goroutines and the monitor are scheduled, the kubelet retries and restarts
\* the driver, the garbage collector works, nodes and the volume come back.
Fairness ==
  /\ \A n \in Nodes :
       /\ \A t \in Threads : WF_vars(Handler(n, t))
       /\ WF_vars(MonitorTick(n)) /\ WF_vars(MonitorCleanup(n))
       /\ WF_vars(DriverStart(n))
       /\ WF_vars(KubeletCall(n))
       /\ WF_vars(CollectGarbage(n))
       /\ WF_vars(NodeReady(n))
  /\ WF_vars(VolumeOnline)

FairSpec == Spec /\ Fairness

-----------------------------------------------------------------------------
(* Safety *)

\* At most one goroutine of a node's driver works on the volume, and while it
\* does the volume is in the driver's TransitionVolList.
TransitionExclusive ==
  \A n \in Nodes : \A t \in Threads \ Idle(n) :
    n \in TransitionVolList /\ Idle(n) = Threads \ {t}

\* A volume mounted on the staging path is on record: the node's CVA exists,
\* holds the node's finalizer and names the staging path, so that Unstage and
\* Cleanup find it whatever happens in between.
MountRecorded ==
  \A n \in Nodes :
    stg[n] > 0 => cva[n].exists /\ cva[n].staging /\ "node" \in cva[n].finalizers

\* Once Unstage has been answered with success, and until the next Stage, the
\* volume is not mounted on the staging path.
UnstagedNotMounted ==
  \A n \in Nodes : co[n].st = "unstaged" => stg[n] = 0

\* A goroutine that is about to RemoveAll the staging path does not find the
\* attached volume mounted there: the volume's data never goes with the path.
RemoveAllOnlyUnmounted ==
  \A n \in Nodes, t \in Threads :
    pc[n][t] \in {"unstage_rmdir", "cleanup_rmdir"}
      => ~(stg[n] > 0 /\ n \in session)

\* What the kubelet holds for staged is attached and on record, so that it can
\* be published now and found by Unstage later.
StagedAttached ==
  \A n \in Nodes :
    co[n].st = "staged" => /\ n \in session
                           /\ cva[n].exists /\ cva[n].staging
                           /\ "node" \in cva[n].finalizers

\* Once Unstage has been answered with success the node's finalizer is not left on
\* its CVA, although Unstage does nothing when it finds no staging path on record:
\* whatever CVA is left, another node can have it deleted.
UnstagedLetsGo ==
  \A n \in Nodes : co[n].st = "unstaged" => "node" \notin cva[n].finalizers

\* The newest mount on the target path is the volume.
ShowsVolume(n) == tgt[n] # <<>> /\ tgt[n][Len(tgt[n])] = "vol"

\* What the kubelet holds for published is the volume, not the bare staging directory
\* that Publish would bind as well, however often the bind was repeated.
PublishedShowsVolume ==
  \A n \in Nodes : co[n].pub = "yes" => ShowsVolume(n)

\* The volume is mounted on the staging path of at most one node.
SingleNodeMounted ==
  \A n, m \in Nodes : stg[n] > 0 /\ stg[m] > 0 => n = m

\* A CVA that is not being deleted loses the node's finalizer only by the node's own
\* Unstage or by the undo of its failed Stage.  In particular Cleanup, which writes
\* the copy it read before a slow detach, does not take it off a CVA that a Stage has
\* meanwhile created anew under the same name, with the monitor on as well.
CleanupSparesLive ==
  [][\A n \in Nodes :
       /\ "node" \in cva[n].finalizers /\ ~cva[n].deleting
       /\ "node" \notin cva'[n].finalizers
       => \E t \in Threads : /\ pc[n][t] \in {"unstage_update", "stage_undo"}
                             /\ pc'[n][t] # pc[n][t]]_allvars

\* The volume as the kubelets see it.
Staged == INSTANCE StagedVolume WITH
            filesystem <- accessType = "mount",
            known      <- [n \in Nodes |-> co[n].st],
            mounted    <- {n \in Nodes : stg[n] > 0}

\* The plugins keep the promises of StagedVolume: no late, forgotten or repeated
\* handler and no Cleanup touches a mount between an answer and the next call.
ImplementsStaged == Staged!Spec

-----------------------------------------------------------------------------
(* Why the safety properties hold without the monitor: the inductive
   invariant of NodeServiceProofs, node by node. *)

Recorded(n) == cva[n].exists /\ cva[n].staging /\ "node" \in cva[n].finalizers

\* Locations of the handlers at which the staging path is not mounted, those
\* at which, in addition, Stage has put the node on record, all of Stage, and
\* those only the monitor leads to.
Unmounting == {"stage_update", "stage_undo", "unstage_logout", "unstage_rmdir",
               "unstage_update", "unstage_delete", "unstage_ok",
               "cleanup_logout", "cleanup_rmdir", "cleanup_update"}
Mounting   == {"stage_attach", "stage_mkdir", "stage_mount"}
Staging    == StageCalls \cup {"stage_ok", "stage_err"}
Remounting == RemountCalls \cup {"remount_release"}

\* What a goroutine relies on at its location.
ThreadInv(n, t) ==
  /\ pc[n][t] \notin Remounting
  /\ pc[n][t] \in Unmounting \cup Mounting => stg[n] = 0
  /\ pc[n][t] \in Mounting => Recorded(n)
  /\ pc[n][t] = "cleanup_detach" /\ "staging" \notin arg[n][t] => stg[n] = 0
  /\ pc[n][t] \in Staging => co[n].st # "unstaged"

\* A mounted staging path is on record, exists, and the kubelet knows of it.
StagingInv(n) ==
  stg[n] > 0 => Recorded(n) /\ "staging" \in dir[n] /\ co[n].st # "unstaged"

\* One goroutine at a time, and the volume is listed while there is one.
ListInv(n) ==
  \A t \in Threads : pc[n][t] # "idle" =>
    n \in TransitionVolList /\ \A u \in Threads : pc[n][u] # "idle" => u = t

NodeInv(n) ==
  /\ ListInv(n)
  /\ mon[n] = "off"
  /\ n \notin up => n \notin TransitionVolList
  /\ \A t \in Threads : ThreadInv(n, t)
  /\ StagingInv(n)

\* The inductive invariant: whatever the interleaving and the faults, what
\* each goroutine relies on at its location holds when it gets there.
IInv == TypeOK /\ \A n \in Nodes : NodeInv(n)

-----------------------------------------------------------------------------
(* Why the answers the kubelets get stay true and one node at a time has the
   volume: the inductive invariants of NodeHandoverProofs, node by node and
   weakest assumptions first. *)

\* All of Unstage, of Publish, of Unpublish and of Cleanup; Stage once it found no
\* other node to be in its way, and once it has created its own CVA.
Unstaging    == UnstageCalls \cup {"unstage_ok", "unstage_err"}
Publishing   == PublishCalls \cup {"publish_ok", "publish_err"}
Unpublishing == UnpublishCalls \cup {"unpublish_ok", "unpublish_err"}
Cleaning     == CleanupCalls \cup {"cleanup_release"}
Created      == {"stage_get", "stage_wait", "stage_verify", "stage_update",
                 "stage_attach", "stage_mkdir", "stage_mount"}
Cleared      == {"stage_dellist", "stage_del", "stage_create"} \cup Created

\* What the kubelet knows fits the call that is being served.
KubeletInv(n) ==
  /\ co[n].pub = "yes" => co[n].st = "staged"
  /\ \A t \in Threads :
       /\ pc[n][t] \in Staging \cup Unstaging => co[n].st = "maybe"
       /\ pc[n][t] \in Publishing /\ t \in call[n] => co[n].st = "staged"
       /\ pc[n][t] \in Unpublishing => co[n].pub # "yes"

\* The node's finalizer is on record with the staging path, so Unstage, which
\* goes by the path, does not miss it.
ReleaseInv(n) ==
  /\ "node" \in cva[n].finalizers => cva[n].exists /\ cva[n].staging
  /\ \/ co[n].st = "unstaged"
     \/ \E t \in Threads : pc[n][t] \in {"unstage_delete", "unstage_ok"}
     => "node" \notin cva[n].finalizers

\* Without Overlap one node at a time wants the volume, and no other does while
\* a Stage runs, forgotten by its kubelet or not.
WantedInv(n) ==
  /\ co[n].want => \A m \in Nodes \ {n} : ~co[m].want
  /\ \A t \in Threads : pc[n][t] \in Staging =>
       \A m \in Nodes \ {n} : /\ ~co[m].want
                              /\ \A u \in Threads : pc[m][u] \notin Staging

\* The other nodes that have a CVA for the volume.
Elsewhere(n) == {m \in Nodes \ {n} : cva[m].exists}

\* While nodes are ready, a Stage goes on only when no other node has a CVA.
ClearedInv(n) ==
  \A t \in Threads : /\ pc[n][t] = "stage_nodes" => Elsewhere(n) \subseteq arg[n][t]
                     /\ pc[n][t] \in Cleared => Elsewhere(n) = {}

\* Nobody deletes the CVA of a Stage that has created it, and what is staged stays on
\* record, out of the reach of deletions and of Cleanup.
RecordInv(n) ==
  /\ \A t \in Threads : pc[n][t] \in Created \cup {"stage_ok"} => ~cva[n].deleting
  /\ \A t \in Threads : pc[n][t] = "stage_ok" => Recorded(n)
  /\ co[n].st = "staged" => /\ Recorded(n)
                            /\ ~cva[n].deleting
                            /\ \A t \in Threads : pc[n][t] \notin Cleaning

\* As long as sessions are not lost, a mounted or staged volume has one.
SessionInv(n) ==
  \/ stg[n] > 0
  \/ co[n].st = "staged"
  \/ \E t \in Threads : pc[n][t] \in {"stage_mkdir", "stage_mount", "stage_ok"}
  => n \in session

\* As long as mounts are not damaged, a staged filesystem is mounted while it is being
\* published, and a published volume is what the target path shows.
ShownInv(n) ==
  /\ accessType \in AccessTypes
  /\ \A t \in Threads :
       pc[n][t] \in {"stage_mkdir", "stage_mount"} => accessType = "mount"
  /\ \/ co[n].st = "staged"
     \/ \E t \in Threads : pc[n][t] \in PublishCalls \cup {"stage_ok"}
     => (accessType = "mount" => stg[n] > 0)
  /\ \/ co[n].pub = "yes"
     \/ \E t \in Threads : pc[n][t] = "publish_ok"
     => ShowsVolume(n)

\* A Stage, a handover to another node, a repeated or a forgotten call: what the node
\* plugins and the kubelets rely on between two calls.
HandoverInv ==
  /\ ready = Nodes
  /\ \A n \in Nodes : /\ KubeletInv(n) /\ ReleaseInv(n) /\ WantedInv(n)
                      /\ ClearedInv(n) /\ RecordInv(n)
                      /\ SessionInv(n) /\ ShownInv(n)

-----------------------------------------------------------------------------
(* Safety the code's comments and messages claim *)

\* A volume in the transition list has a goroutine that will take it out.
ListedHasOwner ==
  \A n \in TransitionVolList : Idle(n) # Threads

-----------------------------------------------------------------------------
(* Liveness *)

\* The only pod that is left gets the volume: its node publishes it, whichever
\* node held it before.
OnlyPodServed ==
  \A n \in Nodes :
    <>[](co[n].want /\ \A m \in Nodes \ {n} : ~co[m].want)
      => <>[](co[n].pub = "yes")

\* A node that no pod needs the volume on gets rid of it.
UnwantedReleased ==
  \A n \in Nodes :
    <>[](~co[n].want) => <>[](co[n].st = "unstaged" /\ stg[n] = 0)

\* A published volume whose mounts went bad, in whatever way and with whatever calls
\* of the repair failing, ends up mounted read-write again, as long as its session
\* and its directories are there, which RemountVolume relies on and never restores.
DamageRepaired ==
  \A n \in Nodes :
    <>[](co[n].want /\ co[n].pub = "yes" /\ n \in session /\ dir[n] = Paths)
      => <>[]GoodShape(n)

=============================================================================
