---------------------------- MODULE MountMonitor -----------------------------
(***************************************************************************)
(* The part of the node plugin that works without being called: Cleanup,   *)
(* run at startup and by MonitorMounts, and RemountVolume, started by      *)
(* MonitorMounts, which only runs when REMOUNT is set; and the death and   *)
(* start of the driver process.                                            *)
(***************************************************************************)
EXTENDS StageVolume

-----------------------------------------------------------------------------
(* Cleanup *)

\* Cleanup, under the list's lock: a CVA under deletion is listed in
\* TransitionVolList, whether or not it was there, and handed to a goroutine
\* with the copy just read.
Cleanup(n) ==
  IF cva[n].exists /\ cva[n].deleting
    THEN \E t \in Idle(n) :
           /\ TransitionVolList' = TransitionVolList \cup {n}
           /\ fresh' = [fresh EXCEPT ![n] = @ \cup {t}]
           /\ GotoWith(n, t, "cleanup_detach",
                       IF cva[n].staging THEN {"staging"} ELSE {})
    ELSE UNCHANGED <<TransitionVolList, fresh, pc, arg>>

CleanupDetach(n, t) ==
  /\ At(n, t, "cleanup_detach")
  /\ DetachUnmount(n, t, "staging" \in arg[n][t], "cleanup_logout",
                   "cleanup_update")
  /\ UNCHANGED TransitionVolList

CleanupLogout(n, t) ==
  /\ At(n, t, "cleanup_logout")
  /\ DetachLogout(n, t, "cleanup_rmdir")

CleanupRemove(n, t) ==
  /\ At(n, t, "cleanup_rmdir")
  /\ DetachRemove(n, t, "cleanup_update")

\* Mutant: the update does not carry the resourceVersion of the copy.
CleanupUpdateBlind(n, t) ==
  /\ At(n, t, "cleanup_update")
  /\ WriteCVA(n, Settle([cva[n] EXCEPT !.finalizers = {}]), {t})
  /\ Reply(n, t, "cleanup_release", {})
  /\ UNCHANGED <<ready, online, host, up, TransitionVolList, mon, kubelet>>

\* Drop the finalizers.  When the update fails, the goroutine goes on with the
\* empty object the client returned and removes "" from the transition list,
\* so the volume stays in it: OnError("cleanup_update") = "idle".
CleanupUpdate(n, t) ==
  /\ At(n, t, "cleanup_update")
  /\ UpdateCStorVolumeAttachmentCR(n, t, [cva[n] EXCEPT !.finalizers = {}],
                                   "cleanup_release")
  /\ UNCHANGED <<host, up, TransitionVolList, mon, kubelet>>

CleanupRelease(n, t) ==
  /\ At(n, t, "cleanup_release")
  /\ TransitionVolList' = TransitionVolList \ {n}
  /\ fresh' = [fresh EXCEPT ![n] = @ \ {t}]
  /\ Goto(n, t, "idle")
  /\ UNCHANGED <<cva, ready, online, host, up, mon, kubelet, faults>>

CleanupVolume(n, t) ==
  \/ CleanupDetach(n, t) \/ CleanupLogout(n, t) \/ CleanupRemove(n, t)
  \/ CleanupUpdate(n, t) \/ CleanupRelease(n, t)

-----------------------------------------------------------------------------
(* MonitorMounts *)

\* The staging and the target path are both mounted and the volume is not
\* read-only: the monitor leaves the volume alone.
GoodShape(n) == stg[n] > 0 /\ tgt[n] # <<>> /\ n \notin ro

\* One tick, under the list's lock: a CVA under deletion asks for a Cleanup; a
\* published filesystem in bad shape is remounted unless it is in transition.
MonitorTick(n) ==
  /\ n \in up /\ mon[n] = "wait"
  /\ \/ /\ cva[n].exists /\ cva[n].deleting
        /\ mon' = [mon EXCEPT ![n] = "cleanup"]
        /\ UNCHANGED <<TransitionVolList, pc, arg>>
     \/ /\ cva[n].exists /\ ~cva[n].deleting /\ accessType = "mount"
        /\ cva[n].staging /\ cva[n].target /\ ~GoodShape(n)
        /\ n \notin TransitionVolList
        /\ TransitionVolList' = TransitionVolList \cup {n}
        /\ \E t \in Idle(n) :
             GotoWith(n, t, "remount_ready",
                      (IF stg[n] > 0 THEN {"staging"} ELSE {})
                        \cup (IF tgt[n] # <<>> THEN {"target"} ELSE {}))
        /\ UNCHANGED mon
  /\ UNCHANGED <<cluster, host, up, kubelet, faults>>

\* After the tick has let go of the lock: Cleanup.
MonitorCleanup(n) ==
  /\ n \in up /\ mon[n] = "cleanup"
  /\ mon' = [mon EXCEPT ![n] = "wait"]
  /\ Cleanup(n)
  /\ UNCHANGED <<cva, ready, online, host, up, kubelet, faults>>

-----------------------------------------------------------------------------
(* RemountVolume, with the paths the tick found mounted as its argument *)

RemountReady(n, t) ==
  /\ At(n, t, "remount_ready")
  /\ IF online THEN GotoWith(n, t, "remount_umount_s", arg[n][t])
               ELSE Goto(n, t, "remount_release")
  /\ UNCHANGED <<cluster, host, up, TransitionVolList, mon, kubelet, faults>>

\* Mutant: the broken mount is left on the staging path.
RemountKeepsStaging(n, t) ==
  /\ At(n, t, "remount_umount_s")
  /\ GotoWith(n, t, "remount_umount_t", arg[n][t])
  /\ UNCHANGED <<cluster, host, up, TransitionVolList, mon, kubelet, faults>>

RemountUnmountStaging(n, t) ==
  /\ At(n, t, "remount_umount_s")
  /\ stg' = [stg EXCEPT ![n] =
               IF "staging" \in arg[n][t] /\ @ > 0 THEN @ - 1 ELSE @]
  /\ GotoWith(n, t, "remount_umount_t", arg[n][t])
  /\ UNCHANGED <<cluster, session, ro, tgt, dir, up, TransitionVolList, mon,
                 kubelet, faults>>

RemountUnmountTarget(n, t) ==
  /\ At(n, t, "remount_umount_t")
  /\ tgt' = [tgt EXCEPT ![n] = IF "target" \in arg[n][t] THEN Unmounted(@) ELSE @]
  /\ Goto(n, t, "remount_mount_s")
  /\ UNCHANGED <<cluster, session, stg, ro, dir, up, TransitionVolList, mon,
                 kubelet, faults>>

RemountMountStaging(n, t) ==
  /\ At(n, t, "remount_mount_s")
  /\ IF Mountable(n)
       THEN /\ stg' = [stg EXCEPT ![n] = @ + 1]
            /\ ro' = ro \ {n}
            /\ Goto(n, t, "remount_mount_t")
       ELSE /\ Goto(n, t, "remount_release")
            /\ UNCHANGED <<stg, ro>>
  /\ UNCHANGED <<cluster, session, tgt, dir, up, TransitionVolList, mon, kubelet,
                 faults>>

RemountMountTarget(n, t) ==
  /\ At(n, t, "remount_mount_t")
  /\ IF dir[n] = Paths
       THEN tgt' = [tgt EXCEPT ![n] = Append(@, IF stg[n] > 0 THEN "vol" ELSE "dir")]
       ELSE UNCHANGED tgt
  /\ Goto(n, t, "remount_release")
  /\ UNCHANGED <<cluster, session, stg, ro, dir, up, TransitionVolList, mon,
                 kubelet, faults>>

RemountRelease(n, t) ==
  /\ At(n, t, "remount_release")
  /\ TransitionVolList' = TransitionVolList \ {n}
  /\ Goto(n, t, "idle")
  /\ UNCHANGED <<cluster, host, up, mon, kubelet, faults>>

RemountVolume(n, t) ==
  \/ RemountReady(n, t) \/ RemountUnmountStaging(n, t)
  \/ RemountUnmountTarget(n, t) \/ RemountMountStaging(n, t)
  \/ RemountMountTarget(n, t) \/ RemountRelease(n, t)

-----------------------------------------------------------------------------
(* The driver process *)

\* All that is in memory goes; what the host and the cluster hold stays.
ProcessDies(n) ==
  /\ up' = up \ {n}
  /\ TransitionVolList' = TransitionVolList \ {n}
  /\ pc' = [pc EXCEPT ![n] = [t \in Threads |-> "idle"]]
  /\ arg' = [arg EXCEPT ![n] = [t \in Threads |-> {}]]
  /\ fresh' = [fresh EXCEPT ![n] = {}]
  /\ mon' = [mon EXCEPT ![n] = "off"]
  /\ call' = [call EXCEPT ![n] = {}]

DriverCrash(n) ==
  /\ n \in up
  /\ Fault("crash")
  /\ ProcessDies(n)
  /\ UNCHANGED <<cva, ready, online, host, co, events>>

\* The node reboots: sessions and mounts go too, directories stay, and the
\* kubelet is no longer sure of what it had set up.
Unsure(k) == [k EXCEPT !.st  = IF @ = "unstaged" THEN @ ELSE "maybe",
                       !.pub = IF @ = "no" THEN @ ELSE "maybe"]

Reboot(n) ==
  /\ Fault("reboot")
  /\ ProcessDies(n)
  /\ session' = session \ {n}
  /\ stg' = [stg EXCEPT ![n] = 0]
  /\ tgt' = [tgt EXCEPT ![n] = <<>>]
  /\ ro' = ro \ {n}
  /\ co' = [co EXCEPT ![n] = Unsure(@)]
  /\ UNCHANGED <<cva, ready, online, dir, events>>

\* New: Cleanup before the first call is served; the monitor only on REMOUNT.
DriverStart(n) ==
  /\ n \notin up
  /\ up' = up \cup {n}
  /\ Cleanup(n)
  /\ mon' = [mon EXCEPT ![n] = IF Remount THEN "wait" ELSE "off"]
  /\ UNCHANGED <<cva, ready, online, host, kubelet, faults>>
=============================================================================
