--------------------------- MODULE AttachmentStore ---------------------------
(***************************************************************************)
(* The CStorVolumeAttachment (CVA) custom resource of one volume on one    *)
(* node, as the API server keeps it.  The driver names a CVA               *)
(* <volume>-<node>, so for one volume the CVAs are a function of the node. *)
(*                                                                         *)
(* Of the object the driver reads and writes, these parts decide anything: *)
(* whether it exists, its DeletionTimestamp, its finalizers (the node's    *)
(* own id, which the driver places while it may hold the volume, and       *)
(* "foreground", which the API server adds because every Delete of the     *)
(* driver asks for foreground propagation), and whether                    *)
(* Spec.Volume.StagingTargetPath and Spec.Volume.TargetPath are set.       *)
(* Spec.Volume.DevicePath is written together with the staging path.       *)
(***************************************************************************)

CVARecord == [exists     : BOOLEAN,
              deleting   : BOOLEAN,
              finalizers : SUBSET {"node", "foreground"},
              staging    : BOOLEAN,
              target     : BOOLEAN]

\* No such object.
Absent == [exists     |-> FALSE,
           deleting   |-> FALSE,
           finalizers |-> {},
           staging    |-> FALSE,
           target     |-> FALSE]

\* The object prepareVolumeForNode builds: no finalizer, no path.
NewCVA == [Absent EXCEPT !.exists = TRUE]

\* An object whose deletion was requested goes away with its last finalizer.
Settle(c) == IF c.deleting /\ c.finalizers = {} THEN Absent ELSE c

\* Delete with PropagationPolicy Foreground: the object is only marked; a
\* second Delete changes nothing.
Deleted(c) == IF c.deleting
                THEN c
                ELSE [c EXCEPT !.deleting = TRUE,
                               !.finalizers = @ \cup {"foreground"}]

\* The API server refuses an update that adds a finalizer to an object that
\* is being deleted.
MayUpdate(c, new) ==
  c.exists /\ (c.deleting => new.finalizers \subseteq c.finalizers)

\* The garbage collector finds no dependents and drops its finalizer.
Collected(c) == Settle([c EXCEPT !.finalizers = @ \ {"foreground"}])
=============================================================================
