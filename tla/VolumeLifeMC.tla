---------------------------- MODULE VolumeLifeMC ----------------------------
(* VolumeLife for TLC: a complete request, and requests with one thing amiss. *)
EXTENDS VolumeLife

Writer == [mount |-> TRUE, fsType |-> "ext4", mode |-> "SINGLE_NODE_WRITER"]

Plain == [name |-> "vol", size |-> 1, grown |-> 3, cstorPoolCluster |-> "pool",
          replicaCount |-> "3", casType |-> "cstor", capabilities |-> {Writer},
          topology |-> TRUE, preferred |-> <<{"gone"}, {"n1"}>>,
          source |-> <<>>, policy |-> "", pvcName |-> "claim", through |-> TRUE,
          access |-> "mount", fsType |-> "ext4", uses |-> {"vol", "grow"}, taken |-> FALSE]

Clone == [Plain EXCEPT !.source = SnapshotID, !.uses = {"vol", "src"}, !.taken = TRUE]

MCVolumeRequests ==
  {Plain, Clone, [Clone EXCEPT !.uses = {"vol", "snap"}],
   [Plain EXCEPT !.pvcName = "", !.capabilities = {[Writer EXCEPT !.mount = FALSE]},
                 !.access = "block", !.fsType = "", !.uses = {"vol", "stage"}],
   [Plain EXCEPT !.uses = {"vol", "stage"}],
   [Plain EXCEPT !.fsType = "", !.uses = {"vol", "stage"}],
   [Plain EXCEPT !.cstorPoolCluster = ""],
   [Plain EXCEPT !.replicaCount = "three"],
   [Plain EXCEPT !.capabilities = {Writer, [Writer EXCEPT !.fsType = "ntfs"]}],
   [Plain EXCEPT !.capabilities = {[Writer EXCEPT !.mode = "MULTI_NODE_READER"]}],
   [Plain EXCEPT !.topology = FALSE],
   [Plain EXCEPT !.uses = {"snap", "src"}],
   [Plain EXCEPT !.preferred = <<{"gone"}>>],
   [Plain EXCEPT !.preferred = <<{"n1", "n2"}>>, !.uses = {"vol"}],
   [Plain EXCEPT !.source = <<"">>],
   [Plain EXCEPT !.source = <<"src">>, !.uses = {"vol", "src"}],
   [Plain EXCEPT !.source = <<"", "s1">>]}

MCStrings == STRING

MCCloneRequests == {Clone}
=============================================================================
