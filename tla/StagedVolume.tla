----------------------------- MODULE StagedVolume -----------------------------
(***************************************************************************)
(* What the node plugins of a cluster promise the kubelets about one       *)
(* volume, without attachments, sessions and goroutines: its filesystem    *)
(* appears on and disappears from a node only between a call of that       *)
(* node's kubelet and its answer, is on one node at a time, and is where   *)
(* the answers say it is.                                                  *)
(***************************************************************************)
CONSTANT Nodes

VARIABLES
  filesystem,   \* the volume is used as a filesystem, not as a block device
  known,        \* [Nodes -> {"unstaged", "maybe", "staged"}], to the kubelets
  mounted       \* nodes that have the filesystem mounted

vars == <<filesystem, known, mounted>>

Init == /\ filesystem \in BOOLEAN
        /\ known = [n \in Nodes |-> "unstaged"]
        /\ mounted = {}

\* Stage or Unstage is called; from here to the answer the kubelet is unsure.
Ask(n) == /\ known' = [known EXCEPT ![n] = "maybe"]
          /\ UNCHANGED mounted

Mount(n) == /\ filesystem /\ known[n] = "maybe" /\ mounted = {}
            /\ mounted' = {n}
            /\ UNCHANGED known

Unmount(n) == /\ known[n] = "maybe"
              /\ mounted' = mounted \ {n}
              /\ UNCHANGED known

AnswerStage(n) == /\ known[n] = "maybe"
                  /\ filesystem => n \in mounted
                  /\ known' = [known EXCEPT ![n] = "staged"]
                  /\ UNCHANGED mounted

AnswerUnstage(n) == /\ known[n] = "maybe" /\ n \notin mounted
                    /\ known' = [known EXCEPT ![n] = "unstaged"]
                    /\ UNCHANGED mounted

\* A node starts anew.  Its kubelet has to find out what is left of the volume.
Reboot(n) == /\ mounted' = mounted \ {n}
             /\ known' = [known EXCEPT ![n] = IF @ = "unstaged" THEN @ ELSE "maybe"]

Next == /\ UNCHANGED filesystem
        /\ \E n \in Nodes : \/ Ask(n) \/ Mount(n) \/ Unmount(n) \/ Reboot(n)
                            \/ AnswerStage(n) \/ AnswerUnstage(n)

Spec == Init /\ [][Next]_vars
=============================================================================
