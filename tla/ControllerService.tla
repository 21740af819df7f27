-------------------------- MODULE ControllerService --------------------------
(***************************************************************************)
(* CreateVolume, DeleteVolume and ControllerExpandVolume of the controller *)
(* plugin, for one volume: one action per call a handler makes to the API  *)
(* server.  The controller keeps no list of volumes in transition, so      *)
(* handlers run side by side whenever a sidecar repeats a call that it     *)
(* stopped waiting for.                                                    *)
(*                                                                         *)
(* All they share is the CStorVolumeConfig (CVC) of the volume, which the  *)
(* cvc-operator works on at the same time.  The plugin always stores the   *)
(* node of the topology in Publish.NodeID (an empty one is refused before  *)
(* the CVC is made), so every resize is verified.                          *)
(***************************************************************************)
EXTENDS Rounding

CONSTANTS
  Requests,     \* goroutines the controller can have at once (bound)
  Sizes,        \* the sizes in bytes that are asked for
  FaultKinds,   \* which faults the environment injects
  MaxFaults     \* how many of them (bound)

ASSUME ControllerAssumption ==
  /\ Sizes \subseteq Nat \ {0}
  /\ FaultKinds \subseteq {"error", "lost", "timeout", "crash"}
  /\ MaxFaults \in Nat

VARIABLES
  cvc,    \* the volume's CVC
  pc,     \* [Requests -> Locations]
  arg,    \* [Requests -> [size, seen]], the size asked for and, once the CVC
          \*   was read, the capacity in the copy the handler holds
  co,     \* what the sidecars want and were told: want, the size the claim asks
          \*   for; st; granted and grown, the sizes Create and Expand answered for
  call,   \* the request the sidecars are waiting for, if any
  faults

vars == <<cvc, pc, arg, co, call, faults>>

Absent == [exists |-> FALSE, deleting |-> FALSE, phase |-> "Pending",
           spec |-> 0, prov |-> 0, status |-> 0]

Calls == {"create_get", "create_post", "delete_get", "delete_del",
          "expand_get", "expand_patch", "expand_verify"}
Ends  == {"create_ok", "create_err", "delete_ok", "delete_err", "expand_ok",
          "expand_err"}

-----------------------------------------------------------------------------
(* Sizes *)

\* The capacities a volume can have, in GiB; none is 0.
Capacities == {0} \cup {RoundUpGiB(s) : s \in Sizes}

CVCRecord == [exists   : BOOLEAN,
              deleting : BOOLEAN,
              phase    : {"Pending", "Bound"},
              spec     : Capacities,    \* Spec.Capacity
              prov     : Capacities,    \* Spec.Provision.Capacity
              status   : Capacities]    \* Status.Capacity

-----------------------------------------------------------------------------
(* Control *)

Goto(r, p) == pc' = [pc EXCEPT ![r] = p]

\* Where a handler goes when its call at p fails.  A failed get is not an error
\* for CreateVolume and DeleteVolume, which look at the (empty) object only.
OnError(p) ==
  CASE p = "create_get"  -> "create_post"
    [] p = "create_post" -> "create_err"
    [] p = "delete_get"  -> "delete_del"
    [] p = "delete_del"  -> "delete_err"
    [] p \in {"expand_get", "expand_patch", "expand_verify"} -> "expand_err"

Fault(k) == /\ k \in FaultKinds
            /\ faults < MaxFaults
            /\ faults' = faults + 1

\* A write took effect; its reply arrives or is lost.
Reply(r, p) == \/ Goto(r, p) /\ UNCHANGED faults
               \/ Goto(r, OnError(pc[r])) /\ Fault("lost")

CallFails(r) == /\ pc[r] \in Calls
                /\ Fault("error")
                /\ Goto(r, OnError(pc[r]))
                /\ UNCHANGED <<cvc, arg, co, call>>

-----------------------------------------------------------------------------
(* CreateVolume.  The check of a snapshot source does not refuse anything: the
   client returns an object even when it finds none. *)

\* Mutant: any object the client returns is taken for the volume.
CreateGetAnyObject(r) ==
  /\ pc[r] = "create_get"
  /\ Goto(r, "create_ok")
  /\ UNCHANGED <<cvc, arg, co, call, faults>>

\* A volume that is there, and not being deleted, is the answer.
CreateGet(r) ==
  /\ pc[r] = "create_get"
  /\ Goto(r, IF cvc.exists /\ ~cvc.deleting THEN "create_ok" ELSE "create_post")
  /\ UNCHANGED <<cvc, arg, co, call, faults>>

\* ProvisionVolume: create a pending CVC of the rounded size; an existing one
\* is an error.
CreatePost(r) ==
  /\ pc[r] = "create_post"
  /\ IF cvc.exists
       THEN Goto(r, "create_err") /\ UNCHANGED <<cvc, faults>>
       ELSE /\ cvc' = [Absent EXCEPT !.exists = TRUE,
                                     !.spec = RoundUpGiB(arg[r].size),
                                     !.prov = RoundUpGiB(arg[r].size)]
            /\ Reply(r, "create_ok")
  /\ UNCHANGED <<arg, co, call>>

-----------------------------------------------------------------------------
(* DeleteVolume *)

DeleteGet(r) ==
  /\ pc[r] = "delete_get"
  /\ Goto(r, IF cvc.exists /\ cvc.deleting THEN "delete_ok" ELSE "delete_del")
  /\ UNCHANGED <<cvc, arg, co, call, faults>>

\* The CVC is marked; its finalizer keeps it until the operator is done.  One
\* that is gone is no error.
DeleteDel(r) ==
  /\ pc[r] = "delete_del"
  /\ IF cvc.exists
       THEN cvc' = [cvc EXCEPT !.deleting = TRUE] /\ Reply(r, "delete_ok")
       ELSE Goto(r, "delete_ok") /\ UNCHANGED <<cvc, faults>>
  /\ UNCHANGED <<arg, co, call>>

-----------------------------------------------------------------------------
(* ControllerExpandVolume: ResizeVolume, handleResize and
   waitAndReverifyResizeStatus *)

\* Mutant: the size that is already asked for counts as a shrink.
ExpandGetStrict(r) ==
  LET desired == RoundUpGiB(arg[r].size)
  IN  /\ pc[r] = "expand_get"
      /\ Goto(r, IF ~cvc.exists \/ desired <= cvc.spec THEN "expand_err"
                 ELSE IF cvc.phase = "Pending" THEN "expand_patch"
                 ELSE IF cvc.spec > cvc.status THEN "expand_err"
                 ELSE "expand_patch")
      /\ arg' = [arg EXCEPT ![r].seen = cvc.spec]
      /\ UNCHANGED <<cvc, co, call, faults>>

\* Refuse to shrink; patch a pending volume; while an earlier resize is under
\* way refuse; nothing to do when the volume has the size.
ExpandGet(r) ==
  LET desired == RoundUpGiB(arg[r].size)
  IN  /\ pc[r] = "expand_get"
      /\ Goto(r, IF ~cvc.exists \/ desired < cvc.spec THEN "expand_err"
                 ELSE IF cvc.phase = "Pending" THEN "expand_patch"
                 ELSE IF cvc.spec > cvc.status THEN "expand_err"
                 ELSE IF desired = cvc.status THEN "expand_ok"
                 ELSE "expand_patch")
      /\ arg' = [arg EXCEPT ![r].seen = cvc.spec]
      /\ UNCHANGED <<cvc, co, call, faults>>

\* The CVC after a merge patch of the difference between the copy that was read
\* and the copy with the desired capacity.  The patch carries no
\* resourceVersion, so it is applied to whatever the CVC is now.
Patched(seen, desired) ==
  [cvc EXCEPT !.spec = IF desired = seen THEN @ ELSE desired]

\* Mutant: the resize is not verified.
ExpandPatchNoWait(r) ==
  LET desired == RoundUpGiB(arg[r].size)
  IN  /\ pc[r] = "expand_patch"
      /\ IF cvc.exists
           THEN /\ cvc' = Patched(arg[r].seen, desired)
                /\ Reply(r, "expand_ok")
           ELSE Goto(r, "expand_err") /\ UNCHANGED <<cvc, faults>>
      /\ UNCHANGED <<arg, co, call>>

\* Mutant: the capacity is written in bytes.
ExpandPatchBytes(r) ==
  /\ pc[r] = "expand_patch"
  /\ IF cvc.exists
       THEN cvc' = [cvc EXCEPT !.spec = arg[r].size] /\ Reply(r, "expand_verify")
       ELSE Goto(r, "expand_err") /\ UNCHANGED <<cvc, faults>>
  /\ UNCHANGED <<arg, co, call>>

\* updateCVCSize patches the CVC; the resize is verified afterwards.
ExpandPatch(r) ==
  LET desired == RoundUpGiB(arg[r].size)
  IN  /\ pc[r] = "expand_patch"
      /\ IF cvc.exists
           THEN /\ cvc' = Patched(arg[r].seen, desired)
                /\ Reply(r, "expand_verify")
           ELSE Goto(r, "expand_err") /\ UNCHANGED <<cvc, faults>>
      /\ UNCHANGED <<arg, co, call>>

\* Mutant: what is asked of the volume is taken for what it has.
ExpandVerifyAsked(r) ==
  /\ pc[r] = "expand_verify"
  /\ Goto(r, IF cvc.exists /\ cvc.spec = RoundUpGiB(arg[r].size)
               THEN "expand_ok" ELSE "expand_err")
  /\ UNCHANGED <<cvc, arg, co, call, faults>>

\* Five seconds later the volume has the size or the call fails.
ExpandVerify(r) ==
  /\ pc[r] = "expand_verify"
  /\ Goto(r, IF cvc.exists /\ cvc.status = RoundUpGiB(arg[r].size)
               THEN "expand_ok" ELSE "expand_err")
  /\ UNCHANGED <<cvc, arg, co, call, faults>>

-----------------------------------------------------------------------------
(* The sidecars (external-provisioner and external-resizer).  A claim has one
   volume name for ever; it is asked for, grown and given up once its size is
   right. *)

Learn(k, end, size) ==
  CASE end = "create_ok" -> [k EXCEPT !.st = "yes", !.granted = size]
    [] end = "expand_ok" -> [k EXCEPT !.grown = size]
    [] end = "delete_ok" -> [k EXCEPT !.st = "gone"]
    [] OTHER             -> k

NoArg == [size |-> 0, seen |-> 0]

\* A handler returns; a sidecar that still waits learns the outcome.
Return(r) ==
  /\ pc[r] \in Ends
  /\ Goto(r, "idle")
  /\ arg' = [arg EXCEPT ![r] = NoArg]
  /\ co' = IF r \in call THEN Learn(co, pc[r], arg[r].size) ELSE co
  /\ call' = call \ {r}
  /\ UNCHANGED <<cvc, faults>>

Call(p, k) ==
  /\ call = {}
  /\ \E r \in Requests :
       /\ pc[r] = "idle"
       /\ Goto(r, p)
       /\ arg' = [arg EXCEPT ![r] = [NoArg EXCEPT !.size = co.want]]
       /\ call' = {r}
  /\ co' = k
  /\ UNCHANGED <<cvc, faults>>

CallCreate == /\ co.want > 0 /\ co.st \in {"none", "maybe"}
              /\ Call("create_get", [co EXCEPT !.st = "maybe"])

CallExpand == /\ co.want > 0 /\ co.st = "yes"
              /\ co.want > co.granted /\ co.want > co.grown
              /\ Call("expand_get", co)

CallDelete == /\ co.want = 0 /\ co.st \in {"yes", "maybe", "deleting"}
              /\ Call("delete_get", [co EXCEPT !.st = "deleting"])

\* A sidecar stops waiting, or a new leader takes over; the handler goes on.
CallTimeout == /\ call # {}
               /\ Fault("timeout")
               /\ call' = {}
               /\ UNCHANGED <<cvc, pc, arg, co>>

\* The controller dies; its pod is restarted at once.
ControllerCrash == /\ Fault("crash")
                   /\ pc' = [r \in Requests |-> "idle"]
                   /\ arg' = [r \in Requests |-> NoArg]
                   /\ call' = {}
                   /\ UNCHANGED <<cvc, co>>

Claim == /\ co.want = 0 /\ co.st = "none"
         /\ \E s \in Sizes : co' = [co EXCEPT !.want = s]
         /\ UNCHANGED <<cvc, pc, arg, call, faults>>

\* A bound claim is made larger.
Grow == /\ co.want > 0 /\ co.st = "yes"
        /\ \E s \in Sizes : s > co.want /\ co' = [co EXCEPT !.want = s]
        /\ UNCHANGED <<cvc, pc, arg, call, faults>>

GiveUp == /\ co.want > 0
          /\ co' = [co EXCEPT !.want = 0, !.st = IF @ = "none" THEN "gone" ELSE @]
          /\ UNCHANGED <<cvc, pc, arg, call, faults>>

-----------------------------------------------------------------------------
(* The cvc-operator *)

Bind == /\ cvc.exists /\ ~cvc.deleting /\ cvc.phase = "Pending"
        /\ cvc' = [cvc EXCEPT !.phase = "Bound", !.status = cvc.prov]
        /\ UNCHANGED <<pc, arg, co, call, faults>>

Resize == /\ cvc.exists /\ ~cvc.deleting /\ cvc.phase = "Bound"
          /\ cvc.spec > cvc.status
          /\ cvc' = [cvc EXCEPT !.status = cvc.spec]
          /\ UNCHANGED <<pc, arg, co, call, faults>>

Reap == /\ cvc.deleting
        /\ cvc' = Absent
        /\ UNCHANGED <<pc, arg, co, call, faults>>

-----------------------------------------------------------------------------

Init ==
  /\ cvc = Absent
  /\ pc = [r \in Requests |-> "idle"]
  /\ arg = [r \in Requests |-> NoArg]
  /\ co = [want |-> 0, st |-> "none", granted |-> 0, grown |-> 0]
  /\ call = {}
  /\ faults = 0

Handler(r) ==
  \/ CreateGet(r) \/ CreatePost(r)
  \/ DeleteGet(r) \/ DeleteDel(r)
  \/ ExpandGet(r) \/ ExpandPatch(r) \/ ExpandVerify(r)
  \/ Return(r)

Sidecar == CallCreate \/ CallExpand \/ CallDelete

Next ==
  \/ \E r \in Requests : Handler(r) \/ CallFails(r)
  \/ Sidecar \/ CallTimeout \/ ControllerCrash
  \/ Claim \/ Grow \/ GiveUp
  \/ Bind \/ Resize \/ Reap

Spec == Init /\ [][Next]_vars

\* Goroutines run, sidecars repeat their calls, the operator works.
FairSpec ==
  /\ Spec
  /\ \A r \in Requests : WF_vars(Handler(r))
  /\ WF_vars(Sidecar)
  /\ WF_vars(Bind) /\ WF_vars(Resize) /\ WF_vars(Reap)

-----------------------------------------------------------------------------

\* Types, in particular that capacities are whole GiB of a size someone asked
\* for and never bytes.
TypeOK ==
  /\ cvc \in CVCRecord
  /\ pc \in [Requests -> {"idle"} \cup Calls \cup Ends]
  /\ arg \in [Requests -> [size : {0} \cup Sizes, seen : Capacities]]
  /\ co \in [want : {0} \cup Sizes, st : {"none", "maybe", "yes", "deleting", "gone"},
             granted : {0} \cup Sizes, grown : {0} \cup Sizes]
  /\ call \subseteq Requests
  /\ faults \in 0..MaxFaults

\* A volume that CreateVolume has answered for, and nobody asked to delete, is
\* there and is not being deleted.
ProvisionedExists == co.st = "yes" => cvc.exists /\ ~cvc.deleting

\* An expansion that was answered with success has taken place: the volume
\* itself, not only what is asked of it, has at least the size in bytes.
GrowthReal == co.st = "yes" => co.grown <= cvc.status * GiB

\* The volume has not been given up for deletion.
Alive == co.st \in {"none", "maybe", "yes"}

\* What the two properties above rest on, at every call of a handler.  The
\* sidecars wait for one call; a create or an expansion they wait for is not
\* overtaken by a delete; while the volume is alive no delete is under way, not even a forgotten
\* one, and what a handler is about to answer is true already.
IInv ==
  /\ TypeOK
  /\ \A r, s \in call : r = s
  /\ \A r \in call : pc[r] \in {"create_get", "create_post", "create_ok", "create_err"}
                      => co.st = "maybe"
  /\ \A r \in call : pc[r] \in {"expand_get", "expand_patch", "expand_verify",
                               "expand_ok", "expand_err"} => co.st = "yes"
  /\ \A r \in call : pc[r] \in {"delete_get", "delete_del", "delete_ok", "delete_err"}
                      => co.st = "deleting"
  /\ ~cvc.exists => cvc = Absent
  /\ cvc.phase = "Pending" => cvc.status = 0
  /\ Alive => /\ ~cvc.deleting
              /\ co.grown <= cvc.status * GiB
              /\ \A r \in Requests :
                   /\ pc[r] \notin {"delete_get", "delete_del", "delete_ok", "delete_err"}
                   /\ pc[r] = "create_ok" => cvc.exists
                   /\ pc[r] = "expand_ok" => arg[r].size <= cvc.status * GiB
  /\ co.st = "yes" => cvc.exists

\* The volume as the sidecars see it.
Volume == INSTANCE ProvisionedVolume WITH
            st    <- co.st,
            there <- cvc.exists /\ ~cvc.deleting,
            size  <- cvc.status * GiB,
            told  <- co.grown

\* What the sidecars see of the handlers, the CVC and the operator is a volume as
\* ProvisionedVolume promises it, whatever calls fail, are repeated or forgotten.
ImplementsVolume == Volume!Spec

\* The capacity asked of a volume never shrinks.
NeverShrinks == [][cvc.exists /\ cvc'.exists => cvc'.spec >= cvc.spec]_vars

\* The claim was told that it has the size, and its volume does, in bytes.
Served == /\ co.st = "yes"
          /\ co.want \in {co.granted, co.grown}
          /\ co.want <= cvc.status * GiB

\* A claim that stays gets, and keeps, a volume of its last size, after timeouts,
\* lost replies, errors and crashes, and after late patches of earlier calls.
ClaimServed == <>[](co.want > 0) => <>[]Served

=============================================================================
