---------------------------- MODULE ConfigBuilder ----------------------------
(***************************************************************************)
(* The builder of CStorVolumeConfig (CVC) objects.  A builder is the       *)
(* object it works on and whether a setter has refused its argument; a     *)
(* refusal does not stop the chain, Build reports it at the end.           *)
(*                                                                         *)
(* "" and 0 are Go's zero values.  A map is a set of <<key, value>> pairs  *)
(* with one pair for each key, a list of finalizers is a set.              *)
(***************************************************************************)
EXTENDS Integers, Sequences

CONSTANT Strings    \* the strings a field may hold

\* strconv.Atoi on the strings of the model: the numerals and their numbers.
Numerals == {"0", "1", "3"}
Atoi(s) == CASE s = "0" -> 0 [] s = "1" -> 1 [] s = "3" -> 3

\* The fields the driver and the cvc-operator set.
Objects == [name         : Strings, namespace : Strings,
            annotations  : SUBSET (Strings \X Strings),
            labels       : SUBSET (Strings \X Strings),
            finalizers   : SUBSET {"cvc", "foreground"},
            deleting     : BOOLEAN,
            capacity     : Nat, provisioned : Nat, replicaCount : Nat,
            source       : Seq(Strings),
            nodeID       : Strings, upgraded  : BOOLEAN,
            phase        : {"", "Pending", "Bound"},
            status       : Nat]

\* All of them zero.
Zero == [name         |-> "", namespace  |-> "",
         annotations  |-> {}, labels     |-> {}, finalizers |-> {},
         deleting     |-> FALSE,          \* DeletionTimestamp is set
         capacity     |-> 0,              \* Spec.Capacity
         provisioned  |-> 0,              \* Spec.Provision.Capacity
         replicaCount |-> 0,              \* Spec.Provision.ReplicaCount
         source       |-> <<>>,           \* Spec.CStorVolumeSource, cut at "@"
         nodeID       |-> "",             \* Publish.NodeID
         upgraded     |-> FALSE,          \* VersionDetails...DependentsUpgraded
         phase        |-> "",             \* Status.Phase
         status       |-> 0]              \* Status.Capacity

NewBuilder == [obj |-> Zero, errs |-> FALSE]

Refuse(b) == [b EXCEPT !.errs = TRUE]

\* A nil object is refused.  Any other is worked on in place: the caller's
\* object changes unless it hands over a copy.
BuildFrom(isNil, cvc) == IF isNil THEN Refuse(NewBuilder)
                         ELSE [obj |-> cvc, errs |-> FALSE]

\* The pairs of a map after those of another are put into it.
Merged(old, new) ==
  {p \in old : \A q \in new : q[1] # p[1]} \cup new

WithName(b, name) ==
  IF name = "" THEN Refuse(b) ELSE [b EXCEPT !.obj.name = name]

WithNamespace(b, namespace) ==
  IF namespace = "" THEN Refuse(b) ELSE [b EXCEPT !.obj.namespace = namespace]

WithStatusPhase(b, phase) ==
  IF phase = "" THEN Refuse(b) ELSE [b EXCEPT !.obj.phase = phase]

WithAnnotations(b, annotations) ==
  IF annotations = {} THEN Refuse(b)
  ELSE [b EXCEPT !.obj.annotations = Merged(@, annotations)]

\* The labels are replaced, not merged.
WithLabelsNew(b, labels) ==
  IF labels = {} THEN Refuse(b) ELSE [b EXCEPT !.obj.labels = labels]

WithFinalizers(b, finalizers) ==
  IF finalizers = {} THEN Refuse(b)
  ELSE [b EXCEPT !.obj.finalizers = @ \cup finalizers]

\* No source is no error.
WithSource(b, source) == [b EXCEPT !.obj.source = source]

WithCapacityQty(b, qty) == [b EXCEPT !.obj.capacity = qty]

WithProvisionCapacityQty(b, qty) == [b EXCEPT !.obj.provisioned = qty]

\* Any number is taken, zero and negative ones too.
WithReplicaCount(b, count) ==
  IF count \in Numerals THEN [b EXCEPT !.obj.replicaCount = Atoi(count)]
                         ELSE Refuse(b)

WithNodeID(b, nodeID) ==
  IF nodeID = "" THEN Refuse(b) ELSE [b EXCEPT !.obj.nodeID = nodeID]

WithDependentsUpgraded(b) == [b EXCEPT !.obj.upgraded = TRUE]

\* Mutant: what the setters refused is not reported.
BuildUnchecked(b) == [b EXCEPT !.errs = FALSE]

\* The object, or an error if any setter refused.
Build(b) == IF b.errs THEN [obj |-> Zero, errs |-> TRUE] ELSE b
=============================================================================
