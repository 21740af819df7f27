---------------------------- MODULE VolumeMoves ----------------------------
(***************************************************************************)
(* What a step of VolumeLife can do: what the builders make and the API    *)
(* server does to the objects, where a goroutine can get to and from       *)
(* where, and what happens to the CVCs, the CVs, the snapshots and the     *)
(* attachment.  The invariants of VolumeLifeProofs are proved from these   *)
(* facts, not action by action.                                            *)
(***************************************************************************)
EXTENDS VolumeLife, TLAPS

\* The zero CVC, which a failed Get returns, is one.
LEMMA ZeroCVC == CVC!Zero \in CVC!Objects
<1>1. "" \in Strings
  BY StringsAssumption
<1>2. <<>> \in Seq(Strings)
  OBVIOUS
<1> DEFINE e == <<>>
<1>3. e \in Seq(Strings)
  BY <1>2
<1> HIDE DEF e
<1>4. [name |-> "", namespace |-> "", annotations |-> {}, labels |-> {},
       finalizers |-> {}, deleting |-> FALSE, capacity |-> 0, provisioned |-> 0,
       replicaCount |-> 0, source |-> e, nodeID |-> "", upgraded |-> FALSE,
       phase |-> "", status |-> 0] \in CVC!Objects
  BY <1>1, <1>3 DEF CVC!Objects
<1> QED
  BY <1>4 DEF e, CVC!Zero

\* So is the zero CVA.
LEMMA ZeroCVA == CVA!Zero \in CVA!Objects
BY StringsAssumption DEF CVA!Zero, CVA!Objects

\* A handler that has just been called holds what a handler can hold.
LEMMA NoArgs == NoArg \in Args
BY ZeroCVC, ZeroCVA, StringsAssumption DEF NoArg, Args, Volumes

\* What no writer of a CVC changes once CreateVolume has built it.
Kept(o, n) == /\ n.name = o.name /\ n.namespace = o.namespace
              /\ n.annotations = o.annotations /\ n.labels = o.labels
              /\ n.provisioned = o.provisioned /\ n.replicaCount = o.replicaCount
              /\ n.source = o.source /\ n.nodeID = o.nodeID

\* The capacities and the phase are the same.
Sized(o, n) == n.capacity = o.capacity /\ n.phase = o.phase /\ n.status = o.status

\* In the store, the object v alone is changed.
Edited(old, new, v) == /\ DOMAIN new = DOMAIN old
                       /\ new \in [DOMAIN new -> CVC!Objects]
                       /\ \A w \in DOMAIN old \ {v} : new[w] = old[w]
                       /\ Kept(old[v], new[v])

\* In the store, the object v alone is removed.
Dropped(old, new, v) == /\ DOMAIN new = DOMAIN old \ {v}
                        /\ new \in [DOMAIN new -> CVC!Objects]
                        /\ \A w \in DOMAIN new : new[w] = old[w]

\* Writing an object that keeps what it must is an edit.
LEMMA EditedObject ==
  ASSUME NEW st, st \in [DOMAIN st -> CVC!Objects], NEW v \in DOMAIN st,
         NEW o \in CVC!Objects, Kept(st[v], o)
  PROVE  Edited(st, [st EXCEPT ![v] = o], v)
  BY DEF Edited

\* A Delete marks the object, whatever its finalizers, and changes no more.
LEMMA DeletedStore ==
  ASSUME NEW st, st \in [DOMAIN st -> CVC!Objects], NEW v \in DOMAIN st
  PROVE  LET new == Deleted(st, v)
         IN  /\ Edited(st, new, v)
             /\ Sized(st[v], new[v])
             /\ new[v].deleting
             /\ "cvc" \in st[v].finalizers => "cvc" \in new[v].finalizers
<1> DEFINE o == [st[v] EXCEPT !.deleting = TRUE, !.finalizers = @ \cup {"foreground"}]
<1>1. st[v] \in CVC!Objects
  OBVIOUS
<1>2. /\ o \in CVC!Objects /\ Kept(st[v], o) /\ Sized(st[v], o) /\ o.deleting
      /\ "cvc" \in st[v].finalizers => "cvc" \in o.finalizers
  BY <1>1 DEF CVC!Objects, Kept, Sized
<1>3. Kept(st[v], st[v]) /\ Sized(st[v], st[v])
  BY DEF Kept, Sized
<1>4. CASE st[v].deleting
  BY <1>3, <1>4 DEF Deleted, Edited
<1>5. CASE ~st[v].deleting
  <2>1. Deleted(st, v) = [st EXCEPT ![v] = o]
    BY <1>5 DEF Deleted
  <2> HIDE DEF o
  <2>2. Edited(st, [st EXCEPT ![v] = o], v)
    BY <1>2, EditedObject
  <2> QED
    BY <1>2, <2>1, <2>2
<1> QED
  BY <1>4, <1>5

\* The patch of updateCVCSize, of a copy however old, changes the capacity at most:
\* what the operator, a Delete or another patch wrote meanwhile is kept.
LEMMA PatchedStore ==
  ASSUME NEW st, st \in [DOMAIN st -> CVC!Objects], NEW v \in DOMAIN st,
         NEW held \in CVC!Objects, NEW n \in Nat
  PROVE  LET new == Patched(st, v, held, [held EXCEPT !.capacity = n])
         IN  /\ Edited(st, new, v)
             /\ new[v].capacity \in {st[v].capacity, n}
             /\ new[v].deleting = st[v].deleting
             /\ new[v].finalizers = st[v].finalizers
             /\ new[v].phase = st[v].phase /\ new[v].status = st[v].status
<1> DEFINE h == [held EXCEPT !.capacity = n]
           o == [f \in DOMAIN st[v] |-> IF h[f] # held[f] THEN h[f] ELSE st[v][f]]
           c == IF n # held.capacity THEN n ELSE st[v].capacity
<1>1. st[v] \in CVC!Objects
  OBVIOUS
<1>2. o = [st[v] EXCEPT !.capacity = c]
  BY <1>1 DEF CVC!Objects
<1>3. /\ o \in CVC!Objects /\ Kept(st[v], o)
      /\ o.capacity \in {st[v].capacity, n}
      /\ o.deleting = st[v].deleting /\ o.finalizers = st[v].finalizers
      /\ o.phase = st[v].phase /\ o.status = st[v].status
  <2> HIDE DEF o
  <2> QED
    BY <1>1, <1>2 DEF CVC!Objects, Kept
<1>4. Patched(st, v, held, h) = [st EXCEPT ![v] = o]
  BY DEF Patched
<1> HIDE DEF o, h
<1>5. Edited(st, [st EXCEPT ![v] = o], v)
  BY <1>3, EditedObject
<1>6. [st EXCEPT ![v] = o][v] = o
  OBVIOUS
<1> QED
  BY <1>3, <1>4, <1>5, <1>6 DEF h

\* The operator binds a CVC with the capacity it was provisioned with.
LEMMA BoundStore ==
  ASSUME NEW st, st \in [DOMAIN st -> CVC!Objects], NEW v \in DOMAIN st
  PROVE  LET new == [st EXCEPT ![v].phase = "Bound", ![v].status = st[v].provisioned]
         IN  /\ Edited(st, new, v)
             /\ new[v].capacity = st[v].capacity
             /\ new[v].deleting = st[v].deleting
             /\ new[v].finalizers = st[v].finalizers
             /\ new[v].phase = "Bound" /\ new[v].status = st[v].provisioned
<1> DEFINE o == [st[v] EXCEPT !.phase = "Bound", !.status = st[v].provisioned]
<1>1. st[v] \in CVC!Objects
  OBVIOUS
<1>2. /\ o \in CVC!Objects /\ Kept(st[v], o)
      /\ o.capacity = st[v].capacity /\ o.deleting = st[v].deleting
      /\ o.finalizers = st[v].finalizers
      /\ o.phase = "Bound" /\ o.status = st[v].provisioned
  BY <1>1 DEF CVC!Objects, Kept
<1>3. [st EXCEPT ![v].phase = "Bound", ![v].status = st[v].provisioned] = [st EXCEPT ![v] = o]
  OBVIOUS
<1> HIDE DEF o
<1> QED
  BY <1>2, <1>3, EditedObject

\* The operator grows a volume to the capacity its CVC asks for.
LEMMA ResizedStore ==
  ASSUME NEW st, st \in [DOMAIN st -> CVC!Objects], NEW v \in DOMAIN st
  PROVE  LET new == [st EXCEPT ![v].status = st[v].capacity]
         IN  /\ Edited(st, new, v)
             /\ new[v].capacity = st[v].capacity
             /\ new[v].deleting = st[v].deleting
             /\ new[v].finalizers = st[v].finalizers
             /\ new[v].phase = st[v].phase /\ new[v].status = st[v].capacity
<1> DEFINE o == [st[v] EXCEPT !.status = st[v].capacity]
<1>1. st[v] \in CVC!Objects
  OBVIOUS
<1>2. /\ o \in CVC!Objects /\ Kept(st[v], o)
      /\ o.capacity = st[v].capacity /\ o.deleting = st[v].deleting
      /\ o.finalizers = st[v].finalizers
      /\ o.phase = st[v].phase /\ o.status = st[v].capacity
  BY <1>1 DEF CVC!Objects, Kept
<1>3. [st EXCEPT ![v].status = st[v].capacity] = [st EXCEPT ![v] = o]
  OBVIOUS
<1> HIDE DEF o
<1> QED
  BY <1>2, <1>3, EditedObject

\* A finalizer is taken off; the object goes with the last one at most.
LEMMA SettledStore ==
  ASSUME NEW st, st \in [DOMAIN st -> CVC!Objects], NEW v \in DOMAIN st, NEW f
  PROVE  LET fs == st[v].finalizers \ {f}
             new == Settled([st EXCEPT ![v].finalizers = @ \ {f}], v)
         IN  \/ Dropped(st, new, v) /\ fs = {}
             \/ /\ Edited(st, new, v) /\ Sized(st[v], new[v])
                /\ new[v].deleting = st[v].deleting
                /\ new[v].finalizers = fs
<1> DEFINE fs == st[v].finalizers \ {f}
           o == [st[v] EXCEPT !.finalizers = fs]
           mid == [st EXCEPT ![v] = o]
<1>1. st[v] \in CVC!Objects
  OBVIOUS
<1>2. /\ o \in CVC!Objects /\ Kept(st[v], o) /\ Sized(st[v], o)
      /\ o.deleting = st[v].deleting /\ o.finalizers = fs
  BY <1>1 DEF CVC!Objects, Kept, Sized
<1>3. [st EXCEPT ![v].finalizers = @ \ {f}] = mid
  OBVIOUS
<1> HIDE DEF o
<1>4. Edited(st, mid, v) /\ mid[v] = o /\ mid \in [DOMAIN st -> CVC!Objects]
  BY <1>2, EditedObject
<1>5. CASE o.deleting /\ fs = {}
  <2>1. Settled(mid, v) = Removed(mid, v)
    BY <1>2, <1>4, <1>5 DEF Settled
  <2>2. Dropped(st, Removed(mid, v), v)
    BY <1>4 DEF Removed, Dropped
  <2> QED
    BY <1>3, <1>5, <2>1, <2>2
<1>6. CASE ~(o.deleting /\ fs = {})
  <2>1. Settled(mid, v) = mid
    BY <1>2, <1>4, <1>6 DEF Settled
  <2> QED
    BY <1>2, <1>3, <1>4, <2>1
<1> QED
  BY <1>5, <1>6

\* A Create adds the object and changes no other.
LEMMA PutStore ==
  ASSUME NEW st, st \in [DOMAIN st -> CVC!Objects], NEW v, v \notin DOMAIN st,
         NEW o \in CVC!Objects
  PROVE  LET new == Put(st, v, o)
         IN  /\ DOMAIN new = DOMAIN st \cup {v}
             /\ new \in [DOMAIN new -> CVC!Objects]
             /\ \A w \in DOMAIN st : new[w] = st[w]
             /\ new[v] = o
  BY DEF Put

\* Rounding up never loses a byte, and gives nothing for nothing only.
LEMMA RoundUpIs ==
  ASSUME NEW bytes \in Nat
  PROVE  /\ RoundUpGiB(bytes) \in Nat
         /\ bytes <= RoundUpGiB(bytes) * GiB
         /\ bytes > 0 => RoundUpGiB(bytes) > 0
<1> DEFINE q == bytes \div GiB
           m == bytes % GiB
<1>1. /\ GiB \in Nat /\ GiB > 0 /\ q \in Nat /\ m \in Nat
      /\ bytes = GiB * q + m /\ m < GiB
  BY GiBAssumption
<1>2. RoundUpGiB(bytes) = q + (IF m > 0 THEN 1 ELSE 0)
  BY DEF RoundUpGiB, roundUpSize
<1> HIDE DEF q, m
<1>3. CASE m = 0
  <2>1. RoundUpGiB(bytes) = q /\ bytes = q * GiB
    BY <1>1, <1>2, <1>3
  <2> QED
    BY <1>1, <2>1
<1>4. CASE m # 0
  <2>1. RoundUpGiB(bytes) = q + 1 /\ (q + 1) * GiB = GiB * q + GiB
    BY <1>1, <1>2, <1>4
  <2>2. bytes <= (q + 1) * GiB
    BY <1>1, <2>1
  <2> QED
    BY <1>1, <2>1, <2>2
<1> QED
  BY <1>3, <1>4

\* The annotations and labels that ProvisionVolume sets.
Annotations(r, through) ==
  {<<"volumeID", r.name>>, <<"policy", r.policy>>, <<"pvc", r.pvcName>>}
  \cup (IF through THEN {<<"created-through", "velero">>} ELSE {})

Labels(r) == {<<"cspc", r.cstorPoolCluster>>}
             \cup (IF r.source # <<>> THEN {<<"source", r.source[1]>>} ELSE {})

\* Build reports every refusal, so a CVC without an error is as the setters left it.
LEMMA CVCBuilt ==
  ASSUME NEW b, ~CVC!Build(b).errs
  PROVE  ~b.errs /\ CVC!Build(b) = b
<1>1. CASE b.errs
  <2>1. CVC!Build(b) = [obj |-> CVC!Zero, errs |-> TRUE]
    BY <1>1 DEF CVC!Build
  <2>2. [obj |-> CVC!Zero, errs |-> TRUE].errs = TRUE
    OBVIOUS
  <2> QED
    BY <2>1, <2>2, Zenon
<1>2. CASE ~b.errs
  BY <1>2 DEF CVC!Build
<1> QED
  BY <1>1, <1>2

\* The keys and values the driver sets are strings.
LEMMA KnownStrings ==
  /\ "volumeID" \in Strings /\ "policy" \in Strings /\ "pvc" \in Strings
  /\ "created-through" \in Strings /\ "velero" \in Strings
  /\ "cspc" \in Strings /\ "source" \in Strings /\ "vol" \in Strings
BY StringsAssumption

\* The object o is what ProvisionVolume builds for r.
Provisioned(r, node, through, o) ==
  /\ o \in CVC!Objects
  /\ o.name = "vol" /\ o.namespace = OpenEBSNamespace
  /\ o.annotations = Annotations(r, through) /\ o.labels = Labels(r)
  /\ o.finalizers = {"cvc"} /\ ~o.deleting
  /\ o.capacity = RoundUpGiB(r.size) /\ o.provisioned = RoundUpGiB(r.size)
  /\ r.replicaCount \in CVC!Numerals
  /\ o.replicaCount = CVC!Atoi(r.replicaCount)
  /\ o.source = r.source /\ o.nodeID = node
  /\ o.phase = "Pending" /\ o.status = 0

\* What the chain of setters in ProvisionVolume yields when none of them refuses:
\* every field is set, and set from the request.
LEMMA ProvisionBuilds ==
  ASSUME NEW r \in VolumeRequests, r.name # "", NEW node \in Nodes, NEW through,
         ~Provision(r, node, through).errs
  PROVE  Provisioned(r, node, through, Provision(r, node, through).obj)
<1> DEFINE size == RoundUpGiB(r.size)
           an == Annotations(r, through)
           la == Labels(r)
           rc == r.replicaCount
           e == <<>>
           b1 == CVC!WithNamespace(CVC!WithName(CVC!NewBuilder, r.name), OpenEBSNamespace)
           b2 == CVC!WithLabelsNew(CVC!WithAnnotations(b1, an), la)
           b3 == CVC!WithCapacityQty(CVC!WithFinalizers(b2, {"cvc"}), size)
           b4 == CVC!WithNodeID(CVC!WithSource(b3, r.source), node)
           b5 == CVC!WithProvisionCapacityQty(CVC!WithReplicaCount(b4, rc), size)
           b6 == CVC!WithStatusPhase(CVC!WithDependentsUpgraded(b5), "Pending")
           B == [obj : CVC!Objects, errs : BOOLEAN]
<1>1. Provision(r, node, through) = CVC!Build(b6)
  BY DEF Provision, Annotations, Labels
<1>2. /\ r.name = "vol" /\ r.source \in Seq(Strings) /\ size \in Nat
      /\ an \in SUBSET (Strings \X Strings) /\ an # {}
      /\ la \in SUBSET (Strings \X Strings) /\ la # {}
      /\ node # "" /\ node \in Strings /\ OpenEBSNamespace # ""
      /\ OpenEBSNamespace \in Strings /\ "vol" \in Strings
  <2>1. /\ r.name = "vol" /\ r.source \in Seq(Strings) /\ r.size \in Nat
        /\ r.policy \in Strings /\ r.pvcName \in Strings /\ r.cstorPoolCluster \in Strings
        /\ r.source # <<>> => r.source[1] \in Strings
    BY RequestsAssumption, StringsAssumption
  <2>2. an \in SUBSET (Strings \X Strings) /\ an # {}
    <3>1. \A a \in an : a \in Strings \X Strings
      BY <2>1, KnownStrings DEF Annotations
    <3>2. <<"volumeID", r.name>> \in an
      BY DEF Annotations
    <3> QED
      BY <3>1, <3>2
  <2>3. la \in SUBSET (Strings \X Strings) /\ la # {}
    <3>1. \A a \in la : a \in Strings \X Strings
      BY <2>1, KnownStrings DEF Labels
    <3>2. <<"cspc", r.cstorPoolCluster>> \in la
      BY DEF Labels
    <3> QED
      BY <3>1, <3>2
  <2>4. /\ node # "" /\ node \in Strings /\ OpenEBSNamespace # ""
        /\ OpenEBSNamespace \in Strings /\ "vol" \in Strings
    BY StringsAssumption, LifeAssumption
  <2>5. size \in Nat
    BY <2>1, RoundUpIs
  <2> HIDE DEF an, la, size
  <2> QED
    BY <2>1, <2>2, <2>3, <2>4, <2>5
<1> HIDE DEF size, an, la, rc
<1>3. b1 \in B /\ ~b1.errs /\ b1.obj.name = "vol"
      /\ b1.obj.namespace = OpenEBSNamespace /\ b1.obj.annotations = {}
      /\ b1.obj.finalizers = {} /\ ~b1.obj.deleting /\ b1.obj.status = 0
  <2>0. CVC!NewBuilder \in B
    BY ZeroCVC DEF CVC!NewBuilder
  <2>1. CVC!NewBuilder.obj.annotations = {} /\ CVC!NewBuilder.obj.finalizers = {}
        /\ ~CVC!NewBuilder.obj.deleting /\ CVC!NewBuilder.obj.status = 0
        /\ ~CVC!NewBuilder.errs
    <3>1. CVC!NewBuilder.obj = CVC!Zero /\ CVC!NewBuilder.errs = FALSE
      BY DEF CVC!NewBuilder
    <3>2. CVC!Zero.annotations = {} /\ CVC!Zero.finalizers = {}
      BY DEF CVC!Zero
    <3>3. CVC!Zero.deleting = FALSE /\ CVC!Zero.status = 0
      BY DEF CVC!Zero
    <3> QED
      BY <3>1, <3>2, <3>3
  <2> DEFINE b0 == CVC!WithName(CVC!NewBuilder, r.name)
  <2>2. b0 \in B /\ ~b0.errs /\ b0.obj.name = "vol" /\ b0.obj.annotations = {}
        /\ b0.obj.finalizers = {} /\ ~b0.obj.deleting /\ b0.obj.status = 0
    BY <1>2, <2>0, <2>1 DEF CVC!WithName, CVC!Objects
  <2> HIDE DEF b0
  <2>3. b1 = CVC!WithNamespace(b0, OpenEBSNamespace)
    BY DEF b0
  <2> HIDE DEF b1
  <2> QED
    BY <1>2, <2>2, <2>3 DEF CVC!WithNamespace, CVC!Objects
<1> HIDE DEF b1
<1>4. b2 \in B /\ ~b2.errs /\ b2.obj.name = "vol"
      /\ b2.obj.namespace = OpenEBSNamespace /\ b2.obj.annotations = an
      /\ b2.obj.labels = la
      /\ b2.obj.finalizers = {} /\ ~b2.obj.deleting /\ b2.obj.status = 0
  BY <1>2, <1>3 DEF CVC!WithLabelsNew, CVC!WithAnnotations, CVC!Merged, CVC!Objects
<1> HIDE DEF b2
<1>5. b3 \in B /\ ~b3.errs /\ b3.obj.name = "vol"
      /\ b3.obj.namespace = OpenEBSNamespace /\ b3.obj.annotations = an
      /\ b3.obj.labels = la /\ b3.obj.capacity = size
      /\ b3.obj.finalizers = {"cvc"} /\ ~b3.obj.deleting /\ b3.obj.status = 0
  BY <1>2, <1>4 DEF CVC!WithFinalizers, CVC!WithCapacityQty, CVC!Objects
<1> HIDE DEF b3
<1>6. b4 \in B /\ ~b4.errs /\ b4.obj.name = "vol"
      /\ b4.obj.namespace = OpenEBSNamespace /\ b4.obj.annotations = an
      /\ b4.obj.labels = la /\ b4.obj.capacity = size
      /\ b4.obj.source = r.source /\ b4.obj.nodeID = node
      /\ b4.obj.finalizers = {"cvc"} /\ ~b4.obj.deleting /\ b4.obj.status = 0
  BY <1>2, <1>5 DEF CVC!WithSource, CVC!WithNodeID, CVC!Objects
<1> HIDE DEF b4
<1>7. ~b6.errs /\ Provision(r, node, through) = b6
  <2> HIDE DEF b6
  <2> QED
    BY <1>1, CVCBuilt
<1>8. rc \in CVC!Numerals
  <2> SUFFICES ASSUME rc \notin CVC!Numerals PROVE FALSE
    OBVIOUS
  <2> DEFINE b == CVC!WithReplicaCount(b4, rc)
  <2>1. b \in B /\ b.errs
    BY <1>6 DEF CVC!WithReplicaCount, CVC!Refuse
  <2> HIDE DEF b
  <2>2. b5 \in B /\ b5.errs
    BY <1>2, <2>1 DEF CVC!WithProvisionCapacityQty, CVC!Objects, b
  <2> HIDE DEF b5
  <2>3. b6.errs
    BY <2>2 DEF CVC!WithStatusPhase, CVC!WithDependentsUpgraded, CVC!Objects
  <2> QED
    BY <1>7, <2>3
<1>9. CVC!Atoi(rc) \in Nat
  BY <1>8 DEF CVC!Numerals, CVC!Atoi
<1>10. b5 \in B /\ b5.obj.name = "vol"
      /\ b5.obj.namespace = OpenEBSNamespace /\ b5.obj.annotations = an
      /\ b5.obj.labels = la /\ b5.obj.capacity = size /\ b5.obj.provisioned = size
      /\ b5.obj.source = r.source /\ b5.obj.nodeID = node
      /\ b5.obj.replicaCount = CVC!Atoi(rc)
      /\ b5.obj.finalizers = {"cvc"} /\ ~b5.obj.deleting /\ b5.obj.status = 0
  BY <1>2, <1>6, <1>8, <1>9 DEF CVC!WithReplicaCount, CVC!WithProvisionCapacityQty, CVC!Objects
<1> HIDE DEF b5
<1>11. b6 \in B /\ b6.obj.name = "vol"
      /\ b6.obj.namespace = OpenEBSNamespace /\ b6.obj.annotations = an
      /\ b6.obj.labels = la /\ b6.obj.capacity = size /\ b6.obj.provisioned = size
      /\ b6.obj.source = r.source /\ b6.obj.nodeID = node
      /\ b6.obj.replicaCount = CVC!Atoi(rc) /\ b6.obj.phase = "Pending"
      /\ b6.obj.finalizers = {"cvc"} /\ ~b6.obj.deleting /\ b6.obj.status = 0
  BY <1>10 DEF CVC!WithStatusPhase, CVC!WithDependentsUpgraded, CVC!Objects
<1> HIDE DEF b6
<1> QED
  BY <1>7, <1>8, <1>11 DEF size, an, la, rc, Provisioned

\* The same of the builder of attachments.
LEMMA CVABuilt ==
  ASSUME NEW b, b \in [obj : CVA!Objects, errs : BOOLEAN]
  PROVE  /\ CVA!Build(b) \in [obj : CVA!Objects, errs : BOOLEAN]
         /\ CVA!Build(b).errs = b.errs
         /\ ~b.errs => CVA!Build(b) = b
<1>1. CASE b.errs
  <2>1. CVA!Build(b) = [obj |-> CVA!Zero, errs |-> TRUE] /\ b.errs = TRUE
    BY <1>1 DEF CVA!Build
  <2>2. [obj |-> CVA!Zero, errs |-> TRUE].errs = TRUE
    OBVIOUS
  <2>3. [obj |-> CVA!Zero, errs |-> TRUE] \in [obj : CVA!Objects, errs : BOOLEAN]
    BY ZeroCVA
  <2> QED
    BY <1>1, <2>1, <2>2, <2>3, Zenon
<1>2. CASE ~b.errs
  BY <1>2 DEF CVA!Build
<1> QED
  BY <1>1, <1>2

\* What prepareVolumeForNode builds, when no setter refuses, can be mounted.
LEMMA AttachmentBuilds ==
  ASSUME NEW access \in {"", "mount", "block"}, NEW fsType \in Strings
  PROVE  LET b == NewAttachment(access, fsType)
         IN  /\ b.obj \in CVA!Objects
             /\ ~b.errs => Mountable(b.obj)
<1> DEFINE B == [obj : CVA!Objects, errs : BOOLEAN]
           ls == {<<"nodeID", "node">>, <<"Volname", "vol">>}
           b1 == CVA!WithName(CVA!NewBuilder, "vol-node")
           b2 == CVA!WithLabels(b1, ls)
           b3 == CVA!WithVolName(b2, "vol")
           b4 == CVA!WithAccessType(b3, access)
           b5 == CVA!WithFSType(b4, fsType)
           b6 == CVA!WithReadOnly(b5, FALSE)
<1>1. NewAttachment(access, fsType) = CVA!Build(b6)
  BY DEF NewAttachment
<1>2. /\ "vol-node" \in Strings /\ "vol" \in Strings /\ access \in Strings
      /\ ls \in SUBSET (Strings \X Strings) /\ ls # {}
  <2>1. "nodeID" \in Strings /\ "node" \in Strings /\ "Volname" \in Strings
    BY StringsAssumption
  <2>2. "vol-node" \in Strings /\ "vol" \in Strings /\ access \in Strings
    BY StringsAssumption
  <2>3. \A x \in ls : x \in Strings \X Strings
    <3>1. \A a, b \in Strings : <<a, b>> \in Strings \X Strings
      OBVIOUS
    <3> QED
      BY <2>1, <2>2, <3>1
  <2>4. <<"Volname", "vol">> \in ls
    OBVIOUS
  <2> HIDE DEF ls
  <2> QED
    BY <2>2, <2>3, <2>4
<1> HIDE DEF ls
<1>3. CVA!NewBuilder \in B
  BY ZeroCVA DEF CVA!NewBuilder
<1>4. b1 \in B
  BY <1>2, <1>3 DEF CVA!WithName, CVA!Objects
<1> HIDE DEF b1
<1>5. b2 \in B
  <2> DEFINE l2 == {p \in b1.obj.labels : \A q \in ls : q[1] # p[1]} \cup ls
  <2>1. l2 \in SUBSET (Strings \X Strings)
    BY <1>2, <1>4 DEF CVA!Objects
  <2>2. b2 = [b1 EXCEPT !.obj.labels = l2]
    BY <1>2, <1>4 DEF CVA!WithLabels, CVA!Objects
  <2> HIDE DEF l2, b2
  <2> QED
    BY <1>4, <2>1, <2>2 DEF CVA!Objects
<1> HIDE DEF b2
<1>6. b3 \in B /\ b3.obj.volName = "vol"
  BY <1>2, <1>5 DEF CVA!WithVolName, CVA!Objects
<1> HIDE DEF b3
<1>7. /\ b4 \in B /\ b4.obj.volName = "vol"
      /\ ~b4.errs => b4.obj.accessType = access /\ access # ""
  BY <1>2, <1>6 DEF CVA!WithAccessType, CVA!Refuse, CVA!Objects
<1> HIDE DEF b4
<1>8. /\ b5 \in B /\ b5.obj.volName = "vol"
      /\ ~b5.errs => /\ b5.obj.accessType = access /\ access # ""
                     /\ access = "mount" => b5.obj.fsType # ""
  BY <1>2, <1>7 DEF CVA!WithFSType, CVA!Refuse, CVA!Objects
<1> HIDE DEF b5
<1>9. /\ b6 \in B /\ b6.obj.volName = "vol"
      /\ ~b6.errs => /\ b6.obj.accessType = access /\ access # ""
                     /\ access = "mount" => b6.obj.fsType # ""
  BY <1>8 DEF CVA!WithReadOnly, CVA!Objects
<1> HIDE DEF b6
<1>10. ~b6.errs => Mountable(b6.obj)
  BY <1>9 DEF Mountable
<1> QED
  BY <1>1, <1>9, <1>10, CVABuilt

\* FetchAndUpdateISCSIDetails completes the attachment and spoils none of it.
LEMMA DetailsBuild ==
  ASSUME NEW vol \in CVA!Objects
  PROVE  LET b == FetchAndUpdateISCSIDetails(vol)
         IN  /\ b.obj \in CVA!Objects /\ ~b.errs
             /\ Connectable(b.obj)
             /\ Mountable(vol) => Mountable(b.obj)
<1> DEFINE B == [obj : CVA!Objects, errs : BOOLEAN]
           Same(o) == /\ o.volName = vol.volName /\ o.accessType = vol.accessType
                      /\ o.fsType = vol.fsType
           b0 == CVA!BuildFrom(FALSE, vol)
           b1 == CVA!WithIQN(b0, "iqn.vol")
           b2 == CVA!WithTargetPortal(b1, "ip:3260")
           b3 == CVA!WithLun(b2, "0")
           b4 == CVA!WithIscsiInterface(b3, "default")
<1>1. FetchAndUpdateISCSIDetails(vol) = CVA!Build(b4)
  BY DEF FetchAndUpdateISCSIDetails, Target
<1>2. /\ "iqn.vol" \in Strings /\ "ip:3260" \in Strings /\ "0" \in Strings
      /\ "default" \in Strings
  BY StringsAssumption
<1>3. b0 \in B /\ ~b0.errs /\ Same(b0.obj)
  BY DEF CVA!BuildFrom
<1> HIDE DEF b0
<1>4. b1 \in B /\ ~b1.errs /\ Same(b1.obj) /\ b1.obj.iqn = "iqn.vol"
  BY <1>2, <1>3 DEF CVA!WithIQN, CVA!Objects
<1> HIDE DEF b1
<1>5. /\ b2 \in B /\ ~b2.errs /\ Same(b2.obj) /\ b2.obj.iqn = "iqn.vol"
      /\ b2.obj.targetPortal = "ip:3260"
  BY <1>2, <1>4 DEF CVA!WithTargetPortal, CVA!Objects
<1> HIDE DEF b2
<1>6. /\ b3 \in B /\ ~b3.errs /\ Same(b3.obj) /\ b3.obj.iqn = "iqn.vol"
      /\ b3.obj.targetPortal = "ip:3260" /\ b3.obj.lun = "0"
  BY <1>2, <1>5 DEF CVA!WithLun, CVA!Objects
<1> HIDE DEF b3
<1>7. /\ b4 \in B /\ ~b4.errs /\ Same(b4.obj) /\ b4.obj.iqn = "iqn.vol"
      /\ b4.obj.targetPortal = "ip:3260" /\ b4.obj.lun = "0"
      /\ b4.obj.iscsiInterface = "default"
  BY <1>2, <1>6 DEF CVA!WithIscsiInterface, CVA!Objects
<1> HIDE DEF b4
<1>8. CVA!Build(b4) = b4
  BY <1>7, CVABuilt
<1> QED
  BY <1>1, <1>7, <1>8 DEF Mountable, Connectable, Target

\* Where a failed call leads, location by location.
LEMMA OnErrorIs ==
  ASSUME NEW isNil \in BOOLEAN
  PROVE  /\ OnError("create_source", isNil) = IF isNil THEN "create_err" ELSE "create_get"
         /\ OnError("create_get", isNil) = AfterGet
         /\ \A l \in {"create_node", "create_pvc", "create_post"} :
              OnError(l, isNil) = "create_err"
         /\ OnError("delete_get", isNil) = "delete_del"
         /\ OnError("delete_del", isNil) = "delete_err"
         /\ \A l \in {"expand_get", "expand_patch", "expand_verify"} :
              OnError(l, isNil) = "expand_err"
         /\ \A l \in {"snap_get", "snap_run"} : OnError(l, isNil) = "snap_err"
         /\ \A l \in {"unsnap_get", "unsnap_run"} : OnError(l, isNil) = "unsnap_err"
         /\ \A l \in {"stage_bound", "stage_details", "stage_create"} :
              OnError(l, isNil) = "stage_err"
  BY DEF OnError

\* The locations from which the API server is called.
LEMMA APICalls ==
  DOMAIN APICall = {"create_node", "create_source", "create_get", "create_pvc",
                    "create_post", "delete_get", "delete_del", "expand_get",
                    "expand_patch", "expand_verify", "snap_get", "unsnap_get",
                    "stage_bound", "stage_details", "stage_create"}
  BY DEF APICall

\* The client refuses a Get without a name, so the check of a source that reaches
\* the API server has a name to look for.
LEMMA SourceNamed ==
  ASSUME NEW p, Reaches(p, "create_source")
  PROVE  SourceVolume # ""
<1>1. APICall["create_source"] = <<CVCClient, "Get">>
  BY DEF APICall
<1>2. CVCClient.ops["Get"]
  <2>1. CVCClient.ops = CVCOps
    BY DEF CVCClient, WithNamespace, NewKubeclient
  <2>2. CVCOps["Get"]
    BY DEF CVCOps
  <2> QED
    BY <2>1, <2>2
<1>3. APICall["create_source"][1] = CVCClient /\ APICall["create_source"][2] = "Get"
  BY <1>1
<1>4. Sent(CVCClient, "Get", Argument(p), readable) /\ pc[p] = "create_source"
  BY <1>3 DEF Reaches
<1>5. Argument(p) # ""
  BY <1>2, <1>4 DEF Sent
<1> QED
  BY <1>4, <1>5 DEF Argument

-----------------------------------------------------------------------------
(* Control *)

\* The two locations are of handlers of the same kind.
SameKind(l, m) == \/ l \in Creating /\ m \in Creating
                  \/ l \in Deleting /\ m \in Deleting
                  \/ l \in Expanding /\ m \in Expanding
                  \/ l \in Snapping /\ m \in Snapping
                  \/ l \in Unsnapping /\ m \in Unsnapping
                  \/ l \in Staging /\ m \in Staging

\* Only goroutine p moves, within its handler.
Goes(p) == /\ pc[p] \notin Ends
           /\ pc' \in [Procs -> Locations] /\ arg' \in [Procs -> Args]
           /\ \A q \in Procs \ {p} : pc'[q] = pc[q] /\ arg'[q] = arg[q]
           /\ SameKind(pc[p], pc'[p]) /\ arg'[p].about = arg[p].about
           /\ UNCHANGED waiting

\* What no handler changes.
Aside == /\ UNCHANGED <<req, co, readable>>
         /\ faults' \in 0..MaxFaults

\* The faults stay in their bound.
LEMMA FaultCounted ==
  ASSUME TypeOK
  PROVE  /\ \A k : Fault(k) => faults' \in 0..MaxFaults
         /\ UNCHANGED faults => faults' \in 0..MaxFaults
<1>1. faults \in 0..MaxFaults /\ MaxFaults \in Nat
  BY LifeAssumption DEF TypeOK
<1> QED
  BY <1>1 DEF Fault

\* Moving on within the handler.
LEMMA GotoGoes ==
  ASSUME TypeOK, NEW p \in Procs, NEW l, Goto(p, l), pc[p] \notin Ends,
         SameKind(pc[p], l), UNCHANGED <<arg, waiting>>
  PROVE  Goes(p)
<1>1. l \in Locations
  BY DEF SameKind, Locations
<1>2. arg' \in [Procs -> Args] /\ arg' = arg
  BY DEF TypeOK
<1>3. pc' \in [Procs -> Locations] /\ pc'[p] = l /\ \A q \in Procs \ {p} : pc'[q] = pc[q]
  BY <1>1 DEF TypeOK, Goto
<1> QED
  BY <1>2, <1>3 DEF Goes

\* Moving on within the handler with something to remember.
LEMMA WriteGoes ==
  ASSUME TypeOK, NEW p \in Procs, NEW l, Goto(p, l), pc[p] \notin Ends,
         SameKind(pc[p], l), NEW a \in Args, a.about = arg[p].about,
         arg' = [arg EXCEPT ![p] = a], UNCHANGED waiting
  PROVE  Goes(p)
<1>1. l \in Locations
  BY DEF SameKind, Locations
<1>2. arg' \in [Procs -> Args] /\ arg'[p] = a /\ \A q \in Procs \ {p} : arg'[q] = arg[q]
  BY DEF TypeOK
<1>3. pc' \in [Procs -> Locations] /\ pc'[p] = l /\ \A q \in Procs \ {p} : pc'[q] = pc[q]
  BY <1>1 DEF TypeOK, Goto
<1> QED
  BY <1>2, <1>3 DEF Goes

\* An error leads to a location of the same handler.
LEMMA OnErrorSameKind ==
  ASSUME NEW l \in DOMAIN APICall \cup TargetCalls, NEW isNil \in BOOLEAN
  PROVE  SameKind(l, OnError(l, isNil)) /\ l \notin Ends
<1>1. AfterGet \in Creating
  BY DEF AfterGet, Creating
<1>2. CASE l \in {"create_source", "create_get", "create_node", "create_pvc", "create_post"}
  BY <1>1, <1>2, OnErrorIs DEF SameKind, Creating, Ends
<1>3. CASE l \in {"delete_get", "delete_del"}
  BY <1>3, OnErrorIs DEF SameKind, Deleting, Ends
<1>4. CASE l \in {"expand_get", "expand_patch", "expand_verify"}
  BY <1>4, OnErrorIs DEF SameKind, Expanding, Ends
<1>5. CASE l \in {"snap_get", "snap_run", "unsnap_get", "unsnap_run"}
  BY <1>5, OnErrorIs DEF SameKind, Snapping, Unsnapping, Ends
<1>6. CASE l \in {"stage_bound", "stage_details", "stage_create"}
  BY <1>6, OnErrorIs DEF SameKind, Staging, Ends
<1> QED
  BY <1>2, <1>3, <1>4, <1>5, <1>6, APICalls DEF TargetCalls

\* So does a write, whether its reply arrives or not.
LEMMA ReplyGoes ==
  ASSUME TypeOK, NEW p \in Procs, NEW l, Reply(p, l), SameKind(pc[p], l),
         pc[p] \in DOMAIN APICall \cup TargetCalls, UNCHANGED <<arg, waiting>>
  PROVE  Goes(p) /\ faults' \in 0..MaxFaults
<1>1. CASE Goto(p, l) /\ UNCHANGED faults
  BY <1>1, GotoGoes, FaultCounted, OnErrorSameKind
<1>2. CASE Goto(p, OnError(pc[p], FALSE)) /\ Fault("lost")
  BY <1>2, GotoGoes, FaultCounted, OnErrorSameKind
<1> QED
  BY <1>1, <1>2 DEF Reply

\* The steps of CreateVolume, but for the panic.
LEMMA CreateGoes ==
  ASSUME TypeOK, HandlerInv, NEW p \in Procs,
         \/ CreateStart(p) \/ CreateNode(p) \/ CreateSource(p) \/ CreateGet(p)
         \/ CreatePVC(p) \/ CreatePost(p)
  PROVE  Goes(p) /\ Aside
<1>0. AfterGet \in Creating
  BY DEF AfterGet, Creating
<1>a. arg[p] \in Args
  BY DEF TypeOK
<1>1. CASE CreateStart(p)
  <2>1. SameKind(pc[p], IF validateVolumeCreateReq(req) /\ req.topology
                          THEN "create_node" ELSE "create_err") /\ pc[p] \notin Ends
    BY <1>1 DEF CreateStart, SameKind, Creating, Ends
  <2> QED
    BY <1>1, <2>1, GotoGoes, FaultCounted DEF CreateStart, Aside
<1>2. CASE CreateNode(p)
  <2>1. PICK n \in getNode(req.preferred) :
          /\ arg' = [arg EXCEPT ![p].node = n]
          /\ Goto(p, IF n = "" \/ req.source = <<"">> THEN "create_err"
                     ELSE IF req.source = <<>> THEN "create_get"
                     ELSE "create_source")
    BY <1>2 DEF CreateNode
  <2>2. pc[p] = "create_node" /\ UNCHANGED <<req, store, co, waiting, readable, faults>>
    BY <1>2 DEF CreateNode, Reaches
  <2>3. n \in Strings
    BY StringsAssumption DEF getNode
  <2> DEFINE a == [arg[p] EXCEPT !.node = n]
             l == IF n = "" \/ req.source = <<"">> THEN "create_err"
                  ELSE IF req.source = <<>> THEN "create_get" ELSE "create_source"
  <2>4. a \in Args /\ a.about = arg[p].about
    BY <1>a, <2>3 DEF Args
  <2>5. arg' = [arg EXCEPT ![p] = a] /\ Goto(p, l)
    BY <2>1
  <2>6. SameKind(pc[p], l) /\ pc[p] \notin Ends
    BY <2>2 DEF SameKind, Creating, Ends
  <2> HIDE DEF a, l
  <2> QED
    BY <2>2, <2>4, <2>5, <2>6, WriteGoes, FaultCounted DEF Aside
<1>3. CASE CreateSource(p)
  <2>1. SameKind(pc[p], "create_get") /\ pc[p] \notin Ends
    BY <1>3 DEF CreateSource, Reaches, SameKind, Creating, Ends
  <2> QED
    BY <1>3, <2>1, GotoGoes, FaultCounted DEF CreateSource, Aside
<1>4. CASE CreateGet(p)
  <2>1. SameKind(pc[p], IF Found(cvc, "vol") /\ ~cvc["vol"].deleting
                          THEN "create_ok" ELSE AfterGet) /\ pc[p] \notin Ends
    BY <1>0, <1>4 DEF CreateGet, Reaches, SameKind, Creating, Ends
  <2> QED
    BY <1>4, <2>1, GotoGoes, FaultCounted DEF CreateGet, Aside
<1>5. CASE CreatePVC(p)
  <2> DEFINE t == "vol" \in co.want /\ req.through
             a == [arg[p] EXCEPT !.through = t]
             l == IF "vol" \in co.want THEN "create_post" ELSE "create_err"
  <2>1. t \in BOOLEAN
    OBVIOUS
  <2>2. arg' = [arg EXCEPT ![p] = a] /\ Goto(p, l)
    BY <1>5 DEF CreatePVC
  <2>3. pc[p] = "create_pvc" /\ UNCHANGED <<req, store, co, waiting, readable, faults>>
    BY <1>5 DEF CreatePVC, Reaches
  <2>4. SameKind(pc[p], l) /\ pc[p] \notin Ends
    BY <2>3 DEF SameKind, Creating, Ends
  <2> HIDE DEF t
  <2>5. a \in Args /\ a.about = arg[p].about
    BY <1>a, <2>1 DEF Args
  <2> HIDE DEF a, l
  <2> QED
    BY <2>2, <2>3, <2>4, <2>5, WriteGoes, FaultCounted DEF Aside
<1>6. CASE CreatePost(p)
  <2>1. /\ pc[p] = "create_post" /\ UNCHANGED <<arg, req, co, waiting, readable>>
        /\ \/ Goto(p, "create_err") /\ UNCHANGED faults
           \/ Reply(p, "create_ok")
    BY <1>6 DEF CreatePost, Reaches
  <2>2. /\ SameKind(pc[p], "create_err") /\ SameKind(pc[p], "create_ok")
        /\ pc[p] \notin Ends /\ pc[p] \in DOMAIN APICall
    BY <2>1, APICalls DEF SameKind, Creating, Ends
  <2> QED
    BY <2>1, <2>2, GotoGoes, ReplyGoes, FaultCounted DEF Aside
<1> QED
  BY <1>1, <1>2, <1>3, <1>4, <1>5, <1>6

\* A restart of the controller leaves the node plugin alone.
LEMMA RestartedTyped ==
  ASSUME TypeOK, Restarted
  PROVE  /\ pc' \in [Procs -> Locations] /\ arg' \in [Procs -> Args]
         /\ \A q \in Requests : pc'[q] = "idle" /\ arg'[q] = NoArg
         /\ pc'["node"] = pc["node"] /\ arg'["node"] = arg["node"]
         /\ waiting' = {}
<1>1. "idle" \in Locations /\ NoArg \in Args
  BY NoArgs DEF Locations
<1>2. pc \in [Procs -> Locations] /\ arg \in [Procs -> Args]
  BY DEF TypeOK
<1>3. Requests \subseteq Procs /\ "node" \in Procs /\ "node" \notin Requests
  BY LifeAssumption DEF Procs
<1> QED
  BY <1>1, <1>2, <1>3 DEF Restarted

\* The steps of the other handlers of the controller: they move on, or the
\* process is replaced.
LEMMA ControlGoes ==
  ASSUME TypeOK, HandlerInv, NEW p \in Procs,
         \/ CreateSourcePanic(p) \/ DeleteGet(p) \/ DeleteDel(p)
         \/ ExpandGet(p) \/ ExpandPatch(p) \/ ExpandVerify(p)
         \/ SnapGet(p) \/ SnapRun(p) \/ UnsnapGet(p) \/ UnsnapRun(p)
         \/ TargetGone(p) \/ CallUnsent(p) \/ CallFails(p)
  PROVE  (Goes(p) \/ Restarted) /\ Aside
<1>a. arg[p] \in Args
  BY DEF TypeOK
<1>1. CASE CreateSourcePanic(p)
  BY <1>1, FaultCounted DEF CreateSourcePanic, Aside
<1>2. CASE DeleteGet(p)
  <2> DEFINE l == IF Found(cvc, arg[p].about) /\ cvc[arg[p].about].deleting
                    THEN "delete_ok" ELSE "delete_del"
  <2>1. Goto(p, l) /\ UNCHANGED <<req, store, arg, co, waiting, readable, faults>>
    BY <1>2 DEF DeleteGet
  <2>2. SameKind(pc[p], l) /\ pc[p] \notin Ends
    BY <1>2 DEF DeleteGet, Reaches, SameKind, Deleting, Ends
  <2> HIDE DEF l
  <2> QED
    BY <2>1, <2>2, GotoGoes, FaultCounted DEF Aside
<1>3. CASE DeleteDel(p)
  <2>1. /\ UNCHANGED <<req, cv, snaps, cva, co, readable>>
        /\ \/ Restarted /\ UNCHANGED faults
           \/ Goto(p, "delete_ok") /\ UNCHANGED <<arg, waiting, faults>>
           \/ Fault("lost") /\ Goto(p, "delete_err") /\ UNCHANGED <<arg, waiting>>
    BY <1>3 DEF DeleteDel
  <2>2. SameKind(pc[p], "delete_ok") /\ SameKind(pc[p], "delete_err") /\ pc[p] \notin Ends
    BY <1>3 DEF DeleteDel, Reaches, SameKind, Deleting, Ends
  <2> QED
    BY <2>1, <2>2, GotoGoes, FaultCounted DEF Aside
<1>4. CASE ExpandGet(p)
  <2>1. pc[p] = "expand_get" /\ UNCHANGED <<req, store, co, waiting, readable, faults>>
    BY <1>4 DEF ExpandGet, Reaches
  <2>2. \A l \in {"expand_err", "expand_patch", "expand_ok"} : SameKind(pc[p], l)
    BY <2>1 DEF SameKind, Expanding
  <2>3. pc[p] \notin Ends
    BY <2>1 DEF Ends
  <2>4. CASE ~Found(cvc, "vol")
    <3>1. Goto(p, "expand_err") /\ UNCHANGED arg
      BY <1>4, <2>4 DEF ExpandGet
    <3> QED
      BY <3>1, <2>1, <2>2, <2>3, GotoGoes, FaultCounted DEF Aside
  <2>5. CASE Found(cvc, "vol")
    <3> DEFINE o == cvc["vol"]
               a == [arg[p] EXCEPT !.held = o]
               l == IF Desired < o.capacity THEN "expand_err"
                    ELSE IF o.phase = "Pending" THEN "expand_patch"
                    ELSE IF o.capacity > o.status THEN "expand_err"
                    ELSE IF Desired = o.status THEN "expand_ok"
                    ELSE "expand_patch"
    <3>1. Goto(p, l) /\ arg' = [arg EXCEPT ![p] = a]
      BY <1>4, <2>5 DEF ExpandGet
    <3>2. o \in CVC!Objects
      BY <2>5 DEF Found, TypeOK
    <3>3. l \in {"expand_err", "expand_patch", "expand_ok"}
      OBVIOUS
    <3> HIDE DEF o, l
    <3>4. a \in Args /\ a.about = arg[p].about
      BY <1>a, <3>2 DEF Args
    <3> HIDE DEF a
    <3> QED
      BY <3>1, <3>3, <3>4, <2>1, <2>2, <2>3, WriteGoes, FaultCounted DEF Aside
  <2> QED
    BY <2>4, <2>5
<1>5. CASE ExpandPatch(p)
  <2>1. /\ pc[p] = "expand_patch" /\ UNCHANGED <<arg, req, co, waiting, readable>>
        /\ \/ Goto(p, "expand_err") /\ UNCHANGED faults
           \/ Reply(p, "expand_ok")
           \/ Reply(p, "expand_verify")
    BY <1>5 DEF ExpandPatch, Reaches
  <2>2. /\ SameKind(pc[p], "expand_err") /\ SameKind(pc[p], "expand_ok")
        /\ SameKind(pc[p], "expand_verify")
        /\ pc[p] \notin Ends /\ pc[p] \in DOMAIN APICall
    BY <2>1, APICalls DEF SameKind, Expanding, Ends
  <2> QED
    BY <2>1, <2>2, GotoGoes, ReplyGoes, FaultCounted DEF Aside
<1>6. CASE ExpandVerify(p)
  <2>1. /\ Goto(p, "expand_ok") \/ Goto(p, "expand_err")
        /\ UNCHANGED <<req, store, arg, co, waiting, readable, faults>>
    BY <1>6 DEF ExpandVerify
  <2>2. SameKind(pc[p], "expand_ok") /\ SameKind(pc[p], "expand_err") /\ pc[p] \notin Ends
    BY <1>6 DEF ExpandVerify, Reaches, SameKind, Expanding, Ends
  <2> QED
    BY <2>1, <2>2, GotoGoes, FaultCounted DEF Aside
<1>7. CASE SnapGet(p)
  <2>1. /\ Goto(p, "snap_run") \/ Goto(p, "snap_err")
        /\ UNCHANGED <<req, store, arg, co, waiting, readable, faults>>
    BY <1>7 DEF SnapGet
  <2>2. SameKind(pc[p], "snap_run") /\ SameKind(pc[p], "snap_err") /\ pc[p] \notin Ends
    BY <1>7 DEF SnapGet, Reaches, SameKind, Snapping, Ends
  <2> QED
    BY <2>1, <2>2, GotoGoes, FaultCounted DEF Aside
<1>8. CASE SnapRun(p)
  <2>1. /\ Reply(p, "snap_ok") \/ (Goto(p, "snap_err") /\ Fault("error"))
        /\ UNCHANGED <<req, cvc, cv, cva, arg, co, waiting, readable>>
    BY <1>8 DEF SnapRun
  <2>2. /\ SameKind(pc[p], "snap_ok") /\ SameKind(pc[p], "snap_err") /\ pc[p] \notin Ends
        /\ pc[p] \in TargetCalls
    BY <1>8 DEF SnapRun, SameKind, Snapping, Ends, TargetCalls
  <2> QED
    BY <2>1, <2>2, GotoGoes, ReplyGoes, FaultCounted DEF Aside
<1>9. CASE UnsnapGet(p)
  <2>1. /\ Goto(p, "unsnap_run") \/ Goto(p, "unsnap_err")
        /\ UNCHANGED <<req, store, arg, co, waiting, readable, faults>>
    BY <1>9 DEF UnsnapGet
  <2>2. SameKind(pc[p], "unsnap_run") /\ SameKind(pc[p], "unsnap_err") /\ pc[p] \notin Ends
    BY <1>9 DEF UnsnapGet, Reaches, SameKind, Unsnapping, Ends
  <2> QED
    BY <2>1, <2>2, GotoGoes, FaultCounted DEF Aside
<1>10. CASE UnsnapRun(p)
  <2>1. /\ Reply(p, "unsnap_ok") \/ (Goto(p, "unsnap_err") /\ Fault("error"))
        /\ UNCHANGED <<req, cvc, cv, cva, arg, co, waiting, readable>>
    BY <1>10 DEF UnsnapRun
  <2>2. /\ SameKind(pc[p], "unsnap_ok") /\ SameKind(pc[p], "unsnap_err")
        /\ pc[p] \notin Ends /\ pc[p] \in TargetCalls
    BY <1>10 DEF UnsnapRun, SameKind, Unsnapping, Ends, TargetCalls
  <2> QED
    BY <2>1, <2>2, GotoGoes, ReplyGoes, FaultCounted DEF Aside
<1>11. CASE TargetGone(p)
  BY <1>11, OnErrorSameKind, GotoGoes, FaultCounted DEF TargetGone, Aside
<1>12. CASE CallUnsent(p)
  <2> DEFINE a == [arg[p] EXCEPT !.isNil = TRUE]
  <2>1. /\ pc[p] \in DOMAIN APICall /\ Goto(p, OnError(pc[p], TRUE))
        /\ arg' = [arg EXCEPT ![p] = a]
        /\ UNCHANGED <<req, store, co, waiting, readable, faults>>
    BY <1>12 DEF CallUnsent
  <2>2. a \in Args /\ a.about = arg[p].about
    BY <1>a DEF Args
  <2> HIDE DEF a
  <2> QED
    BY <2>1, <2>2, OnErrorSameKind, WriteGoes, FaultCounted DEF Aside
<1>13. CASE CallFails(p)
  BY <1>13, OnErrorSameKind, GotoGoes, FaultCounted DEF CallFails, Aside
<1> QED
  BY <1>1, <1>2, <1>3, <1>4, <1>5, <1>6, <1>7, <1>8, <1>9, <1>10, <1>11, <1>12, <1>13

\* The steps of NodeStageVolume.
LEMMA StageGoes ==
  ASSUME TypeOK, HandlerInv, NEW p \in Procs,
         StageStart(p) \/ StageBound(p) \/ StageDetails(p) \/ StageCreate(p)
  PROVE  Goes(p) /\ Aside
<1>a. arg[p] \in Args
  BY DEF TypeOK
<1>1. CASE StageStart(p)
  <2> DEFINE b == NewAttachment(req.access, req.fsType)
             a == [arg[p] EXCEPT !.vol = b.obj]
             l == IF b.errs THEN "stage_err" ELSE "stage_bound"
  <2>1. /\ pc[p] = "stage_start" /\ Goto(p, l) /\ arg' = [arg EXCEPT ![p] = a]
        /\ UNCHANGED <<req, store, co, waiting, readable, faults>>
    BY <1>1 DEF StageStart
  <2>2. SameKind(pc[p], l) /\ pc[p] \notin Ends
    BY <2>1 DEF SameKind, Staging, Ends
  <2>3. b.obj \in CVA!Objects
    <3>1. req.access \in {"", "mount", "block"} /\ req.fsType \in Strings
      BY RequestsAssumption DEF TypeOK
    <3> QED
      BY <3>1, AttachmentBuilds
  <2> HIDE DEF b, l
  <2>4. a \in Args /\ a.about = arg[p].about
    BY <1>a, <2>3 DEF Args
  <2> HIDE DEF a
  <2> QED
    BY <2>1, <2>2, <2>4, WriteGoes, FaultCounted DEF Aside
<1>2. CASE StageBound(p)
  <2>1. /\ Goto(p, "stage_details") \/ Goto(p, "stage_err")
        /\ UNCHANGED <<req, store, arg, co, waiting, readable, faults>>
    BY <1>2 DEF StageBound
  <2>2. SameKind(pc[p], "stage_details") /\ SameKind(pc[p], "stage_err") /\ pc[p] \notin Ends
    BY <1>2 DEF StageBound, Reaches, SameKind, Staging, Ends
  <2> QED
    BY <2>1, <2>2, GotoGoes, FaultCounted DEF Aside
<1>3. CASE StageDetails(p)
  <2> DEFINE b == FetchAndUpdateISCSIDetails(arg[p].vol)
             a == [arg[p] EXCEPT !.vol = b.obj]
  <2>1. /\ pc[p] = "stage_details" /\ UNCHANGED <<req, store, co, waiting, readable, faults>>
        /\ \/ Goto(p, "stage_create") /\ arg' = [arg EXCEPT ![p] = a]
           \/ Goto(p, "stage_err") /\ UNCHANGED arg
    BY <1>3 DEF StageDetails, Reaches
  <2>2. SameKind(pc[p], "stage_create") /\ SameKind(pc[p], "stage_err") /\ pc[p] \notin Ends
    BY <2>1 DEF SameKind, Staging, Ends
  <2>3. b.obj \in CVA!Objects
    BY <1>a, DetailsBuild DEF Args
  <2> HIDE DEF b
  <2>4. a \in Args /\ a.about = arg[p].about
    BY <1>a, <2>3 DEF Args
  <2> HIDE DEF a
  <2> QED
    BY <2>1, <2>2, <2>4, WriteGoes, GotoGoes, FaultCounted DEF Aside
<1>4. CASE StageCreate(p)
  <2>1. /\ pc[p] = "stage_create" /\ UNCHANGED <<arg, req, co, waiting, readable>>
        /\ \/ Goto(p, "stage_err") /\ UNCHANGED faults
           \/ Reply(p, "stage_ok")
    BY <1>4 DEF StageCreate, Reaches
  <2>2. /\ SameKind(pc[p], "stage_err") /\ SameKind(pc[p], "stage_ok")
        /\ pc[p] \notin Ends /\ pc[p] \in DOMAIN APICall
    BY <2>1, APICalls DEF SameKind, Staging, Ends
  <2> QED
    BY <2>1, <2>2, GotoGoes, ReplyGoes, FaultCounted DEF Aside
<1> QED
  BY <1>1, <1>2, <1>3, <1>4

\* Every step of a handler moves it on or ends the process.
LEMMA HandlerGoes ==
  ASSUME TypeOK, HandlerInv, NEW p \in Procs, Handler(p) \/ CallFails(p)
  PROVE  (Goes(p) \/ Restarted) /\ Aside
  BY CreateGoes, ControlGoes, StageGoes DEF Handler

\* The kinds of handlers have no location in common.
LEMMA KindsDiffer ==
  ASSUME NEW l, NEW m, SameKind(l, m)
  PROVE  /\ l # "idle" /\ m # "idle"
         /\ (l \in Creating) = (m \in Creating) /\ (l \in Deleting) = (m \in Deleting)
         /\ (l \in Expanding) = (m \in Expanding) /\ (l \in Snapping) = (m \in Snapping)
         /\ (l \in Unsnapping) = (m \in Unsnapping) /\ (l \in Staging) = (m \in Staging)
  BY DEF SameKind, Creating, Deleting, Expanding, Snapping, Unsnapping, Staging

\* A handler that moves on keeps HandlerInv.
LEMMA GoesKeepsHandler ==
  ASSUME TypeOK, HandlerInv, NEW p \in Procs, Goes(p)
  PROVE  HandlerInv'
<1>1. \A q \in Procs : \/ pc'[q] = pc[q] /\ arg'[q] = arg[q]
                       \/ SameKind(pc[q], pc'[q]) /\ arg'[q].about = arg[q].about
  BY DEF Goes
<1>2. waiting' = waiting /\ waiting \subseteq Procs
  BY DEF Goes, TypeOK, Procs
<1>3. ASSUME NEW q \in Procs
      PROVE  /\ pc'[q] = "idle" => arg'[q] = NoArg
             /\ pc'[q] \in Creating \cup Expanding => arg'[q].about = "vol"
             /\ pc'[q] \in Deleting => arg'[q].about \in Volumes
             /\ pc'[q] \in Snapping \cup Unsnapping => arg'[q].about = "snap"
             /\ IF q = "node" THEN pc'[q] \in {"idle"} \cup Staging ELSE pc'[q] \notin Staging
  <2>1. CASE pc'[q] = pc[q] /\ arg'[q] = arg[q]
    BY <2>1 DEF HandlerInv
  <2>2. CASE SameKind(pc[q], pc'[q]) /\ arg'[q].about = arg[q].about
    BY <2>2, KindsDiffer DEF HandlerInv
  <2> QED
    BY <1>1, <2>1, <2>2
<1>4. \A q \in waiting' : pc'[q] # "idle"
  BY <1>1, <1>2, KindsDiffer DEF HandlerInv
<1>5. \A q, r \in waiting' : arg'[q].about = arg'[r].about => q = r
  BY <1>1, <1>2 DEF HandlerInv
<1> QED
  BY <1>3, <1>4, <1>5 DEF HandlerInv

\* So does a restart.
LEMMA RestartedKeepsHandler ==
  ASSUME TypeOK, HandlerInv, Restarted
  PROVE  HandlerInv'
<1>1. /\ \A q \in Requests : pc'[q] = "idle" /\ arg'[q] = NoArg
      /\ pc'["node"] = pc["node"] /\ arg'["node"] = arg["node"]
      /\ waiting' = {}
  BY RestartedTyped
<1>2. "node" \in Procs /\ \A q \in Procs : q \in Requests \/ q = "node"
  BY DEF Procs
<1>3. \A q \in Requests : q # "node"
  BY LifeAssumption
<1>4. "idle" \notin Creating \cup Expanding \cup Deleting \cup Snapping \cup Unsnapping \cup Staging
  BY DEF Creating, Deleting, Expanding, Snapping, Unsnapping, Staging
<1>5. /\ pc["node"] = "idle" => arg["node"] = NoArg
      /\ pc["node"] \in {"idle"} \cup Staging
  BY <1>2 DEF HandlerInv
<1>6. \A l \in Staging : l \notin Creating \cup Expanding \cup Deleting \cup Snapping \cup Unsnapping
  BY DEF Creating, Deleting, Expanding, Snapping, Unsnapping, Staging
<1> QED
  BY <1>1, <1>2, <1>3, <1>4, <1>5, <1>6 DEF HandlerInv

\* So does the end of a handler.
LEMMA ReturnKeepsHandler ==
  ASSUME TypeOK, HandlerInv, NEW p \in Procs, Return(p)
  PROVE  /\ pc' \in [Procs -> Locations] /\ arg' \in [Procs -> Args]
         /\ HandlerInv'
<1>1. "idle" \in Locations /\ NoArg \in Args
  BY NoArgs DEF Locations
<1>2. /\ pc' = [pc EXCEPT ![p] = "idle"] /\ arg' = [arg EXCEPT ![p] = NoArg]
      /\ waiting' = waiting \ {p}
  BY DEF Return, Goto
<1>3. /\ pc \in [Procs -> Locations] /\ arg \in [Procs -> Args] /\ waiting \subseteq Procs
  BY DEF TypeOK, Procs
<1>4. "idle" \notin Creating \cup Expanding \cup Deleting \cup Snapping \cup Unsnapping \cup Staging
  BY DEF Creating, Deleting, Expanding, Snapping, Unsnapping, Staging
<1> QED
  BY <1>1, <1>2, <1>3, <1>4 DEF HandlerInv

\* So does a call, since the sidecars make no second one about the same thing.
LEMMA CallKeepsHandler ==
  ASSUME TypeOK, HandlerInv, NEW about \in Volumes \cup {"snap"}, NEW l, NEW k,
         Call(about, l, k),
         \/ l \in {"create_start", "expand_get"} /\ about = "vol"
         \/ l = "delete_get" /\ about \in Volumes
         \/ l \in {"snap_get", "unsnap_get"} /\ about = "snap"
  PROVE  /\ pc' \in [Procs -> Locations] /\ arg' \in [Procs -> Args]
         /\ waiting' \subseteq Requests
         /\ HandlerInv'
<1> DEFINE a == [NoArg EXCEPT !.about = about]
<1>1. PICK p \in Requests : /\ pc[p] = "idle" /\ pc' = [pc EXCEPT ![p] = l]
                            /\ arg' = [arg EXCEPT ![p] = a]
                            /\ waiting' = waiting \cup {p}
  BY DEF Call, Goto
<1>2. /\ pc \in [Procs -> Locations] /\ arg \in [Procs -> Args] /\ waiting \subseteq Requests
      /\ Requests \subseteq Procs
  BY DEF TypeOK, Procs
<1>3. a \in Args /\ a.about = about
  BY NoArgs DEF Args
<1> HIDE DEF a
<1>4. l \in Locations /\ l # "idle" /\ l \notin Staging
  BY DEF Locations, Creating, Deleting, Expanding, Snapping, Unsnapping, Staging
<1>5. p # "node"
  BY LifeAssumption
<1>6. \A q \in waiting : arg[q].about # about
  BY DEF Call
<1>7. /\ pc' \in [Procs -> Locations] /\ arg' \in [Procs -> Args] /\ waiting' \subseteq Requests
      /\ pc'[p] = l /\ arg'[p] = a
      /\ \A q \in Procs \ {p} : pc'[q] = pc[q] /\ arg'[q] = arg[q]
  BY <1>1, <1>2, <1>3, <1>4
<1>8. /\ l \in Creating \cup Expanding => about = "vol"
      /\ l \in Deleting => about \in Volumes
      /\ l \in Snapping \cup Unsnapping => about = "snap"
  BY DEF Creating, Deleting, Expanding, Snapping, Unsnapping
<1>9. \A q, r \in waiting' : arg'[q].about = arg'[r].about => q = r
  BY <1>1, <1>2, <1>3, <1>6, <1>7 DEF HandlerInv
<1>10. \A q \in waiting' : pc'[q] # "idle"
  BY <1>1, <1>2, <1>4, <1>7 DEF HandlerInv
<1>11. \A q \in Procs :
         /\ pc'[q] = "idle" => arg'[q] = NoArg
         /\ pc'[q] \in Creating \cup Expanding => arg'[q].about = "vol"
         /\ pc'[q] \in Deleting => arg'[q].about \in Volumes
         /\ pc'[q] \in Snapping \cup Unsnapping => arg'[q].about = "snap"
         /\ IF q = "node" THEN pc'[q] \in {"idle"} \cup Staging ELSE pc'[q] \notin Staging
  BY <1>3, <1>4, <1>5, <1>7, <1>8 DEF HandlerInv
<1> QED
  BY <1>7, <1>9, <1>10, <1>11 DEF HandlerInv

-----------------------------------------------------------------------------
(* CreateVolume *)

\* A step of a handler is one of the handler of its kind, or its call fails.
LEMMA ByKind ==
  ASSUME NEW p, Handler(p) \/ CallFails(p)
  PROVE  \/ CallUnsent(p) \/ CallFails(p)
         \/ /\ pc[p] \in Creating
            /\ \/ CreateStart(p) \/ CreateNode(p) \/ CreateSourcePanic(p) \/ CreateSource(p)
               \/ CreateGet(p) \/ CreatePVC(p) \/ CreatePost(p)
         \/ pc[p] \in Deleting /\ (DeleteGet(p) \/ DeleteDel(p))
         \/ pc[p] \in Expanding /\ (ExpandGet(p) \/ ExpandPatch(p) \/ ExpandVerify(p))
         \/ pc[p] \in Snapping /\ (SnapGet(p) \/ SnapRun(p) \/ TargetGone(p))
         \/ pc[p] \in Unsnapping /\ (UnsnapGet(p) \/ UnsnapRun(p) \/ TargetGone(p))
         \/ /\ pc[p] \in Staging
            /\ StageStart(p) \/ StageBound(p) \/ StageDetails(p) \/ StageCreate(p)
<1>1. CASE \/ CreateStart(p) \/ CreateNode(p) \/ CreateSourcePanic(p) \/ CreateSource(p)
           \/ CreateGet(p) \/ CreatePVC(p) \/ CreatePost(p)
  <2>1. pc[p] \in Creating
    BY <1>1 DEF CreateStart, CreateNode, CreateSourcePanic, CreateSource, CreateGet,
         CreatePVC, CreatePost, Reaches, Creating
  <2> QED
    BY <1>1, <2>1
<1>2. CASE DeleteGet(p) \/ DeleteDel(p)
  <2>1. pc[p] \in Deleting
    BY <1>2 DEF DeleteGet, DeleteDel, Reaches, Deleting
  <2> QED
    BY <1>2, <2>1
<1>3. CASE ExpandGet(p) \/ ExpandPatch(p) \/ ExpandVerify(p)
  <2>1. pc[p] \in Expanding
    BY <1>3 DEF ExpandGet, ExpandPatch, ExpandVerify, Reaches, Expanding
  <2> QED
    BY <1>3, <2>1
<1>4. CASE SnapGet(p) \/ SnapRun(p)
  <2>1. pc[p] \in Snapping
    BY <1>4 DEF SnapGet, SnapRun, Reaches, Snapping
  <2> QED
    BY <1>4, <2>1
<1>5. CASE UnsnapGet(p) \/ UnsnapRun(p)
  <2>1. pc[p] \in Unsnapping
    BY <1>5 DEF UnsnapGet, UnsnapRun, Reaches, Unsnapping
  <2> QED
    BY <1>5, <2>1
<1>6. CASE TargetGone(p)
  <2>1. pc[p] \in Snapping \/ pc[p] \in Unsnapping
    BY <1>6 DEF TargetGone, TargetCalls, Snapping, Unsnapping
  <2> QED
    BY <1>6, <2>1
<1>7. CASE StageStart(p) \/ StageBound(p) \/ StageDetails(p) \/ StageCreate(p)
  <2>1. pc[p] \in Staging
    BY <1>7 DEF StageStart, StageBound, StageDetails, StageCreate, Reaches, Staging
  <2> QED
    BY <1>7, <2>1
<1> QED
  BY <1>1, <1>2, <1>3, <1>4, <1>5, <1>6, <1>7 DEF Handler

\* CreateInv speaks of each goroutine by itself, and of CreateVolume only.
LEMMA CreateAts ==
  /\ CreateInv <=> \A p \in Requests : CreateAt(pc[p], arg[p])
  /\ UNCHANGED req => (CreateInv' <=> \A p \in Requests : CreateAt(pc'[p], arg'[p]))
  /\ \A l, a : l \notin Creating \/ l \in {"create_ok", "create_err"} => CreateAt(l, a)
<1>1. CreateInv <=> \A p \in Requests : CreateAt(pc[p], arg[p])
  BY DEF CreateInv, CreateAt
<1>2. UNCHANGED req => (CreateInv' <=> \A p \in Requests : CreateAt(pc'[p], arg'[p]))
  BY DEF CreateInv, CreateAt, SourceGood, validateVolumeCreateReq
<1>3. \A l, a : l \notin Creating \/ l \in {"create_ok", "create_err"} => CreateAt(l, a)
  BY DEF CreateAt, Creating
<1> QED
  BY <1>1, <1>2, <1>3

\* What is known after the volume was looked for is enough for what comes next.
LEMMA AfterGetAt ==
  ASSUME TypeOK, NEW a \in Args, NEW b, CreateAt("create_get", a), b.node = a.node,
         b.through = a.through
  PROVE  CreateAt(AfterGet, b)
<1>1. /\ validateVolumeCreateReq(req) /\ a.node \in Nodes /\ SourceGood /\ ~a.through
  BY DEF CreateAt, Creating
<1>2. CASE req.pvcName = ""
  <2>1. AfterGet = "create_post"
    BY <1>2 DEF AfterGet
  <2>2. b.through = FALSE
    BY <1>1 DEF Args
  <2>3. b.through = (req.through /\ req.pvcName # "")
    BY <1>2, <2>2
  <2> QED
    BY <1>1, <2>1, <2>3 DEF CreateAt
<1>3. CASE req.pvcName # ""
  <2>1. AfterGet = "create_pvc"
    BY <1>3 DEF AfterGet
  <2> QED
    BY <1>1, <1>3, <2>1 DEF CreateAt
<1> QED
  BY <1>2, <1>3

\* The check of a source that is made is of "src".
LEMMA SourceChecked ==
  ASSUME TypeOK, NEW p, Reaches(p, "create_source")
  PROVE  SourceGood
<1>1. SourceVolume # ""
  BY SourceNamed
<1>2. req.source # <<>> => req.source[1] \in {"", "src"}
  BY RequestsAssumption DEF TypeOK
<1> QED
  BY <1>1, <1>2 DEF SourceVolume, SourceGood

\* CreateVolume makes sure of what CreateAt says, whatever fails on the way.
LEMMA CreateArrives ==
  ASSUME TypeOK, HandlerInv, CreateInv, NEW p \in Requests, Goes(p), pc[p] \in Creating,
         Handler(p) \/ CallFails(p)
  PROVE  CreateAt(pc'[p], arg'[p])
<1>1. /\ p \in Procs /\ pc \in [Procs -> Locations] /\ arg \in [Procs -> Args]
      /\ arg[p] \in Args /\ req \in VolumeRequests
  BY DEF TypeOK, Procs
<1>2. CreateAt(pc[p], arg[p])
  BY CreateAts
<1>3. \A l : Goto(p, l) => pc'[p] = l
  BY <1>1 DEF Goto
<1>4. pc'[p] \in {"create_ok", "create_err"} => CreateAt(pc'[p], arg'[p])
  BY CreateAts
<1>5. CASE CreateStart(p)
  <2>1. /\ pc[p] = "create_start" /\ arg' = arg
        /\ pc'[p] = "create_err" \/ (pc'[p] = "create_node" /\ validateVolumeCreateReq(req))
    BY <1>3, <1>5 DEF CreateStart
  <2>2. ~arg[p].through
    BY <1>2, <2>1 DEF CreateAt, Creating
  <2> QED
    BY <1>4, <2>1, <2>2 DEF CreateAt, Creating
<1>6. CASE CreateNode(p)
  <2>1. PICK n \in getNode(req.preferred) :
          /\ arg' = [arg EXCEPT ![p].node = n]
          /\ Goto(p, IF n = "" \/ req.source = <<"">> THEN "create_err"
                     ELSE IF req.source = <<>> THEN "create_get"
                     ELSE "create_source")
    BY <1>6 DEF CreateNode
  <2>2. validateVolumeCreateReq(req) /\ ~arg[p].through
    BY <1>2, <1>6 DEF CreateNode, Reaches, CreateAt, Creating
  <2>3. arg'[p].node = n /\ arg'[p].through = arg[p].through
    BY <1>1, <2>1 DEF Args
  <2>4. n # "" => n \in Nodes
    BY DEF getNode
  <2>5. CASE n = "" \/ req.source = <<"">>
    BY <1>3, <1>4, <2>1, <2>5
  <2>6. CASE ~(n = "" \/ req.source = <<"">>) /\ req.source = <<>>
    <3>1. pc'[p] = "create_get" /\ SourceGood
      BY <1>3, <2>1, <2>6 DEF SourceGood
    <3> QED
      BY <2>2, <2>3, <2>4, <2>6, <3>1 DEF CreateAt
  <2>7. CASE ~(n = "" \/ req.source = <<"">>) /\ req.source # <<>>
    <3>1. pc'[p] = "create_source"
      BY <1>3, <2>1, <2>7
    <3> QED
      BY <2>2, <2>3, <2>4, <2>7, <3>1 DEF CreateAt
  <2> QED
    BY <2>5, <2>6, <2>7
<1>7. CASE CreateSource(p)
  <2>1. pc[p] = "create_source" /\ pc'[p] = "create_get" /\ arg' = arg
    BY <1>3, <1>7 DEF CreateSource, Reaches
  <2>2. SourceGood
    BY <1>7, SourceChecked DEF CreateSource
  <2> QED
    BY <1>2, <2>1, <2>2 DEF CreateAt, Creating
<1>8. CASE CreateGet(p)
  <2>1. /\ pc[p] = "create_get" /\ arg' = arg
        /\ pc'[p] = "create_ok" \/ pc'[p] = AfterGet
    BY <1>3, <1>8 DEF CreateGet, Reaches
  <2> QED
    BY <1>1, <1>2, <1>4, <2>1, AfterGetAt
<1>9. CASE CreatePVC(p)
  <2> DEFINE t == "vol" \in co.want /\ req.through
  <2>1. /\ pc[p] = "create_pvc" /\ arg' = [arg EXCEPT ![p].through = t]
        /\ pc'[p] = "create_err" \/ (pc'[p] = "create_post" /\ "vol" \in co.want)
    BY <1>3, <1>9 DEF CreatePVC, Reaches
  <2>2. arg'[p].node = arg[p].node /\ arg'[p].through = t
    BY <1>1, <2>1 DEF Args
  <2>3. /\ validateVolumeCreateReq(req) /\ arg[p].node \in Nodes /\ SourceGood
        /\ req.pvcName # ""
    BY <1>2, <2>1 DEF CreateAt, Creating
  <2>4. req.through \in BOOLEAN
    BY <1>1, RequestsAssumption
  <2>5. "vol" \in co.want => t = (req.through /\ req.pvcName # "")
    BY <2>3, <2>4
  <2> HIDE DEF t
  <2> QED
    BY <1>4, <2>1, <2>2, <2>3, <2>5 DEF CreateAt
<1>10. CASE CreatePost(p)
  <2>1. pc[p] = "create_post"
    BY <1>10 DEF CreatePost, Reaches
  <2>2. OnError("create_post", FALSE) = "create_err"
    BY OnErrorIs
  <2>3. Goto(p, "create_err") \/ Goto(p, "create_ok")
    BY <1>10, <2>1, <2>2 DEF CreatePost, Reply
  <2> QED
    BY <1>3, <1>4, <2>3
<1>11. CASE CallUnsent(p)
  <2>1. /\ pc[p] \in DOMAIN APICall /\ Goto(p, OnError(pc[p], TRUE))
        /\ arg' = [arg EXCEPT ![p].isNil = TRUE]
    BY <1>11 DEF CallUnsent
  <2>2. pc[p] \in {"create_node", "create_source", "create_get", "create_pvc", "create_post"}
    BY <2>1, APICalls DEF Creating
  <2>3. arg'[p].node = arg[p].node /\ arg'[p].through = arg[p].through
    BY <1>1, <2>1 DEF Args
  <2>4. CASE pc[p] = "create_get"
    <3>1. pc'[p] = AfterGet
      BY <1>3, <2>1, <2>4, OnErrorIs
    <3> QED
      BY <1>1, <1>2, <2>3, <2>4, <3>1, AfterGetAt
  <2>5. CASE pc[p] # "create_get"
    <3>1. OnError(pc[p], TRUE) = "create_err"
      BY <2>2, <2>5, OnErrorIs
    <3> QED
      BY <1>3, <1>4, <2>1, <3>1
  <2> QED
    BY <2>4, <2>5
<1>12. CASE CallFails(p)
  <2>1. /\ pc[p] \in DOMAIN APICall \cup TargetCalls /\ Goto(p, OnError(pc[p], FALSE))
        /\ arg' = arg
        /\ pc[p] \in DOMAIN APICall => Reaches(p, pc[p])
    BY <1>12 DEF CallFails
  <2>2. pc[p] \in {"create_node", "create_source", "create_get", "create_pvc", "create_post"}
    BY <2>1, APICalls DEF Creating, TargetCalls
  <2>3. CASE pc[p] = "create_get"
    BY <1>1, <1>2, <1>3, <2>1, <2>3, AfterGetAt, OnErrorIs
  <2>4. CASE pc[p] = "create_source"
    <3>1. pc'[p] = "create_get"
      BY <1>3, <2>1, <2>4, OnErrorIs
    <3>2. SourceGood
      BY <2>1, <2>4, APICalls, SourceChecked
    <3> QED
      BY <1>2, <2>1, <2>4, <3>1, <3>2 DEF CreateAt, Creating
  <2>5. CASE pc[p] \notin {"create_get", "create_source"}
    <3>1. OnError(pc[p], FALSE) = "create_err"
      BY <2>2, <2>5, OnErrorIs
    <3> QED
      BY <1>3, <1>4, <2>1, <3>1
  <2> QED
    BY <2>3, <2>4, <2>5
<1>13. CASE CreateSourcePanic(p)
  <2>1. pc'[p] = "idle"
    BY <1>13, RestartedTyped DEF CreateSourcePanic
  <2> QED
    BY <2>1 DEF CreateAt, Creating
<1>14. \A K \in {Deleting, Expanding, Snapping, Unsnapping, Staging} : pc[p] \notin K
  BY DEF Creating, Deleting, Expanding, Snapping, Unsnapping, Staging
<1> QED
  BY <1>5, <1>6, <1>7, <1>8, <1>9, <1>10, <1>11, <1>12, <1>13, <1>14, ByKind

-----------------------------------------------------------------------------
(* All steps *)

\* The next-state relation by who takes the step.
Calls == \/ CallCreate \/ CallExpand \/ CallSnapshot \/ CallUnsnapshot
         \/ \E v \in Volumes : CallDelete(v)
Users == Want \/ \E x \in Volumes \cup {"snap"} : GiveUp(x)
Operates == \E v \in Volumes : Bind(v) \/ Resize(v) \/ Reap(v) \/ Collect(v)
Surroundings == Unstage \/ CallTimeout \/ ConfigLost \/ ConfigBack

\* Every step is one of these.
LEMMA NextCases ==
  ASSUME [Next]_vars
  PROVE  \/ \E p \in Procs : Handler(p) \/ CallFails(p)
         \/ \E p \in Procs : Return(p)
         \/ Calls \/ CallStage \/ ControllerCrash \/ Users \/ Operates \/ Surroundings
         \/ UNCHANGED vars
<1>1. CASE Next
  BY <1>1 DEF Next, Calls, Users, Operates, Surroundings
<1> QED
  BY <1>1

\* What a Call does, whichever it is.
Begins(p, about, l) ==
  /\ pc[p] = "idle" /\ pc' = [pc EXCEPT ![p] = l]
  /\ arg' = [arg EXCEPT ![p] = [NoArg EXCEPT !.about = about]]
  /\ waiting' = waiting \cup {p}
  /\ \A q \in waiting : arg[q].about # about
  /\ UNCHANGED <<req, store, readable, faults>>

\* Where the controller's handlers begin.
Starts == {"create_start", "expand_get", "delete_get", "snap_get", "unsnap_get"}

\* Every call of a sidecar begins a handler.
LEMMA CallsBegin ==
  ASSUME Calls
  PROVE  \E p \in Requests, about \in Volumes \cup {"snap"}, l \in Starts :
           /\ Begins(p, about, l)
           /\ \/ l \in {"create_start", "expand_get"} /\ about = "vol"
              \/ l = "delete_get" /\ about \in Volumes
              \/ l \in {"snap_get", "unsnap_get"} /\ about = "snap"
<1>1. \A about, l, k : Call(about, l, k) => \E p \in Requests : Begins(p, about, l)
  BY DEF Call, Begins, Goto
<1>2. CASE CallCreate
  BY <1>1, <1>2 DEF CallCreate, Starts, Volumes
<1>3. CASE CallExpand
  BY <1>1, <1>3 DEF CallExpand, Starts, Volumes
<1>4. CASE CallSnapshot
  BY <1>1, <1>4 DEF CallSnapshot, Starts
<1>5. CASE CallUnsnapshot
  BY <1>1, <1>5 DEF CallUnsnapshot, Starts
<1>6. CASE \E v \in Volumes : CallDelete(v)
  BY <1>1, <1>6 DEF CallDelete, Starts
<1> QED
  BY <1>2, <1>3, <1>4, <1>5, <1>6 DEF Calls

\* Users, operators and surroundings move no handler.
LEMMA StillControl ==
  ASSUME Users \/ Operates \/ Surroundings \/ UNCHANGED vars
  PROVE  /\ UNCHANGED <<req, pc, arg>>
         /\ waiting' \subseteq waiting
<1>1. CASE Users
  BY <1>1 DEF Users, Want, GiveUp
<1>2. CASE Operates
  BY <1>2 DEF Operates, Bind, Resize, Reap, Collect
<1>3. CASE Surroundings
  BY <1>3 DEF Surroundings, Unstage, CallTimeout, ConfigLost, ConfigBack
<1>4. CASE UNCHANGED vars
  BY <1>4 DEF vars
<1> QED
  BY <1>1, <1>2, <1>3, <1>4

\* The requests stay what they are.
LEMMA ReqFixed ==
  ASSUME TypeOK, HandlerInv, [Next]_vars
  PROVE  UNCHANGED req
<1>1. ASSUME NEW p \in Procs, Handler(p) \/ CallFails(p)
      PROVE  UNCHANGED req
  BY <1>1, HandlerGoes DEF Aside
<1>2. ASSUME NEW p \in Procs, Return(p)
      PROVE  UNCHANGED req
  BY <1>2 DEF Return
<1>3. CASE Calls
  BY <1>3, CallsBegin DEF Begins
<1>4. CASE CallStage \/ ControllerCrash
  BY <1>4 DEF CallStage, ControllerCrash
<1> QED
  BY <1>1, <1>2, <1>3, <1>4, StillControl, NextCases

\* What any step does to a goroutine q: nothing; q takes a step of its handler; q
\* ends, or dies with the process; or q is called.
LEMMA Movement ==
  ASSUME TypeOK, HandlerInv, [Next]_vars, NEW q \in Procs
  PROVE  \/ pc'[q] = pc[q] /\ arg'[q] = arg[q]
         \/ Goes(q) /\ (Handler(q) \/ CallFails(q))
         \/ pc'[q] = "idle" /\ arg'[q] = NoArg /\ q \notin waiting'
         \/ /\ pc[q] = "idle" /\ pc'[q] \in Starts \cup {"stage_start"}
            /\ \E about \in {""} \cup Volumes \cup {"snap"} :
                 arg'[q] = [NoArg EXCEPT !.about = about]
            /\ q \in Requests => q \in waiting'
<1>0. /\ pc \in [Procs -> Locations] /\ arg \in [Procs -> Args]
      /\ Requests \subseteq Procs /\ \A r \in Procs : r \in Requests \/ r = "node"
  BY DEF TypeOK, Procs
<1>1. ASSUME NEW p \in Procs, Handler(p) \/ CallFails(p)
      PROVE  \/ pc'[q] = pc[q] /\ arg'[q] = arg[q]
             \/ Goes(q) /\ (Handler(q) \/ CallFails(q))
             \/ pc'[q] = "idle" /\ arg'[q] = NoArg /\ q \notin waiting'
  <2>1. CASE Goes(p)
    BY <1>1, <2>1 DEF Goes
  <2>2. CASE Restarted
    BY <1>0, <2>2, RestartedTyped
  <2> QED
    BY <1>1, <2>1, <2>2, HandlerGoes
<1>2. ASSUME NEW p \in Procs, Return(p)
      PROVE  \/ pc'[q] = pc[q] /\ arg'[q] = arg[q]
             \/ pc'[q] = "idle" /\ arg'[q] = NoArg /\ q \notin waiting'
  BY <1>0, <1>2 DEF Return, Goto
<1>3. CASE Calls
  <2>1. PICK p \in Requests, about \in Volumes \cup {"snap"}, l \in Starts : Begins(p, about, l)
    BY <1>3, CallsBegin
  <2>2. CASE q = p
    <3>1. /\ pc[q] = "idle" /\ pc'[q] = l /\ q \in waiting'
          /\ arg'[q] = [NoArg EXCEPT !.about = about]
      BY <1>0, <2>1, <2>2 DEF Begins
    <3> QED
      BY <3>1
  <2>3. CASE q # p
    BY <1>0, <2>1, <2>3 DEF Begins
  <2> QED
    BY <2>2, <2>3
<1>4. CASE CallStage
  <2>1. /\ pc["node"] = "idle" /\ pc' = [pc EXCEPT !["node"] = "stage_start"] /\ arg' = arg
    BY <1>4 DEF CallStage, Goto
  <2>2. CASE q = "node"
    <3>1. arg[q] = NoArg
      BY <2>1, <2>2 DEF HandlerInv
    <3>2. NoArg = [NoArg EXCEPT !.about = ""]
      <4>1. NoArg.about = ""
        BY DEF NoArg
      <4> QED
        BY <4>1, NoArgs DEF Args
    <3> QED
      BY <1>0, <2>1, <2>2, <3>1, <3>2, LifeAssumption
  <2>3. CASE q # "node"
    BY <1>0, <2>1, <2>3
  <2> QED
    BY <2>2, <2>3
<1>5. CASE ControllerCrash
  BY <1>0, <1>5, RestartedTyped DEF ControllerCrash
<1> QED
  BY <1>1, <1>2, <1>3, <1>4, <1>5, StillControl, NextCases

\* Every step keeps CreateInv.
LEMMA CreateStep ==
  ASSUME TypeOK, HandlerInv, CreateInv, [Next]_vars
  PROVE  CreateInv'
<1>1. UNCHANGED req
  BY ReqFixed
<1>2. ASSUME NEW q \in Requests
      PROVE  CreateAt(pc'[q], arg'[q])
  <2>0. q \in Procs
    BY DEF Procs
  <2>1. CASE pc'[q] = pc[q] /\ arg'[q] = arg[q]
    BY <2>1, CreateAts
  <2>2. CASE Goes(q) /\ (Handler(q) \/ CallFails(q))
    <3>1. CASE pc[q] \in Creating
      BY <2>2, <3>1, CreateArrives
    <3>2. CASE pc[q] \notin Creating
      <4>1. pc'[q] \notin Creating
        BY <2>2, <3>2, KindsDiffer DEF Goes
      <4> QED
        BY <4>1, CreateAts
    <3> QED
      BY <3>1, <3>2
  <2>3. CASE pc'[q] = "idle"
    <3>1. pc'[q] \notin Creating
      BY <2>3 DEF Creating
    <3> QED
      BY <3>1, CreateAts
  <2>4. ASSUME NEW about, arg'[q] = [NoArg EXCEPT !.about = about],
               pc'[q] \in Starts \cup {"stage_start"}
        PROVE  CreateAt(pc'[q], arg'[q])
    <3>1. ~arg'[q].through
      BY <2>4 DEF NoArg
    <3> QED
      BY <2>4, <3>1 DEF CreateAt, Creating, Starts
  <2> QED
    BY <2>0, <2>1, <2>2, <2>3, <2>4, Movement
<1> QED
  BY <1>1, <1>2, CreateAts

-----------------------------------------------------------------------------
(* The stores *)

\* The CVC that CreateVolume has just created.
Fresh(o) == /\ o.name = "vol" /\ o.namespace = OpenEBSNamespace
            /\ \E t \in BOOLEAN : /\ t = (req.through /\ req.pvcName # "")
                                  /\ o.annotations = Annotations(req, t)
            /\ o.labels = Labels(req) /\ o.finalizers = {"cvc"} /\ ~o.deleting
            /\ o.capacity = RoundUpGiB(req.size) /\ o.provisioned = RoundUpGiB(req.size)
            /\ req.replicaCount \in CVC!Numerals
            /\ o.replicaCount = CVC!Atoi(req.replicaCount)
            /\ o.source = req.source /\ o.nodeID \in Nodes
            /\ o.phase = "Pending" /\ o.status = 0
            /\ SourceGood /\ validateVolumeCreateReq(req)

\* What a step may do to the CVCs and CVs.  CreateVolume adds "vol";
Posted == /\ "vol" \notin DOMAIN cvc
          /\ DOMAIN cvc' = DOMAIN cvc \cup {"vol"}
          /\ cvc' \in [DOMAIN cvc' -> CVC!Objects]
          /\ \A w \in DOMAIN cvc : cvc'[w] = cvc[w]
          /\ Fresh(cvc'["vol"])
          /\ UNCHANGED cv

\* DeleteVolume marks a CVC;
Marked(v) == /\ Edited(cvc, cvc', v) /\ Sized(cvc[v], cvc'[v])
             /\ cvc'[v].deleting
             /\ "cvc" \in cvc[v].finalizers => "cvc" \in cvc'[v].finalizers
             /\ \E p \in Requests : pc[p] = "delete_del" /\ arg[p].about = v
             /\ UNCHANGED cv

\* The deletion mark and the finalizers stay.
Guarded(v) == /\ cvc'[v].deleting = cvc[v].deleting
              /\ cvc'[v].finalizers = cvc[v].finalizers

\* ControllerExpandVolume patches the capacity of "vol";
Grown(v) == /\ v = "vol" /\ Edited(cvc, cvc', v) /\ Guarded(v)
            /\ cvc'[v].capacity \in {cvc[v].capacity, Desired}
            /\ cvc'[v].phase = cvc[v].phase /\ cvc'[v].status = cvc[v].status
            /\ \E p \in Requests : pc[p] = "expand_patch"
            /\ UNCHANGED cv

\* the operator binds or grows a volume that is not being deleted;
Served(v) == /\ Edited(cvc, cvc', v) /\ Guarded(v) /\ ~cvc[v].deleting
             /\ cvc'[v].capacity = cvc[v].capacity /\ cvc'[v].phase = "Bound"
             /\ \/ /\ cvc[v].phase = "Pending" /\ cvc'[v].status = cvc[v].provisioned
                   /\ cv' = cv \cup {v}
                \/ /\ cvc[v].phase = "Bound" /\ cvc'[v].status = cvc[v].capacity
                   /\ cvc[v].capacity > cvc[v].status
                   /\ UNCHANGED cv

\* the operator or the garbage collector takes its finalizer off one that is.
Released(v) == /\ cvc[v].deleting
               /\ \/ Dropped(cvc, cvc', v)
                  \/ Edited(cvc, cvc', v) /\ Sized(cvc[v], cvc'[v]) /\ cvc'[v].deleting
               /\ \/ cv' = cv \ {v}
                  \/ /\ UNCHANGED cv
                     /\ "cvc" \in cvc[v].finalizers
                          => Edited(cvc, cvc', v) /\ "cvc" \in cvc'[v].finalizers

\* Nothing else.
StoreStep == \/ UNCHANGED <<cvc, cv>>
             \/ Posted
             \/ \E v \in DOMAIN cvc : Marked(v) \/ Grown(v) \/ Served(v) \/ Released(v)

\* CreateVolume creates only what is complete.
LEMMA PostStep ==
  ASSUME TypeOK, HandlerInv, CreateInv, NEW p \in Procs, CreatePost(p)
  PROVE  StoreStep
<1> DEFINE b == Provision(req, arg[p].node, arg[p].through)
<1>1. /\ pc[p] = "create_post" /\ UNCHANGED <<req, cv>>
      /\ \/ UNCHANGED cvc
         \/ ~b.errs /\ ~Found(cvc, "vol") /\ cvc' = Put(cvc, "vol", b.obj)
  BY DEF CreatePost, Reaches
<1>2. p \in Requests
  BY <1>1 DEF Procs, HandlerInv, Staging
<1>3. /\ arg[p].node \in Nodes /\ SourceGood /\ validateVolumeCreateReq(req)
      /\ arg[p].through = (req.through /\ req.pvcName # "")
  BY <1>1, <1>2, CreateAts DEF CreateAt, Creating
<1>4. req \in VolumeRequests /\ req.name # "" /\ arg[p].through \in BOOLEAN
  BY <1>3 DEF TypeOK, validateVolumeCreateReq, Args
<1>5. CASE UNCHANGED cvc
  BY <1>1, <1>5 DEF StoreStep
<1>6. CASE ~b.errs /\ ~Found(cvc, "vol") /\ cvc' = Put(cvc, "vol", b.obj)
  <2> DEFINE n == arg[p].node
             t == arg[p].through
  <2>0. n \in Nodes /\ t \in BOOLEAN /\ t = (req.through /\ req.pvcName # "")
        /\ ~Provision(req, n, t).errs /\ b.obj = Provision(req, n, t).obj
    BY <1>3, <1>4, <1>6
  <2> HIDE DEF n, t, b
  <2>1. b.obj \in CVC!Objects /\ Fresh(b.obj)
    <3> DEFINE o == Provision(req, n, t).obj
    <3>1. Provisioned(req, n, t, o)
      BY <1>4, <2>0, ProvisionBuilds
    <3>2. b.obj = o
      BY <2>0
    <3> HIDE DEF o
    <3>3. o \in CVC!Objects /\ Fresh(o)
      BY <1>3, <2>0, <3>1 DEF Fresh, Provisioned
    <3> QED
      BY <3>2, <3>3
  <2>2. cvc \in [DOMAIN cvc -> CVC!Objects] /\ "vol" \notin DOMAIN cvc
    BY <1>6 DEF TypeOK, Found
  <2>3. Posted
    <3> DEFINE o == b.obj
    <3>1. cvc' = Put(cvc, "vol", o)
      BY <1>6 DEF b
    <3>2. o \in CVC!Objects /\ Fresh(o)
      BY <2>1
    <3> HIDE DEF o
    <3>3. /\ DOMAIN cvc' = DOMAIN cvc \cup {"vol"}
          /\ cvc' \in [DOMAIN cvc' -> CVC!Objects]
          /\ \A w \in DOMAIN cvc : cvc'[w] = cvc[w]
          /\ cvc'["vol"] = o
      BY <2>2, <3>1, <3>2, PutStore
    <3> QED
      BY <1>1, <2>2, <3>2, <3>3 DEF Posted
  <2> QED
    BY <2>3 DEF StoreStep
<1> QED
  BY <1>1, <1>5, <1>6

\* DeleteVolume marks what it was asked about.
LEMMA MarkStep ==
  ASSUME TypeOK, HandlerInv, NEW p \in Procs, DeleteDel(p)
  PROVE  StoreStep
<1> DEFINE v == arg[p].about
<1>1. /\ pc[p] = "delete_del" /\ UNCHANGED cv
      /\ cvc' = IF Found(cvc, v) THEN Deleted(cvc, v) ELSE cvc
  BY DEF DeleteDel, Reaches
<1>2. p \in Requests
  BY <1>1 DEF Procs, HandlerInv, Staging
<1> HIDE DEF v
<1>3. CASE Found(cvc, v)
  <2>1. cvc \in [DOMAIN cvc -> CVC!Objects] /\ v \in DOMAIN cvc
    BY <1>3 DEF TypeOK, Found
  <2>2. Marked(v)
    BY <1>1, <1>2, <1>3, <2>1, DeletedStore DEF Marked, v
  <2> QED
    BY <2>1, <2>2 DEF StoreStep
<1>4. CASE ~Found(cvc, v)
  BY <1>1, <1>4 DEF StoreStep
<1> QED
  BY <1>3, <1>4

\* ControllerExpandVolume changes the capacity only.
LEMMA PatchStep ==
  ASSUME TypeOK, HandlerInv, NEW p \in Procs, ExpandPatch(p)
  PROVE  StoreStep
<1> DEFINE h == arg[p].held
           new == CVC!Build(CVC!WithCapacityQty(CVC!BuildFrom(FALSE, h), Desired))
<1>1. /\ pc[p] = "expand_patch" /\ UNCHANGED cv
      /\ \/ Found(cvc, "vol") /\ cvc' = Patched(cvc, "vol", h, new.obj)
         \/ UNCHANGED cvc
  BY DEF ExpandPatch, Reaches
<1>2. p \in Requests
  BY <1>1 DEF Procs, HandlerInv, Staging
<1>3. h \in CVC!Objects
  BY DEF TypeOK, Args
<1>4. Desired \in Nat
  BY RequestsAssumption, RoundUpIs DEF Desired, TypeOK
<1> HIDE DEF h
<1>5. new.obj = [h EXCEPT !.capacity = Desired]
  BY DEF CVC!Build, CVC!WithCapacityQty, CVC!BuildFrom
<1> HIDE DEF new
<1>6. CASE Found(cvc, "vol") /\ cvc' = Patched(cvc, "vol", h, new.obj)
  <2>1. cvc \in [DOMAIN cvc -> CVC!Objects] /\ "vol" \in DOMAIN cvc
    BY <1>6 DEF TypeOK, Found
  <2>2. Grown("vol")
    BY <1>1, <1>2, <1>3, <1>4, <1>5, <1>6, <2>1, PatchedStore DEF Grown, Guarded
  <2> QED
    BY <2>1, <2>2 DEF StoreStep
<1>7. CASE UNCHANGED cvc
  BY <1>1, <1>7 DEF StoreStep
<1> QED
  BY <1>1, <1>6, <1>7

\* The operator and the garbage collector.
LEMMA OperatorStep ==
  ASSUME TypeOK, NEW v \in Volumes, Bind(v) \/ Resize(v) \/ Reap(v) \/ Collect(v)
  PROVE  StoreStep
<1>1. cvc \in [DOMAIN cvc -> CVC!Objects] /\ v \in DOMAIN cvc
  BY DEF TypeOK, Found, Bind, Resize, Reap, Collect
<1>2. CASE Bind(v)
  <2>1. Served(v)
    BY <1>1, <1>2, BoundStore DEF Bind, Served, Guarded
  <2> QED
    BY <1>1, <2>1 DEF StoreStep
<1>3. CASE Resize(v)
  <2>1. Served(v)
    BY <1>1, <1>3, ResizedStore DEF Resize, Served, Guarded
  <2> QED
    BY <1>1, <2>1 DEF StoreStep
<1>4. CASE Reap(v)
  <2>1. Released(v)
    BY <1>1, <1>4, SettledStore DEF Reap, Released
  <2> QED
    BY <1>1, <2>1 DEF StoreStep
<1>5. CASE Collect(v)
  <2>1. Released(v)
    BY <1>1, <1>5, SettledStore DEF Collect, Released
  <2> QED
    BY <1>1, <2>1 DEF StoreStep
<1> QED
  BY <1>2, <1>3, <1>4, <1>5

\* Every step is a StoreStep.
LEMMA StoreSteps ==
  ASSUME TypeOK, HandlerInv, CreateInv, [Next]_vars
  PROVE  StoreStep
<1>1. ASSUME NEW p \in Procs, Handler(p) \/ CallFails(p)
      PROVE  StoreStep
  <2>1. CASE CreatePost(p) \/ DeleteDel(p) \/ ExpandPatch(p)
    BY <2>1, PostStep, MarkStep, PatchStep
  <2>2. CASE ~(CreatePost(p) \/ DeleteDel(p) \/ ExpandPatch(p))
    <3>1. UNCHANGED <<cvc, cv>>
      BY <1>1, <2>2 DEF Handler, CallFails, CallUnsent, CreateStart, CreateNode,
           CreateSourcePanic, CreateSource, CreateGet, CreatePVC, DeleteGet, ExpandGet,
           ExpandVerify, SnapGet, SnapRun, UnsnapGet, UnsnapRun, TargetGone,
           StageStart, StageBound, StageDetails, StageCreate, store
    <3> QED
      BY <3>1 DEF StoreStep
  <2> QED
    BY <2>1, <2>2
<1>2. ASSUME NEW p \in Procs, Return(p)
      PROVE  StoreStep
  BY <1>2 DEF Return, store, StoreStep
<1>3. CASE Calls
  BY <1>3, CallsBegin DEF Begins, store, StoreStep
<1>4. CASE CallStage \/ ControllerCrash
  BY <1>4 DEF CallStage, ControllerCrash, store, StoreStep
<1>5. CASE Users
  BY <1>5 DEF Users, Want, GiveUp, store, StoreStep
<1>6. CASE Operates
  BY <1>6, OperatorStep DEF Operates
<1>7. CASE Surroundings
  BY <1>7 DEF Surroundings, Unstage, CallTimeout, ConfigLost, ConfigBack, store, StoreStep
<1>8. CASE UNCHANGED vars
  BY <1>8 DEF vars, store, StoreStep
<1> QED
  BY <1>1, <1>2, <1>3, <1>4, <1>5, <1>6, <1>7, <1>8, NextCases

\* What a step may do to the snapshots,
SnapStep == \/ UNCHANGED snaps
            \/ snaps' = snaps \cup {SnapshotID}
            \/ snaps' = snaps \ {SnapshotID} /\ \E p \in Requests : pc[p] = "unsnap_run"
            \/ \E v \in DOMAIN cvc : cvc[v].deleting /\ snaps' = {s \in snaps : s[1] # v}

\* and to the attachment.
AttachStep == \/ UNCHANGED cva
              \/ cva' = CVA!Zero
              \/ /\ pc["node"] = "stage_create"
                 /\ cva' = [arg["node"].vol EXCEPT !.ownerNodeID = "node"]

\* Every step is a SnapStep.
LEMMA SnapSteps ==
  ASSUME TypeOK, HandlerInv, [Next]_vars
  PROVE  SnapStep
<1>1. ASSUME NEW p \in Procs, Handler(p) \/ CallFails(p)
      PROVE  SnapStep
  <2>1. CASE SnapRun(p)
    BY <2>1 DEF SnapRun, SnapStep
  <2>2. CASE UnsnapRun(p)
    <3>1. p \in Requests
      BY <2>2 DEF UnsnapRun, Procs, HandlerInv, Staging
    <3> QED
      BY <2>2, <3>1 DEF UnsnapRun, SnapStep
  <2>3. CASE ~SnapRun(p) /\ ~UnsnapRun(p)
    <3>1. UNCHANGED snaps
      BY <1>1, <2>3 DEF Handler, CallFails, CallUnsent, CreateStart, CreateNode,
           CreateSourcePanic, CreateSource, CreateGet, CreatePVC, CreatePost, DeleteGet,
           DeleteDel, ExpandGet, ExpandPatch, ExpandVerify, SnapGet, UnsnapGet, TargetGone,
           StageStart, StageBound, StageDetails, StageCreate, store
    <3> QED
      BY <3>1 DEF SnapStep
  <2> QED
    BY <2>1, <2>2, <2>3
<1>2. ASSUME NEW p \in Procs, Return(p)
      PROVE  SnapStep
  BY <1>2 DEF Return, store, SnapStep
<1>3. CASE Calls
  BY <1>3, CallsBegin DEF Begins, store, SnapStep
<1>4. CASE CallStage \/ ControllerCrash
  BY <1>4 DEF CallStage, ControllerCrash, store, SnapStep
<1>5. CASE Users
  BY <1>5 DEF Users, Want, GiveUp, store, SnapStep
<1>6. CASE Operates
  <2>1. PICK v \in Volumes : Bind(v) \/ Resize(v) \/ Reap(v) \/ Collect(v)
    BY <1>6 DEF Operates
  <2>2. CASE Reap(v)
    BY <2>2 DEF Reap, Found, SnapStep
  <2>3. CASE Bind(v) \/ Resize(v) \/ Collect(v)
    BY <2>3 DEF Bind, Resize, Collect, SnapStep
  <2> QED
    BY <2>1, <2>2, <2>3
<1>7. CASE Surroundings
  BY <1>7 DEF Surroundings, Unstage, CallTimeout, ConfigLost, ConfigBack, store, SnapStep
<1>8. CASE UNCHANGED vars
  BY <1>8 DEF vars, store, SnapStep
<1> QED
  BY <1>1, <1>2, <1>3, <1>4, <1>5, <1>6, <1>7, <1>8, NextCases

\* Every step is an AttachStep.
LEMMA AttachSteps ==
  ASSUME TypeOK, HandlerInv, [Next]_vars
  PROVE  AttachStep
<1>1. ASSUME NEW p \in Procs, Handler(p) \/ CallFails(p)
      PROVE  AttachStep
  <2>1. CASE StageCreate(p)
    <3>1. pc[p] = "stage_create"
      BY <2>1 DEF StageCreate, Reaches
    <3>2. p = "node"
      BY <3>1 DEF HandlerInv, Staging
    <3> QED
      BY <2>1, <3>1, <3>2 DEF StageCreate, AttachStep
  <2>2. CASE ~StageCreate(p)
    <3>1. UNCHANGED cva
      BY <1>1, <2>2 DEF Handler, CallFails, CallUnsent, CreateStart, CreateNode,
           CreateSourcePanic, CreateSource, CreateGet, CreatePVC, CreatePost, DeleteGet,
           DeleteDel, ExpandGet, ExpandPatch, ExpandVerify, SnapGet, SnapRun, UnsnapGet,
           UnsnapRun, TargetGone, StageStart, StageBound, StageDetails, store
    <3> QED
      BY <3>1 DEF AttachStep
  <2> QED
    BY <2>1, <2>2
<1>2. ASSUME NEW p \in Procs, Return(p)
      PROVE  AttachStep
  BY <1>2 DEF Return, store, AttachStep
<1>3. CASE Calls
  BY <1>3, CallsBegin DEF Begins, store, AttachStep
<1>4. CASE CallStage \/ ControllerCrash
  BY <1>4 DEF CallStage, ControllerCrash, store, AttachStep
<1>5. CASE Users
  BY <1>5 DEF Users, Want, GiveUp, store, AttachStep
<1>6. CASE Operates
  BY <1>6 DEF Operates, Bind, Resize, Reap, Collect, AttachStep
<1>7. CASE Surroundings
  BY <1>7 DEF Surroundings, Unstage, CallTimeout, ConfigLost, ConfigBack, store, AttachStep
<1>8. CASE UNCHANGED vars
  BY <1>8 DEF vars, store, AttachStep
<1> QED
  BY <1>1, <1>2, <1>3, <1>4, <1>5, <1>6, <1>7, <1>8, NextCases
=============================================================================
