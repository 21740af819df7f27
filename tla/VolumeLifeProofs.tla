-------------------------- MODULE VolumeLifeProofs --------------------------
(***************************************************************************)
(* The life of a volume, for any requests, goroutines, nodes and faults.   *)
(*                                                                         *)
(* The invariant IInv is proved in layers, each from the ones before it:   *)
(*   BaseInv        types, HandlerInv and CreateInv: where handlers are    *)
(*                  and what CreateVolume has made sure of;                *)
(*   FinalizerInv   no CV without its CVC;                                 *)
(*   AskedInv       what the sidecars know while they wait, and that a     *)
(*                  deletion somebody asked for stays asked for;           *)
(*   SourceInv, StageInv, ConfigInv, AnswerInv: what is answered is so.    *)
(* A step is summarised by Movement (of a goroutine), StoreStep, SnapStep  *)
(* and AttachStep (of the stores) in VolumeMoves, and by CoMove (of what   *)
(* the sidecars know) here.                                                *)
(***************************************************************************)
EXTENDS VolumeMoves

\* What a sidecar learns from an answer.
LEMMA LearnIs ==
  ASSUME NEW k \in CoTypes, NEW about, NEW end
  PROVE  /\ end = "create_ok" => Learn(k, about, end) = [k EXCEPT !.vol = "yes"]
         /\ end = "expand_ok" => Learn(k, about, end) = [k EXCEPT !.grown = TRUE]
         /\ end = "snap_ok" => Learn(k, about, end) = [k EXCEPT !.snap = "yes"]
         /\ end \in {"delete_ok", "unsnap_ok"} =>
              Learn(k, about, end) = [k EXCEPT ![about] = "gone"]
         /\ end \notin {"create_ok", "expand_ok", "snap_ok", "delete_ok", "unsnap_ok"} =>
              Learn(k, about, end) = k
  BY DEF Learn

\* What the sidecars want and know keeps its type.
LEMMA CoTyped ==
  ASSUME TypeOK, HandlerInv, [Next]_vars
  PROVE  co' \in CoTypes
<1>0. co \in CoTypes
  BY DEF TypeOK
<1>1. ASSUME NEW p \in Procs, Handler(p) \/ CallFails(p)
      PROVE  co' \in CoTypes
  BY <1>0, <1>1, HandlerGoes DEF Aside
<1>2. ASSUME NEW p \in Procs, Return(p)
      PROVE  co' \in CoTypes
  <2>1. co' = co \/ co' = Learn(co, arg[p].about, pc[p])
    BY <1>2 DEF Return
  <2>2. /\ pc[p] = "delete_ok" => arg[p].about \in Volumes
        /\ pc[p] = "unsnap_ok" => arg[p].about = "snap"
    BY DEF HandlerInv, Deleting, Unsnapping
  <2>3. CASE co' = co
    BY <1>0, <2>3
  <2>4. CASE co' = Learn(co, arg[p].about, pc[p])
    <3> DEFINE a == arg[p].about
    <3>1. pc[p] \in {"delete_ok", "unsnap_ok"} =>
            co' = [co EXCEPT ![a] = "gone"] /\ a \in {"src", "vol", "snap"}
      BY <1>0, <2>2, <2>4, LearnIs DEF Volumes
    <3>2. [co EXCEPT !.vol = "yes"] \in CoTypes /\ [co EXCEPT !.grown = TRUE] \in CoTypes
          /\ [co EXCEPT !.snap = "yes"] \in CoTypes
      BY <1>0 DEF CoTypes
    <3> HIDE DEF a
    <3>3. CASE pc[p] \in {"delete_ok", "unsnap_ok"}
      BY <1>0, <3>1, <3>3 DEF CoTypes
    <3>4. CASE pc[p] \notin {"delete_ok", "unsnap_ok"}
      <4>1. CASE pc[p] = "create_ok"
        BY <1>0, <2>4, <3>2, <4>1, LearnIs
      <4>2. CASE pc[p] = "expand_ok"
        <5>1. Learn(co, arg[p].about, "expand_ok") = [co EXCEPT !.grown = TRUE]
          BY DEF Learn
        <5> QED
          BY <2>4, <3>2, <4>2, <5>1, Zenon
      <4>3. CASE pc[p] = "snap_ok"
        BY <1>0, <2>4, <3>2, <4>3, LearnIs
      <4>4. CASE pc[p] \notin {"create_ok", "expand_ok", "snap_ok"}
        BY <1>0, <2>4, <3>4, <4>4, LearnIs
      <4> QED
        BY <4>1, <4>2, <4>3, <4>4
    <3> QED
      BY <3>3, <3>4
  <2> QED
    BY <2>1, <2>3, <2>4
<1>3. CASE Calls
  <2>1. CASE CallCreate
    BY <1>0, <2>1 DEF CallCreate, Call, CoTypes
  <2>2. CASE CallExpand
    BY <1>0, <2>2 DEF CallExpand, Call
  <2>3. CASE CallSnapshot
    BY <1>0, <2>3 DEF CallSnapshot, Call, CoTypes
  <2>4. CASE CallUnsnapshot
    BY <1>0, <2>4 DEF CallUnsnapshot, Call, CoTypes
  <2>5. ASSUME NEW v \in Volumes, CallDelete(v)
        PROVE  co' \in CoTypes
    <3>1. co' = [co EXCEPT ![v] = "deleting"] /\ v \in {"src", "vol"}
      BY <2>5 DEF CallDelete, Call, Volumes
    <3> QED
      BY <1>0, <3>1 DEF CoTypes
  <2> QED
    BY <1>3, <2>1, <2>2, <2>3, <2>4, <2>5 DEF Calls
<1>4. CASE CallStage \/ ControllerCrash
  BY <1>0, <1>4 DEF CallStage, ControllerCrash
<1>5. CASE Users
  <2>1. CASE Want
    BY <1>0, <2>1 DEF Want, CoTypes
  <2>2. ASSUME NEW x \in Volumes \cup {"snap"}, GiveUp(x)
        PROVE  co' \in CoTypes
    <3>1. x \in {"src", "vol", "snap"} /\ x # "want"
      BY DEF Volumes
    <3>2. co' = [co EXCEPT !.want = @ \ {x}, ![x] = IF @ = "none" THEN "gone" ELSE @]
      BY <2>2 DEF GiveUp
    <3> QED
      BY <1>0, <3>1, <3>2 DEF CoTypes
  <2> QED
    BY <1>5, <2>1, <2>2 DEF Users
<1>6. CASE Operates
  BY <1>0, <1>6 DEF Operates, Bind, Resize, Reap, Collect
<1>7. CASE Surroundings
  BY <1>0, <1>7 DEF Surroundings, Unstage, CallTimeout, ConfigLost, ConfigBack
<1>8. CASE UNCHANGED vars
  BY <1>0, <1>8 DEF vars
<1> QED
  BY <1>1, <1>2, <1>3, <1>4, <1>5, <1>6, <1>7, <1>8, NextCases

\* The stores keep their types.
LEMMA StoreTyped ==
  ASSUME TypeOK, HandlerInv, CreateInv, [Next]_vars
  PROVE  /\ DOMAIN cvc' \subseteq Volumes /\ cvc' \in [DOMAIN cvc' -> CVC!Objects]
         /\ cv' \subseteq Volumes
<1>1. /\ DOMAIN cvc \subseteq Volumes /\ cvc \in [DOMAIN cvc -> CVC!Objects]
      /\ cv \subseteq Volumes
  BY DEF TypeOK
<1>2. StoreStep
  BY StoreSteps
<1>3. CASE UNCHANGED <<cvc, cv>>
  BY <1>1, <1>3
<1>4. CASE Posted
  BY <1>1, <1>4 DEF Posted, Volumes
<1>5. ASSUME NEW v \in DOMAIN cvc, Marked(v) \/ Grown(v) \/ Served(v) \/ Released(v)
      PROVE  /\ DOMAIN cvc' \subseteq Volumes /\ cvc' \in [DOMAIN cvc' -> CVC!Objects]
             /\ cv' \subseteq Volumes
  <2>1. Edited(cvc, cvc', v) \/ Dropped(cvc, cvc', v)
    BY <1>5 DEF Marked, Grown, Served, Released
  <2>2. cv' \subseteq Volumes
    BY <1>1, <1>5 DEF Marked, Grown, Served, Released
  <2> QED
    BY <1>1, <2>1, <2>2 DEF Edited, Dropped
<1> QED
  BY <1>2, <1>3, <1>4, <1>5 DEF StoreStep

\* The handlers keep their types and HandlerInv.
LEMMA ControlStep ==
  ASSUME TypeOK, HandlerInv, [Next]_vars
  PROVE  /\ pc' \in [Procs -> Locations] /\ arg' \in [Procs -> Args]
         /\ waiting' \subseteq Requests
         /\ readable' \subseteq {"path", "env", "incluster"} /\ faults' \in 0..MaxFaults
         /\ HandlerInv'
<1>0. /\ pc \in [Procs -> Locations] /\ arg \in [Procs -> Args]
      /\ waiting \subseteq Requests
      /\ readable \subseteq {"path", "env", "incluster"} /\ faults \in 0..MaxFaults
  BY DEF TypeOK
<1> DEFINE G == /\ pc' \in [Procs -> Locations] /\ arg' \in [Procs -> Args]
                /\ waiting' \subseteq Requests
                /\ readable' \subseteq {"path", "env", "incluster"} /\ faults' \in 0..MaxFaults
                /\ HandlerInv'
<1>1. ASSUME NEW p \in Procs, Handler(p) \/ CallFails(p)
      PROVE  G
  <2>1. (Goes(p) \/ Restarted) /\ Aside
    BY <1>1, HandlerGoes
  <2>2. CASE Goes(p)
    BY <1>0, <2>1, <2>2, GoesKeepsHandler DEF Aside, Goes
  <2>3. CASE Restarted
    BY <1>0, <2>1, <2>3, RestartedKeepsHandler, RestartedTyped DEF Aside
  <2> QED
    BY <2>1, <2>2, <2>3
<1>2. ASSUME NEW p \in Procs, Return(p)
      PROVE  G
  <2>1. /\ waiting' \subseteq Requests /\ UNCHANGED <<readable, faults>>
    BY <1>0, <1>2 DEF Return
  <2> QED
    BY <1>0, <1>2, <2>1, ReturnKeepsHandler
<1>3. CASE Calls
  <2>1. UNCHANGED <<readable, faults>>
    BY <1>3, CallsBegin DEF Begins
  <2>2. ASSUME NEW about \in Volumes \cup {"snap"}, NEW l, NEW k, Call(about, l, k),
               \/ l \in {"create_start", "expand_get"} /\ about = "vol"
               \/ l = "delete_get" /\ about \in Volumes
               \/ l \in {"snap_get", "unsnap_get"} /\ about = "snap"
        PROVE  G
    BY <1>0, <2>1, <2>2, CallKeepsHandler
  <2>3. "vol" \in Volumes
    BY DEF Volumes
  <2>4. ASSUME CallCreate
        PROVE  G
    <3>1. Call("vol", "create_start", [co EXCEPT !.vol = "maybe"])
      BY <2>4 DEF CallCreate
    <3> HIDE DEF G
    <3> QED
      BY <2>2, <2>3, <3>1
  <2>5. ASSUME CallExpand
        PROVE  G
    <3>1. Call("vol", "expand_get", co)
      BY <2>5 DEF CallExpand
    <3> HIDE DEF G
    <3> QED
      BY <2>2, <2>3, <3>1
  <2>6. ASSUME CallSnapshot
        PROVE  G
    <3>1. Call("snap", "snap_get", [co EXCEPT !.snap = "maybe"])
      BY <2>6 DEF CallSnapshot
    <3> HIDE DEF G
    <3> QED
      BY <2>2, <3>1
  <2>7. ASSUME CallUnsnapshot
        PROVE  G
    <3>1. Call("snap", "unsnap_get", [co EXCEPT !.snap = "deleting"])
      BY <2>7 DEF CallUnsnapshot
    <3> HIDE DEF G
    <3> QED
      BY <2>2, <3>1
  <2>8. ASSUME NEW v \in Volumes, CallDelete(v)
        PROVE  G
    <3>1. Call(v, "delete_get", [co EXCEPT ![v] = "deleting"])
      BY <2>8 DEF CallDelete
    <3> HIDE DEF G
    <3> QED
      BY <2>2, <2>8, <3>1
  <2> QED
    BY <1>3, <2>4, <2>5, <2>6, <2>7, <2>8 DEF Calls
<1>4. CASE CallStage
  <2>1. /\ pc["node"] = "idle" /\ pc' = [pc EXCEPT !["node"] = "stage_start"]
        /\ UNCHANGED <<arg, waiting, readable, faults>>
    BY <1>4 DEF CallStage, Goto
  <2>2. "stage_start" \in Locations /\ "stage_start" \in Staging
        /\ "stage_start" \notin Creating \cup Expanding \cup Deleting \cup Snapping \cup Unsnapping
    BY DEF Locations, Staging, Creating, Expanding, Deleting, Snapping, Unsnapping
  <2>3. "node" \in Procs /\ "node" \notin Requests /\ Requests \subseteq Procs
    BY LifeAssumption DEF Procs
  <2>4. HandlerInv'
    <3>1. pc'["node"] = "stage_start" /\ \A q \in Procs \ {"node"} : pc'[q] = pc[q]
      BY <1>0, <2>1, <2>3
    <3>2. \A q \in waiting' : q # "node" /\ q \in Procs
      BY <1>0, <2>1, <2>3
    <3> QED
      BY <2>1, <2>2, <3>1, <3>2 DEF HandlerInv
  <2> QED
    BY <1>0, <2>1, <2>2, <2>4
<1>5. CASE ControllerCrash
  BY <1>0, <1>5, FaultCounted, RestartedKeepsHandler, RestartedTyped DEF ControllerCrash
<1>6. CASE Users \/ Operates \/ Surroundings \/ UNCHANGED vars
  <2>1. UNCHANGED <<pc, arg>> /\ waiting' \subseteq waiting
    BY <1>6, StillControl
  <2>2. readable' \subseteq {"path", "env", "incluster"}
    BY <1>0, <1>6 DEF Users, Want, GiveUp, Operates, Bind, Resize, Reap, Collect,
         Surroundings, Unstage, CallTimeout, ConfigLost, ConfigBack, vars
  <2>3. faults' \in 0..MaxFaults
    <3>1. UNCHANGED faults \/ \E k : Fault(k)
      BY <1>6 DEF Users, Want, GiveUp, Operates, Bind, Resize, Reap, Collect,
           Surroundings, Unstage, CallTimeout, ConfigLost, ConfigBack, vars
    <3> QED
      BY <3>1, FaultCounted
  <2>4. HandlerInv'
    BY <2>1 DEF HandlerInv
  <2> QED
    BY <1>0, <2>1, <2>2, <2>3, <2>4
<1> QED
  BY <1>1, <1>2, <1>3, <1>4, <1>5, <1>6, NextCases

\* The invariant the others are proved from.
BaseInv == TypeOK /\ HandlerInv /\ CreateInv

\* Every step keeps BaseInv.
LEMMA BaseStep ==
  ASSUME BaseInv, [Next]_vars
  PROVE  BaseInv'
<1>1. TypeOK /\ HandlerInv /\ CreateInv
  BY DEF BaseInv
<1>2. CreateInv' /\ UNCHANGED req
  BY <1>1, CreateStep, ReqFixed
<1>3. snaps' \subseteq {SnapshotID}
  BY <1>1, SnapSteps DEF SnapStep, TypeOK
<1>4. cva' \in CVA!Objects
  <2>1. cva \in CVA!Objects /\ arg["node"].vol \in CVA!Objects /\ "node" \in Strings
    BY <1>1, StringsAssumption DEF TypeOK, Args, Procs
  <2>2. [arg["node"].vol EXCEPT !.ownerNodeID = "node"] \in CVA!Objects
    BY <2>1 DEF CVA!Objects
  <2> QED
    BY <1>1, <2>1, <2>2, AttachSteps, ZeroCVA DEF AttachStep
<1>5. req' \in VolumeRequests
  BY <1>1, <1>2 DEF TypeOK
<1>6. TypeOK'
  BY <1>1, <1>3, <1>4, <1>5, CoTyped, StoreTyped, ControlStep DEF TypeOK
<1> QED
  BY <1>1, <1>2, <1>6, ControlStep DEF BaseInv

\* It holds at the start.
LEMMA BaseInit == Init => BaseInv
<1> SUFFICES ASSUME Init
             PROVE  BaseInv
  OBVIOUS
<1>1. req \in VolumeRequests /\ "src" \in Volumes
  BY DEF Init, Volumes
<1>2. SourceCVC \in CVC!Objects
  <2>1. (CHOOSE n \in Nodes : TRUE) \in Strings
    BY LifeAssumption, StringsAssumption
  <2>2. /\ <<"cspc", "pool">> \in Strings \X Strings /\ "src" \in Strings
        /\ OpenEBSNamespace \in Strings
    BY StringsAssumption
  <2> QED
    BY <2>1, <2>2, ZeroCVC DEF SourceCVC, CVC!Objects
<1>3. /\ DOMAIN cvc \subseteq Volumes /\ cvc \in [DOMAIN cvc -> CVC!Objects]
      /\ cv \subseteq Volumes
  BY <1>1, <1>2 DEF Init
<1>4. snaps \subseteq {SnapshotID} /\ cva \in CVA!Objects
  BY ZeroCVA DEF Init
<1>5. /\ pc = [p \in Procs |-> "idle"] /\ arg = [p \in Procs |-> NoArg] /\ waiting = {}
      /\ readable = {"path", "env", "incluster"} /\ faults = 0
  BY DEF Init
<1>6. pc \in [Procs -> Locations] /\ arg \in [Procs -> Args]
  BY <1>5, NoArgs DEF Locations
<1>7. co \in CoTypes
  BY DEF Init, CoTypes, Volumes
<1>8. TypeOK
  <2>1. faults \in 0..MaxFaults
    <3>1. MaxFaults \in Nat
      BY LifeAssumption
    <3>2. faults = 0
      BY <1>5
    <3> QED
      BY <3>1, <3>2
  <2> QED
    BY <1>1, <1>3, <1>4, <1>5, <1>6, <1>7, <2>1 DEF TypeOK
<1>9. HandlerInv
  BY <1>5 DEF HandlerInv, Creating, Deleting, Expanding, Snapping, Unsnapping, Staging
<1>10. CreateInv
  <2>1. "idle" \notin Creating /\ Requests \subseteq Procs
    BY DEF Creating, Procs
  <2> QED
    BY <1>5, <2>1, CreateAts
<1> QED
  BY <1>8, <1>9, <1>10 DEF BaseInv

\* It is an invariant.
LEMMA Base == Spec => []BaseInv
<1>1. BaseInv /\ [Next]_vars => BaseInv'
  BY BaseStep
<1> QED
  BY <1>1, BaseInit, PTL DEF Spec

\* Every variable keeps its type, for every set of requests, goroutines and nodes:
\* what the builders make and the patches leave are CVCs and CVAs (VolumeLife.TypeOK).
THEOREM LifeTypes == Spec => []TypeOK
<1>1. BaseInv => TypeOK
  BY DEF BaseInv
<1> QED
  BY <1>1, Base, PTL

-----------------------------------------------------------------------------
(* Finalizers *)

\* Every step keeps FinalizerInv: ProvisionVolume sets the finalizer, a Delete adds
\* to it, no patch takes it, and the operator does so with the CV.
LEMMA FinalizerStep ==
  ASSUME BaseInv, FinalizerInv, [Next]_vars
  PROVE  FinalizerInv'
<1>1. TypeOK /\ HandlerInv /\ CreateInv
  BY DEF BaseInv
<1>2. StoreStep
  BY <1>1, StoreSteps
<1>3. CASE UNCHANGED <<cvc, cv>>
  BY <1>3 DEF FinalizerInv, Found
<1>4. CASE Posted
  BY <1>4 DEF FinalizerInv, Posted, Found, Fresh
<1>5. ASSUME NEW v \in DOMAIN cvc, Marked(v)
      PROVE  FinalizerInv'
  BY <1>5 DEF FinalizerInv, Marked, Edited, Found
<1>6. ASSUME NEW v \in DOMAIN cvc, Grown(v)
      PROVE  FinalizerInv'
  BY <1>6 DEF FinalizerInv, Grown, Guarded, Edited, Found
<1>7. ASSUME NEW v \in DOMAIN cvc, Served(v)
      PROVE  FinalizerInv'
  BY <1>7 DEF FinalizerInv, Served, Guarded, Edited, Found
<1>8. ASSUME NEW v \in DOMAIN cvc, Released(v)
      PROVE  FinalizerInv'
  BY <1>8 DEF FinalizerInv, Released, Dropped, Edited, Found
<1> QED
  BY <1>2, <1>3, <1>4, <1>5, <1>6, <1>7, <1>8 DEF StoreStep

\* The CV of a volume never outlives its CVC (builder and DeleteVolume with the
\* operator's finalizer).
THEOREM CVsAreFound == Spec => []NoOrphanCV
<1>1. Init => FinalizerInv
  <2>1. SourceCVC.finalizers = {"cvc"}
    BY DEF SourceCVC, CVC!Zero
  <2>2. Init => /\ cv = {"src"} /\ DOMAIN cvc = {"src"}
                /\ cvc["src"] = SourceCVC
    BY DEF Init
  <2> QED
    BY <2>1, <2>2 DEF FinalizerInv, Found
<1>2. BaseInv /\ FinalizerInv /\ [Next]_vars => FinalizerInv'
  BY FinalizerStep
<1>3. FinalizerInv => NoOrphanCV
  BY DEF FinalizerInv, NoOrphanCV, Found
<1> QED
  BY <1>1, <1>2, <1>3, Base, PTL DEF Spec

-----------------------------------------------------------------------------
(* What the sidecars know *)

\* The sidecar that waits for p gets its answer.
Told(p) == /\ p \in waiting /\ pc[p] \in Ends
           /\ co' = Learn(co, arg[p].about, pc[p])

\* What the sidecars want and know changes only with an answer, a call or a user.
LEMMA CoCases ==
  ASSUME TypeOK, HandlerInv, [Next]_vars
  PROVE  \/ UNCHANGED co
         \/ \E p \in Requests : Return(p) /\ Told(p)
         \/ Calls
         \/ Users
<1>1. ASSUME NEW p \in Procs, Handler(p) \/ CallFails(p)
      PROVE  UNCHANGED co
  BY <1>1, HandlerGoes DEF Aside
<1>2. ASSUME NEW p \in Procs, Return(p), ~UNCHANGED co
      PROVE  p \in Requests /\ Told(p)
  BY <1>2 DEF Return, Told, TypeOK
<1>3. CallStage \/ ControllerCrash \/ Operates \/ Surroundings \/ UNCHANGED vars
        => UNCHANGED co
  BY DEF CallStage, ControllerCrash, Operates, Bind, Resize, Reap, Collect,
       Surroundings, Unstage, CallTimeout, ConfigLost, ConfigBack, vars
<1> QED
  BY <1>1, <1>2, <1>3, NextCases

\* What a sidecar knows when its answer is ready.
LEMMA EndKinds ==
  ASSUME TypeOK, HandlerInv, AskedInv, NEW p \in waiting
  PROVE  /\ p \in Requests /\ p \in Procs
         /\ pc[p] = "create_ok" => co.vol = "maybe" /\ arg[p].about = "vol"
         /\ pc[p] = "expand_ok" => co.vol = "yes" /\ arg[p].about = "vol"
         /\ pc[p] = "snap_ok" => co.snap = "maybe" /\ arg[p].about = "snap"
         /\ pc[p] = "delete_ok" => /\ arg[p].about \in Volumes
                                   /\ co[arg[p].about] = "deleting"
         /\ pc[p] = "unsnap_ok" => arg[p].about = "snap" /\ co.snap \in Ending
<1>1. p \in Requests /\ p \in Procs
  BY DEF TypeOK, Procs
<1>2. /\ "create_ok" \in Creating /\ "expand_ok" \in Expanding /\ "snap_ok" \in Snapping
      /\ "delete_ok" \in Deleting /\ "unsnap_ok" \in Unsnapping
  BY DEF Creating, Expanding, Snapping, Deleting, Unsnapping
<1> QED
  BY <1>1, <1>2 DEF HandlerInv, AskedInv

\* What somebody has asked to delete stays so: no late answer to an earlier call
\* brings it back.
LEMMA EndingStays ==
  ASSUME TypeOK, HandlerInv, AskedInv, [Next]_vars, NEW x \in Volumes \cup {"snap"},
         co[x] \in Ending
  PROVE  co'[x] \in Ending
<1>1. co \in CoTypes /\ x \in {"vol", "src", "snap"}
  BY DEF TypeOK, Volumes
<1>2. CASE UNCHANGED co
  BY <1>2
<1>3. ASSUME NEW p \in Requests, Told(p)
      PROVE  co'[x] \in Ending
  <2>1. p \in waiting /\ co' = Learn(co, arg[p].about, pc[p])
    BY <1>3 DEF Told
  <2>2. CASE pc[p] = "create_ok"
    BY <1>1, <2>1, <2>2, LearnIs, EndKinds DEF Ending, CoTypes
  <2>3. CASE pc[p] = "expand_ok"
    BY <1>1, <2>1, <2>3, LearnIs, EndKinds DEF Ending, CoTypes
  <2>4. CASE pc[p] = "snap_ok"
    BY <1>1, <2>1, <2>4, LearnIs, EndKinds DEF Ending, CoTypes
  <2>5. CASE pc[p] \in {"delete_ok", "unsnap_ok"}
    BY <1>1, <2>1, <2>5, LearnIs, EndKinds DEF Ending, CoTypes, Volumes
  <2>6. CASE pc[p] \notin {"create_ok", "expand_ok", "snap_ok", "delete_ok", "unsnap_ok"}
    BY <1>1, <2>1, <2>6, LearnIs
  <2> QED
    BY <2>2, <2>3, <2>4, <2>5, <2>6
<1>4. CASE Calls
  <2>1. CASE CallCreate
    BY <1>1, <2>1 DEF CallCreate, Call, CoTypes, Ending
  <2>2. CASE CallExpand
    BY <2>2 DEF CallExpand, Call
  <2>3. CASE CallSnapshot
    BY <1>1, <2>3 DEF CallSnapshot, Call, CoTypes, Ending
  <2>4. CASE CallUnsnapshot
    BY <1>1, <2>4 DEF CallUnsnapshot, Call, CoTypes, Ending
  <2>5. ASSUME NEW v \in Volumes, CallDelete(v)
        PROVE  co'[x] \in Ending
    BY <1>1, <2>5 DEF CallDelete, Call, CoTypes, Ending, Volumes
  <2> QED
    BY <1>4, <2>1, <2>2, <2>3, <2>4, <2>5 DEF Calls
<1>5. CASE Users
  <2>1. CASE Want
    BY <1>1, <2>1 DEF Want, CoTypes
  <2>2. ASSUME NEW y \in Volumes \cup {"snap"}, GiveUp(y)
        PROVE  co'[x] \in Ending
    <3>1. y \in {"vol", "src", "snap"}
      BY DEF Volumes
    <3> QED
      BY <1>1, <2>2, <3>1 DEF GiveUp, CoTypes, Ending
  <2> QED
    BY <1>5, <2>1, <2>2 DEF Users
<1> QED
  BY <1>2, <1>3, <1>4, <1>5, CoCases

\* The answer of p about x has been taken.
Answers(p, x) == p \in waiting /\ p \notin waiting' /\ arg[p].about = x

\* How what a sidecar knows about x may change.  While one waits for a handler about
\* x, only the answer of that handler changes it.
CoMove(x) ==
  \/ co'[x] = co[x]
  \/ co[x] = "none" /\ co'[x] \in {"maybe", "gone"}
  \/ /\ co[x] = "maybe" /\ co'[x] = "yes"
     /\ \E p \in waiting : /\ Answers(p, x)
                           /\ pc[p] = IF x = "vol" THEN "create_ok" ELSE "snap_ok"
  \/ /\ co[x] \in {"maybe", "yes", "deleting"} /\ co'[x] = "deleting"
     /\ \A p \in waiting : arg[p].about # x
  \/ /\ co[x] \in Ending /\ co'[x] = "gone"
     /\ \E p \in waiting : Answers(p, x) /\ pc[p] \in {"delete_ok", "unsnap_ok"}

\* Every step is a CoMove.
LEMMA CoMoves ==
  ASSUME TypeOK, HandlerInv, AskedInv, [Next]_vars, NEW x \in {"vol", "src", "snap"}
  PROVE  CoMove(x)
<1>1. co \in CoTypes
  BY DEF TypeOK
<1>2. CASE UNCHANGED co
  BY <1>2 DEF CoMove
<1>3. ASSUME NEW p \in Requests, Return(p), Told(p)
      PROVE  CoMove(x)
  <2>1. p \in waiting /\ co' = Learn(co, arg[p].about, pc[p])
    BY <1>3 DEF Told
  <2>2. p \notin waiting'
    BY <1>3 DEF Return
  <2>3. CASE pc[p] = "create_ok"
    <3>1. /\ co' = [co EXCEPT !.vol = "yes"] /\ co.vol = "maybe" /\ arg[p].about = "vol"
      BY <1>1, <2>1, <2>3, LearnIs, EndKinds
    <3> QED
      BY <1>1, <2>1, <2>2, <2>3, <3>1 DEF CoMove, CoTypes, Answers
  <2>4. CASE pc[p] = "expand_ok"
    BY <1>1, <2>1, <2>4, LearnIs DEF CoTypes, CoMove
  <2>5. CASE pc[p] = "snap_ok"
    <3>1. /\ co' = [co EXCEPT !.snap = "yes"] /\ co.snap = "maybe" /\ arg[p].about = "snap"
      BY <1>1, <2>1, <2>5, LearnIs, EndKinds
    <3> QED
      BY <1>1, <2>1, <2>2, <2>5, <3>1 DEF CoMove, CoTypes, Answers
  <2>6. CASE pc[p] \in {"delete_ok", "unsnap_ok"}
    <3> DEFINE a == arg[p].about
    <3>1. a \in {"vol", "src", "snap"} /\ co[a] \in Ending
      BY <2>1, <2>6, EndKinds DEF Volumes, Ending
    <3>2. co' = [co EXCEPT ![a] = "gone"]
      BY <1>1, <2>1, <2>6, LearnIs
    <3>3. a = x => Answers(p, x)
      BY <2>1, <2>2 DEF Answers
    <3> HIDE DEF a
    <3>4. CASE a = x
      <4>1. co'[x] = "gone" /\ co[x] \in Ending
        BY <1>1, <3>1, <3>2, <3>4 DEF CoTypes
      <4> QED
        BY <2>1, <2>6, <3>3, <3>4, <4>1 DEF CoMove
    <3>5. CASE a # x
      BY <1>1, <3>1, <3>2, <3>5 DEF CoMove, CoTypes
    <3> QED
      BY <3>4, <3>5
  <2>7. CASE pc[p] \notin {"create_ok", "expand_ok", "snap_ok", "delete_ok", "unsnap_ok"}
    BY <1>1, <2>1, <2>7, LearnIs DEF CoMove
  <2> QED
    BY <2>3, <2>4, <2>5, <2>6, <2>7
<1>4. CASE Calls
  <2>1. CASE CallCreate
    BY <1>1, <2>1 DEF CallCreate, Call, CoTypes, CoMove
  <2>2. CASE CallExpand
    BY <2>2 DEF CallExpand, Call, CoMove
  <2>3. CASE CallSnapshot
    BY <1>1, <2>3 DEF CallSnapshot, Call, CoTypes, CoMove
  <2>4. CASE CallUnsnapshot
    BY <1>1, <2>4 DEF CallUnsnapshot, Call, CoTypes, CoMove
  <2>5. ASSUME NEW v \in Volumes, CallDelete(v)
        PROVE  CoMove(x)
    <3>1. /\ co' = [co EXCEPT ![v] = "deleting"] /\ v \in {"src", "vol"}
          /\ co[v] \in {"maybe", "yes", "deleting"}
          /\ \A p \in waiting : arg[p].about # v
      BY <2>5 DEF CallDelete, Call, Volumes
    <3> QED
      BY <1>1, <3>1 DEF CoTypes, CoMove
  <2> QED
    BY <1>4, <2>1, <2>2, <2>3, <2>4, <2>5 DEF Calls
<1>5. CASE Users
  <2>1. CASE Want
    BY <1>1, <2>1 DEF Want, CoTypes, CoMove
  <2>2. ASSUME NEW y \in Volumes \cup {"snap"}, GiveUp(y)
        PROVE  CoMove(x)
    <3>1. y \in {"vol", "src", "snap"}
      BY DEF Volumes
    <3>2. co' = [co EXCEPT !.want = @ \ {y}, ![y] = IF @ = "none" THEN "gone" ELSE @]
      BY <2>2 DEF GiveUp
    <3>3. co'[x] = co[x] \/ (co[x] = "none" /\ co'[x] = "gone")
      BY <1>1, <3>1, <3>2 DEF CoTypes
    <3> QED
      BY <3>3 DEF CoMove
  <2> QED
    BY <1>5, <2>1, <2>2 DEF Users
<1> QED
  BY <1>2, <1>3, <1>4, <1>5, CoCases

\* Nothing changes for a sidecar that goes on waiting.
LEMMA CoWaits ==
  ASSUME TypeOK, HandlerInv, AskedInv, [Next]_vars, NEW q \in waiting, q \in waiting',
         NEW x \in {"vol", "src", "snap"}, arg[q].about = x, co[x] # "none"
  PROVE  co'[x] = co[x]
<1>1. CoMove(x)
  BY CoMoves
<1>2. \A p \in waiting : arg[p].about = x => p = q
  BY DEF HandlerInv
<1> QED
  BY <1>1, <1>2 DEF CoMove, Answers

\* What is known when a handler has just been called.
LEMMA Called ==
  ASSUME TypeOK, HandlerInv, [Next]_vars, NEW q \in waiting', q \notin waiting
  PROVE  /\ q \in Requests
         /\ pc'[q] \in Starts /\ arg'[q].about \in Volumes \cup {"snap"}
         /\ pc'[q] = "create_start" => co'.vol = "maybe"
         /\ pc'[q] = "expand_get" => co'.vol = "yes"
         /\ pc'[q] = "delete_get" => co'[arg'[q].about] = "deleting"
         /\ pc'[q] = "snap_get" => co'.snap = "maybe"
         /\ pc'[q] = "unsnap_get" => co'.snap = "deleting"
<1>1. pc \in [Procs -> Locations] /\ arg \in [Procs -> Args] /\ waiting \subseteq Requests
  BY DEF TypeOK
<1>2. ASSUME NEW about \in Volumes \cup {"snap"}, NEW l, NEW k, Call(about, l, k)
      PROVE  q \in Requests /\ pc'[q] = l /\ arg'[q].about = about /\ co' = k
  <2>1. PICK p \in Requests : /\ pc[p] = "idle" /\ Goto(p, l)
                              /\ arg' = [arg EXCEPT ![p] = [NoArg EXCEPT !.about = about]]
                              /\ waiting' = waiting \cup {p}
    BY <1>2 DEF Call
  <2>2. p = q /\ co' = k /\ q \in Requests
    BY <1>2, <2>1 DEF Call
  <2>3. q \in Procs /\ [NoArg EXCEPT !.about = about].about = about
    BY <2>2 DEF Procs, NoArg
  <2> QED
    BY <1>1, <2>1, <2>2, <2>3 DEF Goto
<1>3. Calls
  <2>1. ASSUME NEW p \in Procs, Handler(p) \/ CallFails(p)
        PROVE  waiting' \subseteq waiting
    <3>1. Goes(p) \/ Restarted
      BY <2>1, HandlerGoes
    <3> QED
      BY <3>1 DEF Goes, Restarted
  <2>2. ASSUME NEW p \in Procs, Return(p)
        PROVE  waiting' \subseteq waiting
    BY <2>2 DEF Return
  <2>3. CallStage \/ ControllerCrash => waiting' \subseteq waiting
    BY DEF CallStage, ControllerCrash, Restarted
  <2> QED
    BY <2>1, <2>2, <2>3, NextCases, StillControl
<1>4. co \in CoTypes /\ "vol" \in Volumes
  BY DEF TypeOK, Volumes
<1>5. CASE CallCreate
  <2>1. Call("vol", "create_start", [co EXCEPT !.vol = "maybe"])
    BY <1>5 DEF CallCreate
  <2>2. pc'[q] = "create_start" /\ arg'[q].about = "vol" /\ co' = [co EXCEPT !.vol = "maybe"]
        /\ q \in Requests
    BY <1>2, <1>4, <2>1
  <2> QED
    BY <1>4, <2>2 DEF CoTypes, Starts
<1>6. CASE CallExpand
  <2>1. Call("vol", "expand_get", co) /\ co.vol = "yes"
    BY <1>6 DEF CallExpand
  <2>2. pc'[q] = "expand_get" /\ arg'[q].about = "vol" /\ co' = co /\ q \in Requests
    BY <1>2, <1>4, <2>1
  <2> QED
    BY <1>4, <2>1, <2>2 DEF Starts
<1>7. CASE CallSnapshot
  <2>1. Call("snap", "snap_get", [co EXCEPT !.snap = "maybe"])
    BY <1>7 DEF CallSnapshot
  <2>2. pc'[q] = "snap_get" /\ arg'[q].about = "snap" /\ co' = [co EXCEPT !.snap = "maybe"]
        /\ q \in Requests
    BY <1>2, <2>1
  <2> QED
    BY <1>4, <2>2 DEF CoTypes, Starts
<1>8. CASE CallUnsnapshot
  <2>1. Call("snap", "unsnap_get", [co EXCEPT !.snap = "deleting"])
    BY <1>8 DEF CallUnsnapshot
  <2>2. pc'[q] = "unsnap_get" /\ arg'[q].about = "snap" /\ q \in Requests
        /\ co' = [co EXCEPT !.snap = "deleting"]
    BY <1>2, <2>1
  <2> QED
    BY <1>4, <2>2 DEF CoTypes, Starts
<1>9. ASSUME NEW v \in Volumes, CallDelete(v)
      PROVE  /\ pc'[q] = "delete_get" /\ arg'[q].about = v /\ q \in Requests
             /\ co'[v] = "deleting"
  <2>1. Call(v, "delete_get", [co EXCEPT ![v] = "deleting"]) /\ v \in {"src", "vol"}
    BY <1>9 DEF CallDelete, Volumes
  <2>2. pc'[q] = "delete_get" /\ arg'[q].about = v /\ q \in Requests
        /\ co' = [co EXCEPT ![v] = "deleting"]
    BY <1>2, <2>1
  <2> QED
    BY <1>4, <2>1, <2>2 DEF CoTypes
<1> QED
  BY <1>3, <1>5, <1>6, <1>7, <1>8, <1>9 DEF Calls, Starts

\* Where handlers of each kind begin.
LEMMA StartKinds ==
  /\ "create_start" \in Creating /\ "expand_get" \in Expanding /\ "delete_get" \in Deleting
  /\ "snap_get" \in Snapping /\ "unsnap_get" \in Unsnapping /\ "stage_start" \in Staging
  /\ \A l \in Starts \cup {"stage_start"} :
       /\ l # "create_start" => l \notin Creating
       /\ l # "expand_get" => l \notin Expanding
       /\ l # "delete_get" => l \notin Deleting
       /\ l # "snap_get" => l \notin Snapping
       /\ l # "unsnap_get" => l \notin Unsnapping
       /\ l # "stage_start" => l \notin Staging
  /\ "idle" \notin Creating \cup Expanding \cup Deleting \cup Snapping \cup Unsnapping
                   \cup Staging
BY DEF Starts, Creating, Expanding, Deleting, Snapping, Unsnapping, Staging

\* A volume is marked for deletion only when somebody has asked for it, also by a
\* handler that nobody waits for any more.
LEMMA MarkedEnding ==
  ASSUME BaseInv, AskedInv, [Next]_vars, NEW v \in DOMAIN cvc', cvc'[v].deleting
  PROVE  v \in DOMAIN cvc /\ v \in Volumes /\ co[v] \in Ending
<1>1. TypeOK /\ HandlerInv /\ CreateInv
  BY DEF BaseInv
<1>2. StoreStep /\ DOMAIN cvc \subseteq Volumes
  BY <1>1, StoreSteps DEF TypeOK
<1>3. v \in DOMAIN cvc /\ (cvc[v].deleting \/ Marked(v))
  <2>1. CASE UNCHANGED <<cvc, cv>>
    BY <2>1
  <2>2. CASE Posted
    BY <2>2 DEF Posted, Fresh
  <2>3. ASSUME NEW w \in DOMAIN cvc, Marked(w)
        PROVE  v \in DOMAIN cvc /\ (cvc[v].deleting \/ Marked(v))
    BY <2>3 DEF Marked, Edited
  <2>4. ASSUME NEW w \in DOMAIN cvc, Grown(w) \/ Served(w) \/ Released(w)
        PROVE  v \in DOMAIN cvc /\ cvc[v].deleting
    BY <2>4 DEF Grown, Served, Released, Edited, Dropped, Guarded
  <2> QED
    BY <1>2, <2>1, <2>2, <2>3, <2>4 DEF StoreStep
<1>4. CASE cvc[v].deleting
  BY <1>2, <1>3, <1>4 DEF AskedInv
<1>5. CASE Marked(v)
  <2>1. PICK p \in Requests : pc[p] = "delete_del" /\ arg[p].about = v
    BY <1>5 DEF Marked
  <2> QED
    BY <1>2, <1>3, <2>1 DEF AskedInv, Deleting
<1> QED
  BY <1>3, <1>4, <1>5

\* Every step keeps AskedInv.
LEMMA AskedStep ==
  ASSUME BaseInv, AskedInv, [Next]_vars
  PROVE  AskedInv'
<1>1. TypeOK /\ HandlerInv /\ CreateInv
  BY DEF BaseInv
<1>2. \A v \in DOMAIN cvc' : cvc'[v].deleting => co'[v] \in Ending
  BY <1>1, MarkedEnding, EndingStays
<1>3. ASSUME NEW q \in waiting', q \in waiting
      PROVE  /\ pc'[q] \in Creating => co'.vol = "maybe"
             /\ pc'[q] \in Expanding => co'.vol = "yes"
             /\ pc'[q] \in Deleting => co'[arg'[q].about] = "deleting"
             /\ pc'[q] \in Snapping => co'.snap = "maybe"
  <2>1. q \in Procs /\ q \in Requests /\ pc[q] # "idle"
    BY <1>1, <1>3 DEF TypeOK, Procs, HandlerInv
  <2>2. /\ (pc'[q] \in Creating) = (pc[q] \in Creating)
        /\ (pc'[q] \in Expanding) = (pc[q] \in Expanding)
        /\ (pc'[q] \in Deleting) = (pc[q] \in Deleting)
        /\ (pc'[q] \in Snapping) = (pc[q] \in Snapping)
        /\ arg'[q].about = arg[q].about
    <3>1. \/ pc'[q] = pc[q] /\ arg'[q] = arg[q]
          \/ SameKind(pc[q], pc'[q]) /\ arg'[q].about = arg[q].about
      BY <1>1, <1>3, <2>1, Movement DEF Goes
    <3> QED
      BY <3>1, KindsDiffer
  <2>3. CASE pc[q] \in Creating \cup Expanding
    <3>1. arg[q].about = "vol" /\ co.vol \in {"maybe", "yes"}
      BY <1>1, <1>3, <2>1, <2>3 DEF HandlerInv, AskedInv
    <3>2. co'.vol = co.vol
      BY <1>1, <1>3, <3>1, CoWaits
    <3>3. pc[q] \notin Deleting /\ pc[q] \notin Snapping
      BY <2>3 DEF Creating, Expanding, Deleting, Snapping
    <3> QED
      BY <1>3, <2>2, <3>2, <3>3 DEF AskedInv
  <2>4. CASE pc[q] \in Deleting
    <3>1. arg[q].about \in {"vol", "src", "snap"} /\ co[arg[q].about] = "deleting"
      BY <1>1, <1>3, <2>1, <2>4 DEF HandlerInv, AskedInv, Volumes
    <3>2. co'[arg[q].about] = co[arg[q].about]
      BY <1>1, <1>3, <3>1, CoWaits
    <3>3. pc[q] \notin Creating /\ pc[q] \notin Expanding /\ pc[q] \notin Snapping
      BY <2>4 DEF Creating, Expanding, Deleting, Snapping
    <3> QED
      BY <2>2, <3>1, <3>2, <3>3
  <2>5. CASE pc[q] \in Snapping
    <3>1. arg[q].about = "snap" /\ co.snap = "maybe"
      BY <1>1, <1>3, <2>1, <2>5 DEF HandlerInv, AskedInv
    <3>2. co'.snap = co.snap
      BY <1>1, <1>3, <3>1, CoWaits
    <3>3. pc[q] \notin Creating /\ pc[q] \notin Expanding /\ pc[q] \notin Deleting
      BY <2>5 DEF Creating, Expanding, Deleting, Snapping
    <3> QED
      BY <2>2, <3>1, <3>2, <3>3
  <2> QED
    BY <2>2, <2>3, <2>4, <2>5
<1>4. ASSUME NEW q \in waiting', q \notin waiting
      PROVE  /\ pc'[q] \in Creating => co'.vol = "maybe"
             /\ pc'[q] \in Expanding => co'.vol = "yes"
             /\ pc'[q] \in Deleting => co'[arg'[q].about] = "deleting"
             /\ pc'[q] \in Snapping => co'.snap = "maybe"
  BY <1>1, <1>4, Called, StartKinds
<1>5. ASSUME NEW q \in Requests
      PROVE  /\ pc'[q] \in Deleting => co'[arg'[q].about] \in Ending
             /\ pc'[q] \in Unsnapping => co'.snap \in Ending
  <2>1. q \in Procs
    BY DEF Procs
  <2>2. CASE \/ pc'[q] = pc[q] /\ arg'[q] = arg[q]
             \/ SameKind(pc[q], pc'[q]) /\ arg'[q].about = arg[q].about
    <3>1. /\ (pc'[q] \in Deleting) = (pc[q] \in Deleting)
          /\ (pc'[q] \in Unsnapping) = (pc[q] \in Unsnapping)
          /\ arg'[q].about = arg[q].about
      BY <2>2, KindsDiffer
    <3>2. CASE pc[q] \in Deleting
      <4>1. arg[q].about \in Volumes /\ co[arg[q].about] \in Ending
        BY <1>1, <2>1, <3>2 DEF HandlerInv, AskedInv
      <4>2. co'[arg[q].about] \in Ending
        BY <1>1, <4>1, EndingStays
      <4>3. pc[q] \notin Unsnapping
        BY <3>2 DEF Deleting, Unsnapping
      <4> QED
        BY <3>1, <4>2, <4>3
    <3>3. CASE pc[q] \in Unsnapping
      <4>1. co.snap \in Ending
        BY <3>3 DEF AskedInv
      <4>2. co'.snap \in Ending
        BY <1>1, <4>1, EndingStays
      <4>3. pc[q] \notin Deleting
        BY <3>3 DEF Deleting, Unsnapping
      <4> QED
        BY <3>1, <4>2, <4>3
    <3> QED
      BY <3>1, <3>2, <3>3
  <2>3. CASE pc'[q] = "idle"
    BY <2>3, StartKinds
  <2>4. CASE pc[q] = "idle" /\ pc'[q] \in Starts \cup {"stage_start"} /\ q \in waiting'
    <3>1. q \notin waiting
      BY <1>1, <2>4 DEF HandlerInv
    <3> QED
      BY <1>1, <2>4, <3>1, Called, StartKinds DEF Ending
  <2> QED
    BY <1>1, <2>1, <2>2, <2>3, <2>4, Movement DEF Goes
<1> QED
  BY <1>2, <1>3, <1>4, <1>5 DEF AskedInv

-----------------------------------------------------------------------------
(* Deletions and snapshots *)

\* Once "src" is gone or marked it stays so: only "vol" is ever created.
LEMMA SourceStays ==
  ASSUME BaseInv, [Next]_vars, ~Found(cvc, "src") \/ cvc["src"].deleting
  PROVE  "src" \notin DOMAIN cvc' \/ cvc'["src"].deleting
<1>1. StoreStep
  BY StoreSteps DEF BaseInv
<1>2. CASE UNCHANGED <<cvc, cv>>
  BY <1>2 DEF Found
<1>3. CASE Posted
  BY <1>3 DEF Posted, Found
<1>4. ASSUME NEW v \in DOMAIN cvc, Marked(v) \/ Grown(v) \/ Served(v) \/ Released(v)
      PROVE  "src" \notin DOMAIN cvc' \/ cvc'["src"].deleting
  BY <1>4 DEF Marked, Grown, Served, Released, Guarded, Edited, Dropped, Found
<1> QED
  BY <1>1, <1>2, <1>3, <1>4 DEF StoreStep

\* Only DeleteSnapshot, and the deletion of its volume, remove a snapshot.
LEMMA SnapshotKept ==
  ASSUME BaseInv, AskedInv, [Next]_vars, SnapshotID \in snaps, co.src = "yes",
         co.snap \notin Ending
  PROVE  SnapshotID \in snaps'
<1>1. TypeOK /\ HandlerInv
  BY DEF BaseInv
<1>2. SnapStep /\ DOMAIN cvc \subseteq Volumes
  BY <1>1, SnapSteps DEF TypeOK
<1>3. \A p \in Requests : pc[p] # "unsnap_run"
  BY DEF AskedInv, Unsnapping
<1>4. \A v \in DOMAIN cvc : cvc[v].deleting => v # "src"
  BY DEF AskedInv, Ending
<1>5. SnapshotID[1] = "src"
  BY DEF SnapshotID
<1> QED
  BY <1>2, <1>3, <1>4, <1>5 DEF SnapStep

\* DeleteVolume succeeds only with the volume marked or gone.
LEMMA DeletedArrives ==
  ASSUME BaseInv, NEW q \in Requests, Goes(q), Handler(q) \/ CallFails(q),
         pc'[q] = "delete_ok", arg'[q].about = "src"
  PROVE  "src" \notin DOMAIN cvc' \/ cvc'["src"].deleting
<1>1. TypeOK /\ HandlerInv /\ q \in Procs
  BY DEF BaseInv, Procs
<1>2. pc[q] \in Deleting /\ arg[q].about = "src" /\ pc[q] \notin Ends
  BY KindsDiffer DEF Goes, Deleting
<1>3. pc \in [Procs -> Locations] /\ cvc \in [DOMAIN cvc -> CVC!Objects]
  BY <1>1 DEF TypeOK
<1>4. ~CallUnsent(q) /\ ~CallFails(q)
  <2>1. pc[q] \in {"delete_get", "delete_del"}
    BY <1>2 DEF Deleting, Ends
  <2>2. \A isNil \in BOOLEAN : OnError(pc[q], isNil) # "delete_ok"
    BY <2>1, OnErrorIs
  <2> QED
    BY <1>1, <1>3, <2>2 DEF CallUnsent, CallFails, Goto
<1>5. DeleteGet(q) \/ DeleteDel(q)
  BY <1>2, <1>4, ByKind DEF Deleting, Creating, Expanding, Snapping, Unsnapping, Staging
<1>6. CASE DeleteGet(q)
  BY <1>1, <1>2, <1>3, <1>6 DEF DeleteGet, Goto, store, Found
<1>7. CASE DeleteDel(q)
  <2>1. cvc' = IF Found(cvc, "src") THEN Deleted(cvc, "src") ELSE cvc
    BY <1>2, <1>7 DEF DeleteDel
  <2>2. CASE Found(cvc, "src")
    BY <1>3, <2>1, <2>2, DeletedStore DEF Found
  <2>3. CASE ~Found(cvc, "src")
    BY <2>1, <2>3 DEF Found
  <2> QED
    BY <2>2, <2>3
<1> QED
  BY <1>5, <1>6, <1>7

\* CreateSnapshot succeeds only with the snapshot taken.
LEMMA SnapshotArrives ==
  ASSUME BaseInv, NEW q \in Requests, Goes(q), Handler(q) \/ CallFails(q),
         pc'[q] = "snap_ok"
  PROVE  SnapshotID \in snaps'
<1>1. TypeOK /\ HandlerInv /\ q \in Procs
  BY DEF BaseInv, Procs
<1>2. pc[q] \in Snapping /\ pc[q] \notin Ends
  BY KindsDiffer DEF Goes, Snapping
<1>3. pc \in [Procs -> Locations]
  BY <1>1 DEF TypeOK
<1>4. ~CallUnsent(q) /\ ~CallFails(q) /\ ~TargetGone(q)
  <2>1. pc[q] \in {"snap_get", "snap_run"}
    BY <1>2 DEF Snapping, Ends
  <2>2. \A isNil \in BOOLEAN : OnError(pc[q], isNil) # "snap_ok"
    BY <2>1, OnErrorIs
  <2> QED
    BY <1>1, <1>3, <2>2 DEF CallUnsent, CallFails, TargetGone, Goto
<1>5. SnapGet(q) \/ SnapRun(q)
  BY <1>2, <1>4, ByKind DEF Deleting, Creating, Expanding, Snapping, Unsnapping, Staging
<1>6. ~SnapGet(q)
  BY <1>1, <1>3 DEF SnapGet, Goto
<1>7. SnapRun(q)
  BY <1>5, <1>6
<1> QED
  BY <1>1, <1>3, <1>7 DEF SnapRun, Goto

\* Every step keeps SourceInv.
LEMMA SourceStep ==
  ASSUME BaseInv, AskedInv, SourceInv, [Next]_vars
  PROVE  SourceInv'
<1>1. TypeOK /\ HandlerInv /\ co \in CoTypes
  BY DEF BaseInv, TypeOK
<1>2. CoMove("src") /\ CoMove("snap")
  BY <1>1, CoMoves
<1>3. co'.src = "gone" => "src" \notin DOMAIN cvc' \/ cvc'["src"].deleting
  <2>1. CASE co.src = "gone"
    BY <2>1, SourceStays DEF SourceInv, DeletedIsDeleted
  <2>2. CASE co'.src = "gone" /\ co.src # "gone"
    <3>1. PICK p \in waiting : Answers(p, "src") /\ pc[p] \in {"delete_ok", "unsnap_ok"}
      BY <1>1, <1>2, <2>2 DEF CoMove, CoTypes
    <3>2. p \in Requests /\ pc[p] = "delete_ok" /\ arg[p].about = "src"
      BY <1>1, <3>1, EndKinds DEF Answers
    <3> QED
      BY <3>2, SourceStays DEF SourceInv
  <2> QED
    BY <2>1, <2>2
<1>4. co'.src = "yes" => co.src = "yes"
  BY <1>1, <1>2 DEF CoMove, CoTypes
<1>5. co'.snap \notin Ending => co.snap \notin Ending
  BY <1>1, EndingStays
<1>6. co'.snap = "yes" /\ co'.src = "yes" => SnapshotID \in snaps'
  <2> SUFFICES ASSUME co'.snap = "yes", co'.src = "yes"
               PROVE  SnapshotID \in snaps'
    OBVIOUS
  <2>1. co.snap \notin Ending /\ co.src = "yes"
    BY <1>4, <1>5 DEF Ending
  <2>2. SnapshotID \in snaps
    <3>1. CASE co.snap = "yes"
      BY <2>1, <3>1 DEF SourceInv, SnapshotReal
    <3>2. CASE co.snap # "yes"
      <4>1. PICK p \in waiting : Answers(p, "snap") /\ pc[p] = "snap_ok"
        BY <1>2, <3>2 DEF CoMove
      <4>2. p \in Requests
        BY <1>1, <4>1 DEF TypeOK
      <4> QED
        BY <2>1, <4>1, <4>2 DEF SourceInv
    <3> QED
      BY <3>1, <3>2
  <2> QED
    BY <2>1, <2>2, SnapshotKept
<1>7. ASSUME NEW q \in Requests, pc'[q] = "delete_ok", arg'[q].about = "src"
      PROVE  "src" \notin DOMAIN cvc' \/ cvc'["src"].deleting
  <2>1. q \in Procs /\ "delete_ok" \notin Starts \cup {"idle", "stage_start"}
    BY DEF Procs, Starts
  <2>2. \/ pc[q] = "delete_ok" /\ arg[q].about = "src"
        \/ Goes(q) /\ (Handler(q) \/ CallFails(q))
    BY <1>1, <1>7, <2>1, Movement
  <2>3. CASE pc[q] = "delete_ok" /\ arg[q].about = "src"
    BY <2>3, SourceStays DEF SourceInv
  <2> QED
    BY <1>7, <2>2, <2>3, DeletedArrives
<1>8. ASSUME NEW q \in Requests, pc'[q] = "snap_ok", co'.src = "yes", co'.snap \notin Ending
      PROVE  SnapshotID \in snaps'
  <2>1. q \in Procs /\ "snap_ok" \notin Starts \cup {"idle", "stage_start"}
    BY DEF Procs, Starts
  <2>2. \/ pc[q] = "snap_ok"
        \/ Goes(q) /\ (Handler(q) \/ CallFails(q))
    BY <1>1, <1>8, <2>1, Movement
  <2>3. CASE pc[q] = "snap_ok"
    BY <1>4, <1>5, <1>8, <2>3, SnapshotKept DEF SourceInv
  <2> QED
    BY <1>8, <2>2, <2>3, SnapshotArrives
<1> QED
  BY <1>3, <1>6, <1>7, <1>8 DEF SourceInv, DeletedIsDeleted, SnapshotReal, Found

-----------------------------------------------------------------------------
(* Attachments, and what is bound *)

\* NodeStageVolume fills the attachment before it goes on.
LEMMA StageArrives ==
  ASSUME BaseInv, StageInv, Goes("node"), Handler("node") \/ CallFails("node"),
         pc'["node"] \in {"stage_bound", "stage_details", "stage_create"}
  PROVE  /\ Mountable(arg'["node"].vol)
         /\ pc'["node"] = "stage_create" => Connectable(arg'["node"].vol)
<1> DEFINE n == "node"
<1>1. TypeOK /\ HandlerInv /\ n \in Procs /\ req \in VolumeRequests
  BY DEF BaseInv, TypeOK, Procs
<1>2. pc[n] \in Staging /\ pc[n] \notin Ends
  BY KindsDiffer DEF Goes, Staging
<1>3. pc \in [Procs -> Locations] /\ arg \in [Procs -> Args]
  BY <1>1 DEF TypeOK
<1>4. ~CallUnsent(n) /\ ~CallFails(n)
  <2>1. \A isNil \in BOOLEAN : pc[n] \in {"stage_bound", "stage_details", "stage_create"}
          => OnError(pc[n], isNil) = "stage_err"
    BY OnErrorIs
  <2>2. pc[n] \in DOMAIN APICall \cup TargetCalls
          => pc[n] \in {"stage_bound", "stage_details", "stage_create"}
    BY <1>2, APICalls DEF Staging, Ends, TargetCalls
  <2> QED
    BY <1>1, <1>3, <2>1, <2>2 DEF CallUnsent, CallFails, Goto
<1>5. StageStart(n) \/ StageBound(n) \/ StageDetails(n) \/ StageCreate(n)
  BY <1>2, <1>4, ByKind DEF Deleting, Creating, Expanding, Snapping, Unsnapping, Staging
<1>6. CASE StageStart(n)
  <2> DEFINE b == NewAttachment(req.access, req.fsType)
  <2>1. req.access \in {"", "mount", "block"} /\ req.fsType \in Strings
    BY <1>1, RequestsAssumption
  <2>2. ~b.errs => Mountable(b.obj)
    BY <2>1, AttachmentBuilds
  <2>3. /\ pc'[n] = IF b.errs THEN "stage_err" ELSE "stage_bound"
        /\ arg'[n].vol = b.obj
    BY <1>1, <1>3, <1>6 DEF StageStart, Goto, Args
  <2> HIDE DEF b
  <2> QED
    BY <2>2, <2>3
<1>7. CASE StageBound(n)
  <2>1. pc[n] = "stage_bound" /\ arg' = arg /\ pc'[n] \in {"stage_details", "stage_err"}
    BY <1>1, <1>3, <1>7 DEF StageBound, Goto, Reaches
  <2> QED
    BY <2>1 DEF StageInv
<1>8. CASE StageDetails(n)
  <2> DEFINE b == FetchAndUpdateISCSIDetails(arg[n].vol)
  <2>1. arg[n].vol \in CVA!Objects /\ Mountable(arg[n].vol)
    BY <1>1, <1>3, <1>8 DEF Args, StageInv, StageDetails, Reaches
  <2>2. Mountable(b.obj) /\ Connectable(b.obj)
    BY <2>1, DetailsBuild
  <2>3. \/ Goto(n, "stage_err")
        \/ arg' = [arg EXCEPT ![n].vol = b.obj]
    BY <1>8 DEF StageDetails
  <2> HIDE DEF b
  <2>4. \/ pc'[n] = "stage_err"
        \/ arg'[n].vol = b.obj
    BY <1>1, <1>3, <2>3 DEF Goto, Args
  <2> QED
    BY <2>2, <2>4
<1>9. CASE StageCreate(n)
  <2>1. OnError("stage_create", FALSE) = "stage_err" /\ pc[n] = "stage_create"
    BY <1>9, OnErrorIs DEF StageCreate, Reaches
  <2>2. pc'[n] \in {"stage_err", "stage_ok"}
    BY <1>1, <1>3, <1>9, <2>1 DEF StageCreate, Goto, Reply
  <2> QED
    BY <2>2
<1> QED
  BY <1>5, <1>6, <1>7, <1>8, <1>9

\* Every step keeps StageInv.
LEMMA StageStep ==
  ASSUME BaseInv, StageInv, [Next]_vars
  PROVE  StageInv'
<1>1. TypeOK /\ HandlerInv /\ "node" \in Procs
  BY DEF BaseInv, Procs
<1>2. cva' # CVA!Zero => Mountable(cva') /\ Connectable(cva') /\ cva'.ownerNodeID # ""
  <2>1. AttachStep
    BY <1>1, AttachSteps
  <2>2. CASE UNCHANGED cva \/ cva' = CVA!Zero
    BY <2>2 DEF StageInv, AttachmentComplete
  <2>3. CASE /\ pc["node"] = "stage_create"
             /\ cva' = [arg["node"].vol EXCEPT !.ownerNodeID = "node"]
    <3>1. Mountable(arg["node"].vol) /\ Connectable(arg["node"].vol)
      BY <2>3 DEF StageInv
    <3>2. arg["node"].vol \in CVA!Objects
      BY <1>1 DEF TypeOK, Args
    <3> QED
      BY <2>3, <3>1, <3>2 DEF Mountable, Connectable, CVA!Objects
  <2> QED
    BY <2>1, <2>2, <2>3 DEF AttachStep
<1>3. /\ pc'["node"] \in {"stage_bound", "stage_details", "stage_create"}
           => Mountable(arg'["node"].vol)
      /\ pc'["node"] = "stage_create" => Connectable(arg'["node"].vol)
  <2>1. CASE pc'["node"] = pc["node"] /\ arg'["node"] = arg["node"]
    BY <2>1 DEF StageInv
  <2>2. CASE Goes("node") /\ (Handler("node") \/ CallFails("node"))
    BY <2>2, StageArrives
  <2>3. CASE pc'["node"] \in Starts \cup {"idle", "stage_start"}
    BY <2>3 DEF Starts
  <2> QED
    BY <1>1, <2>1, <2>2, <2>3, Movement
<1> QED
  BY <1>2, <1>3 DEF StageInv, AttachmentComplete, Mountable, Connectable

\* What a step may do to the phase and the capacity of a volume.
LEMMA StatusGrows ==
  ASSUME BaseInv, [Next]_vars, NEW v \in DOMAIN cvc \cap DOMAIN cvc'
  PROVE  /\ cvc[v].phase = "Bound" => /\ cvc'[v].phase = "Bound"
                                      /\ cvc'[v].status >= cvc[v].status
         /\ cvc'[v].phase = "Pending" => /\ cvc[v].phase = "Pending"
                                         /\ cvc'[v].status = cvc[v].status
<1>1. StoreStep
  BY StoreSteps DEF BaseInv
<1>2. cvc[v].status \in Nat /\ cvc[v].capacity \in Nat
  BY DEF BaseInv, TypeOK, CVC!Objects
<1>3. CASE UNCHANGED <<cvc, cv>>
  BY <1>2, <1>3
<1>4. CASE Posted
  BY <1>2, <1>4 DEF Posted
<1>5. ASSUME NEW w \in DOMAIN cvc, Marked(w) \/ Grown(w) \/ Released(w)
      PROVE  cvc'[v].phase = cvc[v].phase /\ cvc'[v].status = cvc[v].status
  BY <1>5 DEF Marked, Grown, Released, Edited, Dropped, Sized
<1>6. ASSUME NEW w \in DOMAIN cvc, Served(w)
      PROVE  \/ cvc'[v] = cvc[v]
             \/ cvc'[v].phase = "Bound" /\ cvc[v].phase = "Pending"
             \/ cvc'[v].phase = "Bound" /\ cvc'[v].status > cvc[v].status
  BY <1>6 DEF Served, Edited
<1>7. ASSUME NEW w \in DOMAIN cvc, Marked(w) \/ Grown(w) \/ Released(w) \/ Served(w)
      PROVE  /\ cvc[v].phase = "Bound" => /\ cvc'[v].phase = "Bound"
                                          /\ cvc'[v].status >= cvc[v].status
             /\ cvc'[v].phase = "Pending" => /\ cvc[v].phase = "Pending"
                                             /\ cvc'[v].status = cvc[v].status
  <2>1. cvc'[v].status \in Nat
    BY StoreTyped DEF BaseInv, CVC!Objects
  <2> QED
    BY <1>2, <1>5, <1>6, <1>7, <2>1
<1> QED
  BY <1>1, <1>3, <1>4, <1>7 DEF StoreStep

\* No patch, however old the copy it was computed from, and no other step takes a
\* volume that is bound back or shrinks it (updateCVCSize against the cvc-operator).
THEOREM BoundStays == Spec => BoundStaysBound
<1>1. BaseInv /\ [Next]_vars =>
        [\A v \in DOMAIN cvc \cap DOMAIN cvc' :
           cvc[v].phase = "Bound" => /\ cvc'[v].phase = "Bound"
                                     /\ cvc'[v].status >= cvc[v].status]_vars
  BY StatusGrows
<1> QED
  BY <1>1, Base, PTL DEF Spec, BoundStaysBound

-----------------------------------------------------------------------------
(* The CVCs *)

\* The parts of OnlyCompleteCVCs that stay as CreateVolume made them.
CompleteAs(v, o) ==
  /\ o.name = v /\ o.namespace = OpenEBSNamespace
  /\ o.nodeID \in Nodes
  /\ 0 < o.provisioned
  /\ \E pool \in {l[2] : l \in {l \in o.labels : l[1] = "cspc"}} : pool # ""
  /\ {l[2] : l \in {l \in o.labels : l[1] = "source"}}
       = (IF o.source = <<>> THEN {} ELSE {"src"})
  /\ v = "vol" => /\ req.replicaCount \in CVC!Numerals
                  /\ o.replicaCount = CVC!Atoi(req.replicaCount)
                  /\ (<<"created-through", "velero">> \in o.annotations)
                       = (req.through /\ req.pvcName # "")

\* With them OnlyCompleteCVCs leaves the capacity and the finalizer.
LEMMA CompleteParts ==
  OnlyCompleteCVCs <=> \A v \in DOMAIN cvc :
                         /\ CompleteAs(v, cvc[v])
                         /\ cvc[v].provisioned <= cvc[v].capacity
                         /\ cvc[v].deleting \/ "cvc" \in cvc[v].finalizers
BY DEF OnlyCompleteCVCs, CompleteAs

\* They stay.
LEMMA KeptComplete ==
  ASSUME NEW v, NEW o, NEW n, CompleteAs(v, o), Kept(o, n)
  PROVE  CompleteAs(v, n)
BY DEF CompleteAs, Kept

\* What CreateVolume creates has them.
LEMMA FreshComplete ==
  ASSUME TypeOK, NEW o, Fresh(o)
  PROVE  CompleteAs("vol", o)
<1>1. /\ req.size \in Nat /\ req.size > 0
      /\ req.source # <<>> => req.source[1] = "src"
      /\ req.cstorPoolCluster # ""
  <2>1. req \in VolumeRequests
    BY DEF TypeOK
  <2>2. req.size \in Nat \ {0}
    BY <2>1, RequestsAssumption
  <2>3. SourceGood /\ req.cstorPoolCluster # ""
    BY DEF Fresh, validateVolumeCreateReq
  <2>4. req.size \in Nat /\ req.size > 0
    BY <2>2
  <2> QED
    BY <2>3, <2>4, Zenon DEF SourceGood
<1>2. 0 < o.provisioned
  BY <1>1, RoundUpIs DEF Fresh
<1>3. o.labels = Labels(req) /\ o.source = req.source
  BY DEF Fresh
<1>4. \E pool \in {l[2] : l \in {l \in o.labels : l[1] = "cspc"}} : pool # ""
  <2>1. <<"cspc", req.cstorPoolCluster>> \in {l \in o.labels : l[1] = "cspc"}
    BY <1>3 DEF Labels
  <2>2. req.cstorPoolCluster \in {l[2] : l \in {l \in o.labels : l[1] = "cspc"}}
    BY <2>1
  <2> QED
    BY <1>1, <2>2
<1>5. {l[2] : l \in {l \in o.labels : l[1] = "source"}}
        = (IF o.source = <<>> THEN {} ELSE {"src"})
  <2>1. CASE req.source = <<>>
    <3>1. {l \in o.labels : l[1] = "source"} = {}
      BY <1>3, <2>1 DEF Labels
    <3> QED
      BY <1>3, <2>1, <3>1
  <2>2. CASE req.source # <<>>
    <3> DEFINE c == <<"cspc", req.cstorPoolCluster>>
               s == <<"source", "src">>
               S == {l \in o.labels : l[1] = "source"}
    <3>1. o.labels = {c, s}
      BY <1>1, <1>3, <2>2 DEF Labels
    <3>2. c[1] = "cspc" /\ s[1] = "source" /\ s[2] = "src"
      OBVIOUS
    <3> HIDE DEF c, s
    <3>3. S = {s}
      BY <3>1, <3>2
    <3> HIDE DEF S
    <3>4. {l[2] : l \in S} = {"src"}
      BY <3>2, <3>3
    <3> QED
      BY <1>3, <2>2, <3>4 DEF S
  <2> QED
    BY <2>1, <2>2
<1>6. (<<"created-through", "velero">> \in o.annotations) = (req.through /\ req.pvcName # "")
  <2>1. PICK t \in BOOLEAN : /\ t = (req.through /\ req.pvcName # "")
                             /\ o.annotations = Annotations(req, t)
    BY DEF Fresh
  <2>2. (<<"created-through", "velero">> \in Annotations(req, t)) = t
    <3>1. CASE t
      BY <3>1 DEF Annotations
    <3>2. CASE ~t
      <4>1. /\ <<"created-through", "velero">> # <<"volumeID", req.name>>
            /\ <<"created-through", "velero">> # <<"policy", req.policy>>
            /\ <<"created-through", "velero">> # <<"pvc", req.pvcName>>
        OBVIOUS
      <4> QED
        BY <3>2, <4>1 DEF Annotations
    <3> QED
      BY <3>1, <3>2
  <2> QED
    BY <2>1, <2>2
<1> QED
  BY <1>2, <1>4, <1>5, <1>6 DEF CompleteAs, Fresh

\* Where ControllerExpandVolume gets to, and what it has seen by then.
LEMMA ExpandArrives ==
  ASSUME BaseInv, ConfigInv, NEW q \in Requests, Goes(q), Handler(q) \/ CallFails(q),
         pc'[q] \in Expanding
  PROVE  \/ pc'[q] = "expand_err"
         \/ pc'[q] = "expand_verify"
         \/ /\ ExpandGet(q) /\ Found(cvc, "vol") /\ arg'[q].held = cvc["vol"]
            /\ \/ pc'[q] = "expand_patch" /\ ~(Desired < cvc["vol"].capacity)
               \/ pc'[q] = "expand_ok" /\ Desired = cvc["vol"].status
            /\ UNCHANGED cvc
         \/ /\ ExpandVerify(q) /\ pc'[q] = "expand_ok" /\ UNCHANGED cvc
            /\ Found(cvc, "vol") /\ Desired = cvc["vol"].status
<1>1. TypeOK /\ HandlerInv /\ q \in Procs
  BY DEF BaseInv, Procs
<1>2. pc[q] \in Expanding /\ pc[q] \notin Ends
  BY KindsDiffer DEF Goes
<1>3. pc \in [Procs -> Locations] /\ arg \in [Procs -> Args]
  BY <1>1 DEF TypeOK
<1>4. \A isNil \in BOOLEAN : OnError(pc[q], isNil) = "expand_err"
  <2>1. pc[q] \in {"expand_get", "expand_patch", "expand_verify"}
    BY <1>2 DEF Expanding, Ends
  <2> QED
    BY <2>1, OnErrorIs
<1>5. CASE CallUnsent(q) \/ CallFails(q)
  BY <1>1, <1>3, <1>4, <1>5 DEF CallUnsent, CallFails, Goto
<1>6. CASE ExpandGet(q)
  <2>1. CASE ~Found(cvc, "vol")
    BY <1>1, <1>3, <1>6, <2>1 DEF ExpandGet, Goto
  <2>2. CASE Found(cvc, "vol")
    <3> DEFINE o == cvc["vol"]
    <3>1. /\ pc' = [pc EXCEPT ![q] = IF Desired < o.capacity THEN "expand_err"
                                     ELSE IF o.phase = "Pending" THEN "expand_patch"
                                     ELSE IF o.capacity > o.status THEN "expand_err"
                                     ELSE IF Desired = o.status THEN "expand_ok"
                                     ELSE "expand_patch"]
          /\ arg' = [arg EXCEPT ![q].held = o]
          /\ UNCHANGED cvc
      BY <1>6, <2>2 DEF ExpandGet, Goto, store
    <3>2. arg'[q].held = o
      BY <1>1, <1>3, <3>1 DEF Args
    <3>3. \/ pc'[q] = "expand_err"
          \/ pc'[q] = "expand_patch" /\ ~(Desired < o.capacity)
          \/ pc'[q] = "expand_ok" /\ Desired = o.status
      BY <1>1, <1>3, <3>1
    <3> HIDE DEF o
    <3> QED
      BY <1>6, <2>2, <3>1, <3>2, <3>3 DEF o
  <2> QED
    BY <2>1, <2>2
<1>7. CASE ExpandPatch(q)
  <2>1. arg[q].held.nodeID # ""
    BY <1>7 DEF ConfigInv, ExpandPatch, Reaches
  <2>2. \/ Goto(q, "expand_err")
        \/ Goto(q, "expand_verify")
        \/ Goto(q, OnError(pc[q], FALSE))
    BY <1>7, <2>1 DEF ExpandPatch, Reply
  <2> QED
    BY <1>1, <1>3, <1>4, <2>2 DEF Goto
<1>8. CASE ExpandVerify(q)
  BY <1>1, <1>3, <1>8 DEF ExpandVerify, Goto, store
<1> QED
  BY <1>2, <1>5, <1>6, <1>7, <1>8, ByKind DEF Deleting, Creating, Expanding, Snapping,
       Unsnapping, Staging

\* A patch never asks for less than was provisioned, since the handler compared the
\* two before and the provisioned capacity is never changed.
LEMMA CapacityStays ==
  ASSUME BaseInv, ConfigInv, [Next]_vars, NEW v \in DOMAIN cvc'
  PROVE  /\ CompleteAs(v, cvc'[v])
         /\ cvc'[v].provisioned <= cvc'[v].capacity
         /\ v = "vol" => /\ cvc'[v].provisioned = RoundUpGiB(req.size)
                         /\ cvc'[v].phase = "Pending" => cvc'[v].status = 0
<1>1. TypeOK /\ HandlerInv /\ CreateInv /\ req \in VolumeRequests
  BY DEF BaseInv, TypeOK
<1>2. StoreStep
  BY <1>1, StoreSteps
<1>3. RoundUpGiB(req.size) \in Nat
  <2>1. req.size \in Nat
    BY <1>1, RequestsAssumption
  <2> QED
    BY <2>1, RoundUpIs
<1>4. /\ \A w \in DOMAIN cvc : /\ CompleteAs(w, cvc[w])
                               /\ cvc[w].provisioned <= cvc[w].capacity
      /\ "vol" \in DOMAIN cvc =>
           /\ cvc["vol"].provisioned = RoundUpGiB(req.size)
           /\ cvc["vol"].phase = "Pending" => cvc["vol"].status = 0
  BY CompleteParts DEF ConfigInv, Found
<1>5. CASE v \in DOMAIN cvc /\ cvc'[v] = cvc[v]
  BY <1>4, <1>5
<1>6. CASE Posted /\ v \notin DOMAIN cvc
  <2>1. v = "vol" /\ Fresh(cvc'[v])
    BY <1>6 DEF Posted
  <2>2. CompleteAs(v, cvc'[v])
    BY <1>1, <2>1, FreshComplete
  <2>3. /\ cvc'[v].provisioned = RoundUpGiB(req.size)
        /\ cvc'[v].capacity = RoundUpGiB(req.size)
        /\ cvc'[v].status = 0
    BY <2>1 DEF Fresh
  <2>4. cvc'[v].provisioned <= cvc'[v].capacity
    BY <1>3, <2>3
  <2> QED
    BY <2>2, <2>3, <2>4
<1>7. ASSUME NEW w \in DOMAIN cvc, Marked(w) \/ Grown(w) \/ Served(w) \/ Released(w),
             ~(v \in DOMAIN cvc /\ cvc'[v] = cvc[v])
      PROVE  /\ v = w /\ Kept(cvc[v], cvc'[v])
             /\ \/ cvc'[v].capacity = cvc[v].capacity
                \/ Grown(v) /\ cvc'[v].capacity = Desired
  <2>1. v = w /\ Edited(cvc, cvc', w)
    BY <1>7 DEF Marked, Grown, Served, Released, Edited, Dropped
  <2> QED
    BY <1>7, <2>1 DEF Marked, Grown, Served, Released, Edited, Dropped, Sized
<1>8. ASSUME NEW w \in DOMAIN cvc, Marked(w) \/ Grown(w) \/ Served(w) \/ Released(w),
             ~(v \in DOMAIN cvc /\ cvc'[v] = cvc[v])
      PROVE  /\ CompleteAs(v, cvc'[v])
             /\ cvc'[v].provisioned <= cvc'[v].capacity
             /\ v = "vol" => /\ cvc'[v].provisioned = RoundUpGiB(req.size)
                             /\ cvc'[v].phase = "Pending" => cvc'[v].status = 0
  <2>1. /\ v = w /\ Kept(cvc[v], cvc'[v])
        /\ \/ cvc'[v].capacity = cvc[v].capacity
           \/ Grown(v) /\ cvc'[v].capacity = Desired
    BY <1>7, <1>8
  <2>2. CompleteAs(v, cvc'[v])
    BY <1>4, <2>1, KeptComplete
  <2>3. cvc'[v].provisioned = cvc[v].provisioned
    BY <2>1 DEF Kept
  <2>4. cvc'[v].provisioned <= cvc'[v].capacity
    <3>1. CASE cvc'[v].capacity = cvc[v].capacity
      BY <1>4, <2>1, <2>3, <3>1
    <3>2. CASE Grown(v) /\ cvc'[v].capacity = Desired
      <4>1. v = "vol" /\ \E p \in Requests : pc[p] = "expand_patch"
        BY <3>2 DEF Grown
      <4>2. RoundUpGiB(req.size) <= Desired
        BY <4>1 DEF ConfigInv
      <4> QED
        BY <1>4, <2>1, <2>3, <3>2, <4>1, <4>2
    <3> QED
      BY <2>1, <3>1, <3>2
  <2>5. v = "vol" => /\ cvc'[v].provisioned = RoundUpGiB(req.size)
                     /\ cvc'[v].phase = "Pending" => cvc'[v].status = 0
    <3>1. cvc'[v].phase = "Pending" => /\ cvc[v].phase = "Pending"
                                       /\ cvc'[v].status = cvc[v].status
      BY <2>1, StatusGrows
    <3> QED
      BY <1>4, <2>1, <2>3, <3>1
  <2> QED
    BY <2>2, <2>4, <2>5
<1>9. CASE UNCHANGED <<cvc, cv>>
  BY <1>5, <1>9
<1>10. CASE Posted
  BY <1>5, <1>6, <1>10 DEF Posted
<1> QED
  BY <1>2, <1>5, <1>8, <1>9, <1>10 DEF StoreStep

\* Every step keeps ConfigInv.
LEMMA ConfigStep ==
  ASSUME BaseInv, FinalizerInv, ConfigInv, [Next]_vars
  PROVE  ConfigInv'
<1>1. TypeOK /\ HandlerInv /\ req \in VolumeRequests /\ UNCHANGED req
  BY ReqFixed DEF BaseInv, TypeOK
<1>2. RoundUpGiB(req.size) \in Nat /\ Desired \in Nat
  <2>1. req.size \in Nat /\ req.grown \in Nat
    BY <1>1, RequestsAssumption
  <2> QED
    BY <2>1, RoundUpIs DEF Desired
<1>3. \A v \in DOMAIN cvc' : cvc'[v].deleting \/ "cvc" \in cvc'[v].finalizers
  BY FinalizerStep DEF FinalizerInv
<1>4. \A v \in DOMAIN cvc' : /\ CompleteAs(v, cvc'[v])
                             /\ cvc'[v].provisioned <= cvc'[v].capacity
  BY CapacityStays
<1>5. OnlyCompleteCVCs'
  BY <1>1, <1>3, <1>4 DEF OnlyCompleteCVCs, CompleteAs
<1>6. "vol" \in DOMAIN cvc' => /\ cvc'["vol"].provisioned = RoundUpGiB(req.size)
                               /\ cvc'["vol"].phase = "Pending" => cvc'["vol"].status = 0
  BY CapacityStays
<1>7. ASSUME NEW q \in Requests, pc'[q] = "expand_patch"
      PROVE  arg'[q].held.nodeID # "" /\ RoundUpGiB(req.size) <= Desired
  <2>1. q \in Procs /\ "expand_patch" \notin Starts \cup {"idle", "stage_start"}
    BY DEF Procs, Starts
  <2>2. \/ pc[q] = "expand_patch" /\ arg'[q] = arg[q]
        \/ Goes(q) /\ (Handler(q) \/ CallFails(q))
    BY <1>1, <1>7, <2>1, Movement
  <2>3. CASE pc[q] = "expand_patch" /\ arg'[q] = arg[q]
    BY <2>3 DEF ConfigInv
  <2>4. CASE Goes(q) /\ (Handler(q) \/ CallFails(q))
    <3>1. /\ Found(cvc, "vol") /\ arg'[q].held = cvc["vol"]
          /\ ~(Desired < cvc["vol"].capacity)
      BY <1>7, <2>4, ExpandArrives DEF Expanding
    <3>2. /\ cvc["vol"].nodeID \in Nodes /\ cvc["vol"].provisioned = RoundUpGiB(req.size)
          /\ cvc["vol"].provisioned <= cvc["vol"].capacity
      BY <3>1 DEF ConfigInv, OnlyCompleteCVCs, Found
    <3>3. cvc["vol"].capacity \in Nat
      BY <1>1, <3>1 DEF TypeOK, Found, CVC!Objects
    <3>4. cvc["vol"].nodeID # ""
      BY <3>2, LifeAssumption
    <3>5. RoundUpGiB(req.size) <= Desired
      <4> DEFINE c == cvc["vol"].capacity
                 r == RoundUpGiB(req.size)
      <4>1. c \in Nat /\ r \in Nat /\ Desired \in Nat /\ r <= c /\ ~(Desired < c)
        BY <1>2, <3>1, <3>2, <3>3
      <4> HIDE DEF c, r
      <4> QED
        BY <4>1 DEF r
    <3> QED
      BY <3>1, <3>4, <3>5
  <2> QED
    BY <2>2, <2>3, <2>4
<1> QED
  BY <1>1, <1>5, <1>6, <1>7 DEF ConfigInv, Found, Desired

-----------------------------------------------------------------------------
(* Answers *)

\* More GiB are more bytes.
LEMMA TimesGrows ==
  ASSUME NEW a \in Nat, NEW b \in Nat, a <= b
  PROVE  a * GiB \in Nat /\ a * GiB <= b * GiB
<1>1. GiB \in Nat
  BY GiBAssumption
<1>2. PICK d \in Nat : b = a + d
  <2>1. b - a \in Nat /\ b = a + (b - a)
    OBVIOUS
  <2> QED
    BY <2>1
<1>3. a * GiB \in Nat /\ d * GiB \in Nat /\ b * GiB = a * GiB + d * GiB
  BY <1>1, <1>2
<1> QED
  BY <1>3

\* The volume does not shrink.
LEMMA SizeStays ==
  ASSUME BaseInv, ConfigInv, [Next]_vars, "vol" \in DOMAIN cvc, "vol" \in DOMAIN cvc'
  PROVE  /\ cvc["vol"].status \in Nat /\ cvc'["vol"].status \in Nat
         /\ cvc["vol"].status <= cvc'["vol"].status
<1> DEFINE old == cvc["vol"].status
           new == cvc'["vol"].status
<1>1. TypeOK /\ HandlerInv /\ CreateInv
  BY DEF BaseInv
<1>2. StoreStep
  BY <1>1, StoreSteps
<1>3. old \in Nat /\ new \in Nat /\ cvc["vol"].phase \in {"", "Pending", "Bound"}
  BY <1>1, StoreTyped DEF TypeOK, CVC!Objects
<1>4. old \in Nat /\ new \in Nat
  BY <1>3
<1>5. CASE cvc["vol"].phase = "Bound"
  BY <1>3, <1>5, StatusGrows
<1>6. CASE cvc["vol"].phase = "Pending"
  <2>1. old = 0
    BY <1>6 DEF ConfigInv, Found
  <2> HIDE DEF old, new
  <2>2. old <= new
    BY <1>4, <2>1
  <2> QED
    BY <1>3, <2>2 DEF old, new
<1>7. CASE cvc["vol"].phase = ""
  <2>1. ASSUME NEW w \in DOMAIN cvc, Marked(w) \/ Grown(w) \/ Served(w) \/ Released(w)
        PROVE  new = old
    <3>1. CASE w # "vol"
      BY <2>1, <3>1 DEF Marked, Grown, Served, Released, Edited, Dropped
    <3>2. CASE w = "vol"
      BY <1>7, <2>1, <3>2 DEF Marked, Grown, Served, Released, Dropped, Sized
    <3> QED
      BY <3>1, <3>2
  <2>2. new = old
    BY <1>2, <2>1 DEF StoreStep, Posted
  <2> HIDE DEF old, new
  <2>3. old <= new
    BY <1>4, <2>2
  <2> QED
    BY <1>3, <2>3 DEF old, new
<1> QED
  BY <1>3, <1>5, <1>6, <1>7

\* It does not go away before somebody asks to delete it.
LEMMA UsableStays ==
  ASSUME BaseInv, AskedInv, ConfigInv, [Next]_vars, Usable, co.vol \notin Ending
  PROVE  /\ "vol" \in DOMAIN cvc' /\ ~cvc'["vol"].deleting
         /\ cvc["vol"].status \in Nat /\ cvc'["vol"].status \in Nat
         /\ cvc["vol"].status <= cvc'["vol"].status
<1>1. StoreStep
  BY StoreSteps DEF BaseInv
<1>2. "vol" \in DOMAIN cvc /\ ~cvc["vol"].deleting
  BY DEF Usable, Found
<1>3. "vol" \in DOMAIN cvc'
  BY <1>1, <1>2 DEF StoreStep, Posted, Marked, Grown, Served, Released, Edited, Dropped
<1>4. ~cvc'["vol"].deleting
  BY <1>3, MarkedEnding
<1> QED
  BY <1>2, <1>3, <1>4, SizeStays

\* CreateVolume succeeds only with the volume there and not being deleted.
LEMMA CreatedArrives ==
  ASSUME BaseInv, NEW q \in Requests, Goes(q), Handler(q) \/ CallFails(q),
         pc'[q] = "create_ok"
  PROVE  "vol" \in DOMAIN cvc' /\ ~cvc'["vol"].deleting
<1>1. TypeOK /\ HandlerInv /\ CreateInv /\ q \in Procs
  BY DEF BaseInv, Procs
<1>2. pc[q] \in Creating /\ pc[q] \notin Ends
  BY KindsDiffer DEF Goes, Creating
<1>3. pc \in [Procs -> Locations]
  BY <1>1 DEF TypeOK
<1>4. \A isNil \in BOOLEAN : pc[q] \in DOMAIN APICall \cup TargetCalls
         => OnError(pc[q], isNil) # "create_ok"
  <2>1. AfterGet # "create_ok"
    BY DEF AfterGet
  <2>2. pc[q] \in DOMAIN APICall \cup TargetCalls =>
          pc[q] \in {"create_source", "create_get", "create_node", "create_pvc", "create_post"}
    BY <1>2, APICalls DEF Creating, TargetCalls
  <2> QED
    BY <2>1, <2>2, OnErrorIs
<1>5. ~CallUnsent(q) /\ ~CallFails(q)
  BY <1>1, <1>3, <1>4 DEF CallUnsent, CallFails, Goto
<1>6. \/ CreateStart(q) \/ CreateNode(q) \/ CreateSourcePanic(q) \/ CreateSource(q)
      \/ CreateGet(q) \/ CreatePVC(q) \/ CreatePost(q)
  BY <1>2, <1>5, ByKind DEF Deleting, Creating, Expanding, Snapping, Unsnapping, Staging
<1>7. ~CreateStart(q) /\ ~CreateNode(q) /\ ~CreateSource(q) /\ ~CreatePVC(q)
  BY <1>1, <1>3 DEF CreateStart, CreateNode, CreateSource, CreatePVC, Goto
<1>8. ~CreateSourcePanic(q)
  BY <1>1 DEF CreateSourcePanic, Restarted
<1>9. CASE CreateGet(q)
  <2>1. AfterGet # "create_ok" /\ UNCHANGED cvc
    BY <1>9 DEF AfterGet, CreateGet, store
  <2>2. Found(cvc, "vol") /\ ~cvc["vol"].deleting
    BY <1>1, <1>3, <1>9, <2>1 DEF CreateGet, Goto
  <2> QED
    BY <2>1, <2>2 DEF Found
<1>10. CASE CreatePost(q)
  <2>1. pc[q] = "create_post" /\ pc[q] \in DOMAIN APICall
    BY <1>10, APICalls DEF CreatePost, Reaches
  <2>2. Posted
    <3>1. StoreStep
      BY <1>1, <1>10, PostStep
    <3>2. "vol" \notin DOMAIN cvc /\ "vol" \in DOMAIN cvc'
      <4>1. \/ Goto(q, "create_err")
            \/ /\ ~Found(cvc, "vol")
               /\ cvc' = Put(cvc, "vol", Provision(req, arg[q].node, arg[q].through).obj)
        BY <1>10 DEF CreatePost
      <4>2. ~Goto(q, "create_err")
        BY <1>1, <1>3 DEF Goto
      <4> QED
        BY <4>1, <4>2 DEF Put, Found
    <3> QED
      BY <3>1, <3>2 DEF StoreStep, Marked, Grown, Served, Released, Edited, Dropped
  <2> QED
    BY <2>2 DEF Posted, Fresh
<1> QED
  BY <1>6, <1>7, <1>8, <1>9, <1>10

\* Every step keeps AnswerInv.
LEMMA AnswerStep ==
  ASSUME BaseInv, AskedInv, ConfigInv, AnswerInv, [Next]_vars
  PROVE  AnswerInv'
<1>1. TypeOK /\ HandlerInv /\ req \in VolumeRequests /\ UNCHANGED req
  BY ReqFixed DEF BaseInv, TypeOK
<1>2. req.grown \in Nat /\ Desired \in Nat /\ req.grown <= Desired * GiB
  <2>1. req.grown \in Nat
    BY <1>1, RequestsAssumption
  <2> QED
    BY <2>1, RoundUpIs DEF Desired
<1>3. co'.vol \notin Ending => co.vol \notin Ending
  BY <1>1, EndingStays DEF Volumes
<1>4. co'.vol = "yes" => "vol" \in DOMAIN cvc' /\ ~cvc'["vol"].deleting
  <2> SUFFICES ASSUME co'.vol = "yes"
               PROVE  "vol" \in DOMAIN cvc' /\ ~cvc'["vol"].deleting
    OBVIOUS
  <2>1. co.vol \notin Ending
    BY <1>3 DEF Ending
  <2>2. Usable
    <3>1. CASE co.vol = "yes"
      BY <3>1 DEF AnswerInv
    <3>2. CASE co.vol # "yes"
      <4>1. CoMove("vol")
        BY <1>1, CoMoves
      <4>2. PICK p \in waiting : pc[p] = "create_ok"
        BY <3>2, <4>1 DEF CoMove
      <4>3. p \in Requests
        BY <1>1 DEF TypeOK
      <4> QED
        BY <2>1, <4>2, <4>3 DEF AnswerInv
    <3> QED
      BY <3>1, <3>2
  <2> QED
    BY <2>1, <2>2, UsableStays
<1>5. ASSUME NEW q \in Requests, co'.vol \notin Ending, pc'[q] = "create_ok"
      PROVE  "vol" \in DOMAIN cvc' /\ ~cvc'["vol"].deleting
  <2>1. q \in Procs /\ "create_ok" \notin Starts \cup {"idle", "stage_start"}
    BY DEF Procs, Starts
  <2>2. \/ pc[q] = "create_ok"
        \/ Goes(q) /\ (Handler(q) \/ CallFails(q))
    BY <1>1, <1>5, <2>1, Movement
  <2>3. CASE pc[q] = "create_ok"
    BY <1>3, <1>5, <2>3, UsableStays DEF AnswerInv
  <2> QED
    BY <1>5, <2>2, <2>3, CreatedArrives
<1>6. ASSUME NEW q \in Requests, co'.vol \notin Ending, pc'[q] = "expand_ok"
      PROVE  /\ "vol" \in DOMAIN cvc' /\ ~cvc'["vol"].deleting
             /\ req.grown <= cvc'["vol"].status * GiB
  <2>1. q \in Procs /\ "expand_ok" \notin Starts \cup {"idle", "stage_start"}
    BY DEF Procs, Starts
  <2>2. \/ pc[q] = "expand_ok"
        \/ Goes(q) /\ (Handler(q) \/ CallFails(q))
    BY <1>1, <1>6, <2>1, Movement
  <2>3. Usable /\ req.grown <= cvc["vol"].status * GiB
    <3>1. CASE pc[q] = "expand_ok"
      BY <1>3, <1>6, <3>1 DEF AnswerInv
    <3>2. CASE Goes(q) /\ (Handler(q) \/ CallFails(q))
      <4>1. Found(cvc, "vol") /\ Desired = cvc["vol"].status
        BY <1>6, <3>2, ExpandArrives DEF Expanding
      <4>2. ~cvc["vol"].deleting
        BY <1>3, <1>6, <4>1 DEF AskedInv, Found
      <4> QED
        BY <1>2, <4>1, <4>2 DEF Usable
    <3> QED
      BY <2>2, <3>1, <3>2
  <2>4. /\ "vol" \in DOMAIN cvc' /\ ~cvc'["vol"].deleting
        /\ cvc["vol"].status \in Nat /\ cvc'["vol"].status \in Nat
        /\ cvc["vol"].status <= cvc'["vol"].status
    BY <1>3, <1>6, <2>3, UsableStays
  <2>5. req.grown <= cvc'["vol"].status * GiB
    <3> DEFINE a == cvc["vol"].status
               b == cvc'["vol"].status
    <3>1. a \in Nat /\ b \in Nat /\ a <= b
      BY <2>4
    <3>2. req.grown <= a * GiB
      BY <2>3
    <3> HIDE DEF a, b
    <3>3. a * GiB \in Nat /\ b * GiB \in Nat /\ a * GiB <= b * GiB
      BY <3>1, TimesGrows
    <3>4. req.grown <= b * GiB
      BY <1>2, <3>2, <3>3
    <3> QED
      BY <3>4 DEF b
  <2> QED
    BY <2>4, <2>5
<1> QED
  BY <1>1, <1>4, <1>5, <1>6 DEF AnswerInv, Usable, Found

-----------------------------------------------------------------------------
(* The refinement of ProvisionedVolume *)

\* The size of the volume, and the size its resizer was told, as Volume maps them.
Bytes == IF Found(cvc, "vol") THEN cvc["vol"].status * GiB ELSE 0
ToldBytes == IF co.grown THEN req.grown ELSE 0

\* No step changes both a CVC and what the sidecars know.
LEMMA OneChanges ==
  ASSUME TypeOK, HandlerInv, [Next]_vars
  PROVE  UNCHANGED co \/ UNCHANGED <<cvc, cv>>
<1>1. (\E p \in Requests : Return(p)) => UNCHANGED <<cvc, cv>>
  BY DEF Return, store
<1>2. Calls => UNCHANGED <<cvc, cv>>
  BY CallsBegin DEF Begins, store
<1>3. Users => UNCHANGED <<cvc, cv>>
  BY DEF Users, Want, GiveUp, store
<1> QED
  BY <1>1, <1>2, <1>3, CoCases

\* When the resizer learns of success, a handler has seen the volume grown.
LEMMA GrownMoves ==
  ASSUME TypeOK, HandlerInv, AskedInv, [Next]_vars
  PROVE  \/ co'.grown = co.grown
         \/ /\ co' = [co EXCEPT !.grown = TRUE] /\ co.vol = "yes"
            /\ \E p \in Requests : pc[p] = "expand_ok"
<1>1. co \in CoTypes
  BY DEF TypeOK
<1>2. CASE UNCHANGED co
  BY <1>2
<1>3. ASSUME NEW p \in Requests, Told(p)
      PROVE  \/ co'.grown = co.grown
             \/ /\ co' = [co EXCEPT !.grown = TRUE] /\ co.vol = "yes"
                /\ \E q \in Requests : pc[q] = "expand_ok"
  <2>1. p \in waiting /\ co' = Learn(co, arg[p].about, pc[p])
    BY <1>3 DEF Told
  <2>2. CASE pc[p] \in {"create_ok", "snap_ok"}
    BY <1>1, <2>1, <2>2, LearnIs DEF CoTypes
  <2>3. CASE pc[p] = "expand_ok"
    <3>1. co' = [co EXCEPT !.grown = TRUE]
      <4>1. Learn(co, arg[p].about, "expand_ok") = [co EXCEPT !.grown = TRUE]
        BY DEF Learn
      <4> QED
        BY <2>1, <2>3, <4>1, Zenon
    <3>2. co.vol = "yes"
      BY <2>1, <2>3, EndKinds
    <3> QED
      BY <2>3, <3>1, <3>2
  <2>4. CASE pc[p] \in {"delete_ok", "unsnap_ok"}
    <3>1. /\ co' = [co EXCEPT ![arg[p].about] = "gone"]
          /\ arg[p].about \in {"vol", "src", "snap"}
      BY <1>1, <2>1, <2>4, LearnIs, EndKinds DEF Volumes
    <3> QED
      BY <1>1, <3>1 DEF CoTypes
  <2>5. CASE pc[p] \notin {"create_ok", "expand_ok", "snap_ok", "delete_ok", "unsnap_ok"}
    BY <1>1, <2>1, <2>5, LearnIs
  <2> QED
    BY <2>2, <2>3, <2>4, <2>5
<1>4. CASE Calls
  <2>1. CASE CallCreate \/ CallExpand \/ CallSnapshot \/ CallUnsnapshot
    BY <1>1, <2>1 DEF CallCreate, CallExpand, CallSnapshot, CallUnsnapshot, Call, CoTypes
  <2>2. ASSUME NEW v \in Volumes, CallDelete(v)
        PROVE  co'.grown = co.grown
    <3>1. co' = [co EXCEPT ![v] = "deleting"] /\ v \in {"src", "vol"}
      BY <2>2 DEF CallDelete, Call, Volumes
    <3> QED
      BY <1>1, <3>1 DEF CoTypes
  <2> QED
    BY <1>4, <2>1, <2>2 DEF Calls
<1>5. CASE Users
  <2>1. CASE Want
    BY <1>1, <2>1 DEF Want, CoTypes
  <2>2. ASSUME NEW y \in Volumes \cup {"snap"}, GiveUp(y)
        PROVE  co'.grown = co.grown
    <3>1. y \in {"vol", "src", "snap"}
      BY DEF Volumes
    <3>2. co' = [co EXCEPT !.want = @ \ {y}, ![y] = IF @ = "none" THEN "gone" ELSE @]
      BY <2>2 DEF GiveUp
    <3> QED
      BY <1>1, <3>1, <3>2 DEF CoTypes
  <2> QED
    BY <1>5, <2>1, <2>2 DEF Users
<1> QED
  BY <1>2, <1>3, <1>4, <1>5, CoCases

\* The steps of ProvisionedVolume in terms of VolumeLife: stuttering;
LEMMA VolumeStill ==
  ASSUME co'.vol = co.vol, UNCHANGED <<Usable, Bytes, ToldBytes>>
  PROVE  UNCHANGED Volume!vars
BY DEF Volume!vars, Usable, Bytes, ToldBytes

\* Ask;
LEMMA VolumeAsks ==
  ASSUME UNCHANGED <<Usable, Bytes, ToldBytes>>,
         \/ co.vol \in {"none", "maybe"} /\ co'.vol = "maybe"
         \/ co.vol \in {"maybe", "yes", "deleting"} /\ co'.vol = "deleting"
         \/ co.vol = "none" /\ co'.vol = "gone"
  PROVE  Volume!Next
BY DEF Volume!Next, Volume!Ask, Usable, Bytes, ToldBytes

\* AnswerCreate, AnswerDelete and AnswerExpand;
LEMMA VolumeAnswers ==
  ASSUME \/ /\ co.vol = "maybe" /\ co'.vol = "yes" /\ Usable
            /\ UNCHANGED <<Usable, Bytes, ToldBytes>>
         \/ /\ co.vol = "deleting" /\ co'.vol = "gone"
            /\ UNCHANGED <<Usable, Bytes, ToldBytes>>
         \/ /\ co.vol = "yes" /\ co'.vol = "yes" /\ Usable /\ ToldBytes' \in 0..Bytes
            /\ UNCHANGED <<Usable, Bytes>>
  PROVE  Volume!Next
<1>1. CASE /\ co.vol = "maybe" /\ co'.vol = "yes" /\ Usable
           /\ UNCHANGED <<Usable, Bytes, ToldBytes>>
  BY <1>1 DEF Volume!Next, Volume!AnswerCreate, Usable, Bytes, ToldBytes
<1>2. CASE /\ co.vol = "deleting" /\ co'.vol = "gone"
           /\ UNCHANGED <<Usable, Bytes, ToldBytes>>
  BY <1>2 DEF Volume!Next, Volume!AnswerDelete, Usable, Bytes, ToldBytes
<1>3. CASE /\ co.vol = "yes" /\ co'.vol = "yes" /\ Usable /\ ToldBytes' \in 0..Bytes
           /\ UNCHANGED <<Usable, Bytes>>
  BY <1>3 DEF Volume!Next, Volume!AnswerExpand, Usable, Bytes, ToldBytes
<1> QED
  BY <1>1, <1>2, <1>3

\* Appear, Grow and Vanish.
LEMMA VolumeChanges ==
  ASSUME co'.vol = co.vol, ToldBytes' = ToldBytes,
         \/ ~Usable /\ Bytes = 0 /\ Usable' /\ Bytes' = 0
         \/ Usable /\ Usable' /\ Bytes' \in Nat /\ Bytes' >= Bytes
         \/ co.vol \in Ending /\ ~Usable' /\ Bytes' \in {Bytes, 0}
  PROVE  Volume!Next
<1>1. CASE ~Usable /\ Bytes = 0 /\ Usable' /\ Bytes' = 0
  BY <1>1 DEF Volume!Next, Volume!Appear, Usable, Bytes, ToldBytes
<1>2. CASE Usable /\ Usable' /\ Bytes' \in Nat /\ Bytes' >= Bytes
  BY <1>2 DEF Volume!Next, Volume!Grow, Usable, Bytes, ToldBytes
<1>3. CASE co.vol \in Ending /\ ~Usable' /\ Bytes' \in {Bytes, 0}
  BY <1>3 DEF Volume!Next, Volume!Vanish, Volume!Alive, Ending, Usable, Bytes, ToldBytes
<1> QED
  BY <1>1, <1>2, <1>3

\* Every step is a step of ProvisionedVolume or a stutter.
LEMMA VolumeStep ==
  ASSUME BaseInv, AskedInv, ConfigInv, AnswerInv, [Next]_vars
  PROVE  [Volume!Next]_(Volume!vars)
<1>1. /\ TypeOK /\ HandlerInv /\ CreateInv /\ co \in CoTypes
      /\ req \in VolumeRequests /\ UNCHANGED req
  BY ReqFixed DEF BaseInv, TypeOK
<1>2. req.grown \in Nat /\ GiB \in Nat
  BY <1>1, RequestsAssumption, GiBAssumption
<1>3. Bytes \in Nat
  <2>1. "vol" \in DOMAIN cvc => cvc["vol"].status \in Nat
    BY <1>1 DEF TypeOK, CVC!Objects
  <2>2. "vol" \in DOMAIN cvc => cvc["vol"].status * GiB \in Nat
    BY <2>1, TimesGrows
  <2> QED
    BY <2>2 DEF Bytes, Found
<1>4. CASE UNCHANGED <<cvc, cv>>
  <2>1. UNCHANGED <<Usable, Bytes>>
    BY <1>4 DEF Usable, Bytes, Found
  <2>2. CASE co'.grown = co.grown
    <3>1. UNCHANGED ToldBytes
      BY <1>1, <2>2 DEF ToldBytes
    <3>2. CoMove("vol")
      BY <1>1, CoMoves
    <3>3. CASE co'.vol = co.vol
      BY <2>1, <3>1, <3>3, VolumeStill
    <3>4. CASE co'.vol = "yes" /\ co.vol # "yes"
      <4>1. PICK p \in waiting : pc[p] = "create_ok"
        BY <3>2, <3>4 DEF CoMove
      <4>2. co.vol = "maybe" /\ p \in Requests
        BY <1>1, <3>2, <3>4 DEF CoMove, TypeOK
      <4>3. Usable
        BY <4>1, <4>2 DEF AnswerInv, Ending
      <4> QED
        BY <2>1, <3>1, <3>4, <4>2, <4>3, VolumeAnswers
    <3>5. CASE co'.vol \notin {"yes", co.vol}
      <4>1. \/ co.vol \in {"none", "maybe"} /\ co'.vol = "maybe"
            \/ co.vol \in {"maybe", "yes", "deleting"} /\ co'.vol = "deleting"
            \/ co.vol = "none" /\ co'.vol = "gone"
            \/ co.vol = "deleting" /\ co'.vol = "gone"
        BY <3>2, <3>5 DEF CoMove, Ending
      <4> QED
        BY <2>1, <3>1, <4>1, VolumeAsks, VolumeAnswers
    <3> QED
      BY <3>3, <3>4, <3>5
  <2>3. CASE co'.grown # co.grown
    <3>1. PICK p \in Requests : pc[p] = "expand_ok"
      BY <1>1, <2>3, GrownMoves
    <3>2. co' = [co EXCEPT !.grown = TRUE] /\ co.vol = "yes"
      BY <1>1, <2>3, GrownMoves
    <3>3. co'.vol = "yes" /\ co'.grown
      BY <1>1, <3>2 DEF CoTypes
    <3>4. Usable /\ req.grown <= cvc["vol"].status * GiB
      BY <3>1, <3>2 DEF AnswerInv, Ending
    <3>5. req.grown <= Bytes
      BY <3>4 DEF Bytes, Usable
    <3>6. ToldBytes' = req.grown
      BY <1>1, <3>3 DEF ToldBytes
    <3>7. ToldBytes' \in 0..Bytes
      BY <1>2, <1>3, <3>5, <3>6
    <3> QED
      BY <2>1, <3>2, <3>3, <3>4, <3>7, VolumeAnswers
  <2> QED
    BY <2>2, <2>3
<1>5. CASE UNCHANGED co
  <2>1. co'.vol = co.vol /\ UNCHANGED ToldBytes
    BY <1>1, <1>5 DEF ToldBytes
  <2>2. StoreStep
    BY <1>1, StoreSteps
  <2>3. CASE Posted
    <3>1. /\ "vol" \notin DOMAIN cvc /\ "vol" \in DOMAIN cvc'
          /\ ~cvc'["vol"].deleting /\ cvc'["vol"].status = 0
      BY <2>3 DEF Posted, Fresh
    <3>2. 0 * GiB = 0
      BY <1>2
    <3>3. ~Usable /\ Bytes = 0 /\ Usable' /\ Bytes' = 0
      BY <3>1, <3>2 DEF Usable, Bytes, Found
    <3> QED
      BY <2>1, <3>3, VolumeChanges
  <2>4. ASSUME NEW v \in DOMAIN cvc, Marked(v) \/ Grown(v) \/ Served(v) \/ Released(v),
               v # "vol"
        PROVE  UNCHANGED Volume!vars
    <3>1. /\ ("vol" \in DOMAIN cvc') = ("vol" \in DOMAIN cvc)
          /\ "vol" \in DOMAIN cvc => cvc'["vol"] = cvc["vol"]
      BY <2>4 DEF Marked, Grown, Served, Released, Edited, Dropped
    <3>2. UNCHANGED <<Usable, Bytes>>
      BY <3>1 DEF Usable, Bytes, Found
    <3> QED
      BY <2>1, <3>2, VolumeStill
  <2>5. CASE "vol" \in DOMAIN cvc /\ Served("vol")
    <3> DEFINE a == cvc["vol"].status
               b == cvc'["vol"].status
    <3>1. /\ "vol" \in DOMAIN cvc' /\ ~cvc["vol"].deleting /\ ~cvc'["vol"].deleting
      BY <2>5 DEF Served, Guarded, Edited
    <3>2. a \in Nat /\ b \in Nat /\ a <= b
      BY <2>5, <3>1, SizeStays
    <3>3. Bytes = a * GiB /\ Bytes' = b * GiB /\ Usable /\ Usable'
      BY <2>5, <3>1 DEF Bytes, Usable, Found
    <3> HIDE DEF a, b
    <3>4. b * GiB \in Nat /\ a * GiB \in Nat /\ a * GiB <= b * GiB
      BY <3>2, TimesGrows
    <3>5. Bytes' \in Nat /\ Bytes' >= Bytes
      BY <3>3, <3>4
    <3> QED
      BY <2>1, <3>3, <3>5, VolumeChanges
  <2>6. CASE "vol" \in DOMAIN cvc /\ Grown("vol")
    <3>1. /\ "vol" \in DOMAIN cvc' /\ cvc'["vol"].deleting = cvc["vol"].deleting
          /\ cvc'["vol"].status = cvc["vol"].status
      BY <2>6 DEF Grown, Guarded, Edited
    <3>2. UNCHANGED <<Usable, Bytes>>
      BY <2>6, <3>1 DEF Usable, Bytes, Found
    <3> QED
      BY <2>1, <3>2, VolumeStill
  <2>7. CASE "vol" \in DOMAIN cvc /\ (Marked("vol") \/ Released("vol"))
    <3>1. \/ "vol" \notin DOMAIN cvc'
          \/ /\ "vol" \in DOMAIN cvc' /\ cvc'["vol"].deleting
             /\ cvc'["vol"].status = cvc["vol"].status
      BY <2>7 DEF Marked, Released, Edited, Dropped, Sized
    <3>2. co.vol \in Ending
      <4>1. CASE Marked("vol")
        <5>1. "vol" \in DOMAIN cvc' /\ cvc'["vol"].deleting
          BY <2>7, <4>1 DEF Marked, Edited
        <5> QED
          BY <5>1, MarkedEnding
      <4>2. CASE Released("vol")
        BY <2>7, <4>2 DEF Released, AskedInv
      <4> QED
        BY <2>7, <4>1, <4>2
    <3>3. ~Usable' /\ Bytes' \in {Bytes, 0}
      BY <2>7, <3>1 DEF Usable, Bytes, Found
    <3> QED
      BY <2>1, <3>2, <3>3, VolumeChanges
  <2> QED
    BY <1>4, <2>2, <2>3, <2>4, <2>5, <2>6, <2>7 DEF StoreStep
<1> QED
  BY <1>1, <1>4, <1>5, OneChanges

-----------------------------------------------------------------------------
(* The theorems *)

\* The parts of the invariant hold at the start.
LEMMA InitParts == Init => /\ AskedInv /\ FinalizerInv /\ SourceInv /\ StageInv
                           /\ ConfigInv /\ AnswerInv
<1> SUFFICES ASSUME Init
             PROVE  /\ AskedInv /\ FinalizerInv /\ SourceInv /\ StageInv
                    /\ ConfigInv /\ AnswerInv
  OBVIOUS
<1>1. /\ pc = [p \in Procs |-> "idle"] /\ waiting = {} /\ cva = CVA!Zero
      /\ DOMAIN cvc = {"src"} /\ cvc["src"] = SourceCVC /\ cv = {"src"}
  BY DEF Init
<1>2. (\A p \in Requests : pc[p] = "idle") /\ pc["node"] = "idle"
  BY <1>1 DEF Procs
<1>3. /\ SourceCVC.finalizers = {"cvc"} /\ SourceCVC.deleting = FALSE
      /\ SourceCVC.name = "src" /\ SourceCVC.namespace = OpenEBSNamespace
      /\ SourceCVC.provisioned = 1 /\ SourceCVC.capacity = 1
      /\ SourceCVC.labels = {<<"cspc", "pool">>} /\ SourceCVC.source = <<>>
      /\ SourceCVC.nodeID = CHOOSE n \in Nodes : TRUE
  BY DEF SourceCVC, CVC!Zero
<1>4. /\ co.src = "yes" /\ co.vol \in {"none", "gone"}
      /\ co.snap = "yes" => SnapshotID \in snaps
  BY DEF Init
<1>5. AskedInv
  BY <1>1, <1>2, <1>3, StartKinds DEF AskedInv
<1>6. FinalizerInv
  BY <1>1, <1>3 DEF FinalizerInv, Found
<1>7. SourceInv
  BY <1>2, <1>4 DEF SourceInv, DeletedIsDeleted, SnapshotReal
<1>8. StageInv
  BY <1>1, <1>2 DEF StageInv, AttachmentComplete
<1>9. ConfigInv
  <2>1. CompleteAs("src", SourceCVC)
    <3>1. SourceCVC.nodeID \in Nodes
      BY <1>3, LifeAssumption
    <3>2. \E pool \in {l[2] : l \in {l \in SourceCVC.labels : l[1] = "cspc"}} : pool # ""
      <4>1. <<"cspc", "pool">> \in {l \in SourceCVC.labels : l[1] = "cspc"}
        BY <1>3
      <4>2. <<"cspc", "pool">>[2] = "pool"
        OBVIOUS
      <4>3. "pool" \in {l[2] : l \in {l \in SourceCVC.labels : l[1] = "cspc"}}
        BY <4>1, <4>2
      <4> QED
        BY <4>3
    <3>3. {l \in {<<"cspc", "pool">>} : l[1] = "source"} = {}
      OBVIOUS
    <3>4. {l[2] : l \in {l \in SourceCVC.labels : l[1] = "source"}} = {}
      BY <1>3, <3>3
    <3>5. /\ SourceCVC.name = "src" /\ SourceCVC.namespace = OpenEBSNamespace
          /\ 0 < SourceCVC.provisioned /\ SourceCVC.source = <<>>
      BY <1>3
    <3> QED
      BY <3>1, <3>2, <3>4, <3>5 DEF CompleteAs
  <2>2. OnlyCompleteCVCs
    BY <1>1, <1>3, <2>1, CompleteParts
  <2> QED
    BY <1>1, <1>2, <2>2 DEF ConfigInv, Found
<1>10. AnswerInv
  BY <1>2, <1>4 DEF AnswerInv
<1> QED
  BY <1>5, <1>6, <1>7, <1>8, <1>9, <1>10

\* All that the sidecars rely on while they wait, and all that each handler knows at
\* each of its calls, holds in every state (VolumeLife.IInv): for any requests,
\* number of goroutines, nodes and faults, and any order of their steps.
THEOREM LifeInductive == Spec => []IInv
<1>1. Init => IInv
  BY BaseInit, InitParts DEF IInv, BaseInv
<1>2. IInv /\ [Next]_vars => IInv'
  <2> SUFFICES ASSUME IInv, [Next]_vars
               PROVE  IInv'
    OBVIOUS
  <2>1. /\ BaseInv /\ AskedInv /\ FinalizerInv /\ SourceInv /\ StageInv
        /\ ConfigInv /\ AnswerInv
    BY DEF IInv, BaseInv
  <2>2. TypeOK' /\ HandlerInv' /\ CreateInv'
    BY <2>1, BaseStep DEF BaseInv
  <2> QED
    BY <2>1, <2>2, AskedStep, FinalizerStep, SourceStep, StageStep, ConfigStep, AnswerStep
       DEF IInv
<1> QED
  BY <1>1, <1>2, PTL DEF Spec

\* Every CVC in the store is one the operator can provision, whatever a request lacks
\* and whatever fails (CreateVolume, ProvisionVolume, updateCVCSize).
THEOREM CVCsComplete == Spec => []OnlyCompleteCVCs
<1>1. IInv => OnlyCompleteCVCs
  BY DEF IInv, ConfigInv
<1> QED
  BY <1>1, LifeInductive, PTL

\* A DeleteVolume that was answered for has deleted the volume, although it looks at
\* no error of its first call and may die after its second.
THEOREM DeletionIsReal == Spec => []DeletedIsDeleted
<1>1. IInv => DeletedIsDeleted
  BY DEF IInv, SourceInv
<1> QED
  BY <1>1, LifeInductive, PTL

\* A snapshot that was answered for is on the target (CreateSnapshot, DeleteSnapshot).
THEOREM SnapshotsAreReal == Spec => []SnapshotReal
<1>1. IInv => SnapshotReal
  BY DEF IInv, SourceInv
<1> QED
  BY <1>1, LifeInductive, PTL

\* An attachment in the store has all that a node needs (NodeStageVolume, although it
\* drops what the builder returns).
THEOREM AttachmentsComplete == Spec => []AttachmentComplete
<1>1. IInv => AttachmentComplete
  BY DEF IInv, StageInv
<1> QED
  BY <1>1, LifeInductive, PTL

\* The handlers implement ProvisionedVolume: a volume is answered for only while it is
\* there, a size only if the volume has it, and until its deletion is asked for it
\* neither goes away nor shrinks.
THEOREM VolumeImplements == Spec => VolumeSteps
<1>1. IInv /\ [Next]_vars => [Volume!Next]_(Volume!vars)
  <2> SUFFICES ASSUME IInv, [Next]_vars
               PROVE  [Volume!Next]_(Volume!vars)
    OBVIOUS
  <2>1. BaseInv /\ AskedInv /\ ConfigInv /\ AnswerInv
    BY DEF IInv, BaseInv
  <2> QED
    BY <2>1, VolumeStep
<1> QED
  BY <1>1, LifeInductive, PTL DEF Spec, VolumeSteps
=============================================================================
