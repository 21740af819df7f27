----------------------- MODULE ControllerServiceProofs -----------------------
(***************************************************************************)
(* Safety of the controller service for any number of goroutines, any GiB  *)
(* and any sizes: what CreateVolume and ControllerExpandVolume answered    *)
(* for stays true until the volume is given up.                            *)
(***************************************************************************)
EXTENDS ControllerService, TLAPS

-----------------------------------------------------------------------------
(* The rounding. *)

\* roundUpSize gives enough units to hold the bytes: nothing that was asked for
\* is lost when a size is passed on in GiB.
LEMMA RoundUpHolds ==
  ASSUME NEW s \in Nat
  PROVE  /\ RoundUpGiB(s) \in Nat
         /\ s <= RoundUpGiB(s) * GiB
<1> DEFINE q == s \div GiB
           m == s % GiB
<1>1. GiB \in Nat /\ GiB > 0
  BY ControllerAssumption, GiBAssumption
<1>2. q \in Nat /\ m \in Nat /\ m < GiB /\ s = GiB * q + m
  BY <1>1, SMT
<1>3. CASE m > 0
  <2>1. RoundUpGiB(s) = q + 1
    BY <1>2, <1>3 DEF RoundUpGiB, roundUpSize
  <2>2. (q + 1) * GiB = GiB * q + GiB
    BY <1>1, <1>2, SMT
  <2> QED
    BY <1>1, <1>2, <2>1, <2>2
<1>4. CASE m = 0
  <2>1. RoundUpGiB(s) = q
    BY <1>2, <1>4 DEF RoundUpGiB, roundUpSize
  <2>2. q * GiB = GiB * q
    BY <1>1, <1>2, SMT
  <2> QED
    BY <1>1, <1>2, <1>4, <2>1, <2>2
<1> QED
  BY <1>2, <1>3, <1>4

-----------------------------------------------------------------------------
(* Types. *)

\* The rounded sizes, of which every capacity of the CVC is one.
LEMMA RoundedSize ==
  ASSUME NEW s \in {0} \cup Sizes
  PROVE  RoundUpGiB(s) \in Capacities
<1>2. CASE s = 0
  <2>1. GiB \in Nat /\ GiB > 0
    BY ControllerAssumption, GiBAssumption
  <2>2. RoundUpGiB(0) = 0
    BY <2>1, SMT DEF RoundUpGiB, roundUpSize
  <2> QED
    BY <1>2, <2>2 DEF Capacities
<1> QED
  BY <1>2 DEF Capacities

\* Capacities are natural numbers, 0 among them.
LEMMA CapacitiesNat == Capacities \subseteq Nat /\ 0 \in Capacities
BY ControllerAssumption, GiBAssumption, RoundUpHolds DEF Capacities

\* No step of the controller, the sidecars or the operator leaves the types; in
\* particular a patch writes a rounded size.
LEMMA TypeStep == TypeOK /\ [Next]_vars => TypeOK'
<1> SUFFICES ASSUME TypeOK, [Next]_vars
             PROVE  TypeOK'
  OBVIOUS
<1> USE ControllerAssumption, GiBAssumption, CapacitiesNat
<1>0. CASE UNCHANGED vars
  BY <1>0 DEF TypeOK, vars
<1>1. ASSUME NEW r \in Requests, Handler(r)
      PROVE  TypeOK'
  <2> DEFINE desired == RoundUpGiB(arg[r].size)
  <2>0. desired \in Capacities
    <3>1. arg[r].size \in {0} \cup Sizes
      BY DEF TypeOK
    <3> QED
      BY <3>1, RoundedSize
  <2>1. CASE CreateGet(r)
    BY <2>1 DEF TypeOK, CreateGet, Goto, Calls, Ends
  <2>2. CASE CreatePost(r)
    <3>1. cvc' \in CVCRecord
      BY <2>2, <2>0 DEF TypeOK, CreatePost, CVCRecord, Absent
    <3>2. pc[r] \in Calls /\ OnError(pc[r]) \in Ends
      BY <2>2 DEF CreatePost, OnError, Calls, Ends
    <3>3. pc' \in [Requests -> {"idle"} \cup Calls \cup Ends] /\ faults' \in 0..MaxFaults
      BY <2>2, <3>2 DEF TypeOK, CreatePost, Reply, Fault, Goto, Calls, Ends
    <3> QED
      BY <2>2, <3>1, <3>3 DEF TypeOK, CreatePost
  <2>3. CASE DeleteGet(r)
    BY <2>3 DEF TypeOK, DeleteGet, Goto, Calls, Ends
  <2>4. CASE DeleteDel(r)
    <3>1. cvc' \in CVCRecord
      BY <2>4 DEF TypeOK, DeleteDel, CVCRecord
    <3>2. pc[r] \in Calls /\ OnError(pc[r]) \in Ends
      BY <2>4 DEF DeleteDel, OnError, Calls, Ends
    <3>3. pc' \in [Requests -> {"idle"} \cup Calls \cup Ends] /\ faults' \in 0..MaxFaults
      BY <2>4, <3>2 DEF TypeOK, DeleteDel, Reply, Fault, Goto, Calls, Ends
    <3> QED
      BY <2>4, <3>1, <3>3 DEF TypeOK, DeleteDel
  <2>5. CASE ExpandGet(r)
    BY <2>5 DEF TypeOK, ExpandGet, CVCRecord, Goto, Calls, Ends
  <2>6. CASE ExpandPatch(r)
    <3>1. cvc' \in CVCRecord
      BY <2>6, <2>0 DEF TypeOK, ExpandPatch, Patched, CVCRecord
    <3>2. pc[r] \in Calls /\ OnError(pc[r]) \in Ends
      BY <2>6 DEF ExpandPatch, OnError, Calls, Ends
    <3>3. pc' \in [Requests -> {"idle"} \cup Calls \cup Ends] /\ faults' \in 0..MaxFaults
      BY <2>6, <3>2 DEF TypeOK, ExpandPatch, Reply, Fault, Goto, Calls, Ends
    <3> QED
      BY <2>6, <3>1, <3>3 DEF TypeOK, ExpandPatch
  <2>7. CASE ExpandVerify(r)
    BY <2>7 DEF TypeOK, ExpandVerify, Goto, Calls, Ends
  <2>8. CASE Return(r)
    BY <2>8 DEF TypeOK, Return, Goto, Learn, NoArg, Calls, Ends
  <2> QED
    BY <1>1, <2>1, <2>2, <2>3, <2>4, <2>5, <2>6, <2>7, <2>8 DEF Handler
<1>2. ASSUME NEW r \in Requests, CallFails(r)
      PROVE  TypeOK'
  BY <1>2 DEF TypeOK, CallFails, Fault, Goto, OnError, Calls, Ends
<1>3. CASE Sidecar
  <2>1. ASSUME NEW p \in Calls, NEW k, Call(p, k)
        PROVE  /\ pc' \in [Requests -> {"idle"} \cup Calls \cup Ends]
               /\ arg' \in [Requests -> [size : {0} \cup Sizes, seen : Capacities]]
               /\ call' \subseteq Requests
               /\ co' = k /\ UNCHANGED <<cvc, faults>>
    <3>1. PICK r \in Requests :
            /\ Goto(r, p)
            /\ arg' = [arg EXCEPT ![r] = [NoArg EXCEPT !.size = co.want]]
            /\ call' = {r}
      BY <2>1 DEF Call
    <3>2. [NoArg EXCEPT !.size = co.want] \in [size : {0} \cup Sizes, seen : Capacities]
      BY DEF TypeOK, NoArg, Capacities
    <3>3. pc' \in [Requests -> {"idle"} \cup Calls \cup Ends]
      BY <3>1 DEF TypeOK, Goto
    <3>4. arg' \in [Requests -> [size : {0} \cup Sizes, seen : Capacities]]
      BY <3>1, <3>2 DEF TypeOK
    <3> QED
      BY <2>1, <3>1, <3>3, <3>4 DEF Call
  <2>2. CASE CallCreate
    <3>1. Call("create_get", [co EXCEPT !.st = "maybe"]) /\ "create_get" \in Calls
      BY <2>2 DEF CallCreate, Calls
    <3>2. co' = [co EXCEPT !.st = "maybe"] /\ UNCHANGED <<cvc, faults>>
      BY <2>1, <3>1
    <3> QED
      BY <2>1, <3>1, <3>2 DEF TypeOK
  <2>3. CASE CallExpand
    <3>1. Call("expand_get", co) /\ "expand_get" \in Calls
      BY <2>3 DEF CallExpand, Calls
    <3>2. co' = co /\ UNCHANGED <<cvc, faults>>
      BY <2>1, <3>1
    <3> QED
      BY <2>1, <3>1, <3>2 DEF TypeOK
  <2>4. CASE CallDelete
    <3>1. Call("delete_get", [co EXCEPT !.st = "deleting"]) /\ "delete_get" \in Calls
      BY <2>4 DEF CallDelete, Calls
    <3>2. co' = [co EXCEPT !.st = "deleting"] /\ UNCHANGED <<cvc, faults>>
      BY <2>1, <3>1
    <3> QED
      BY <2>1, <3>1, <3>2 DEF TypeOK
  <2> QED
    BY <1>3, <2>2, <2>3, <2>4 DEF Sidecar
<1>4. CASE CallTimeout
  BY <1>4 DEF TypeOK, CallTimeout, Fault
<1>5. CASE ControllerCrash
  BY <1>5 DEF TypeOK, ControllerCrash, Fault, NoArg
<1>6. CASE Claim
  BY <1>6 DEF TypeOK, Claim
<1>7. CASE Grow
  BY <1>7 DEF TypeOK, Grow
<1>8. CASE GiveUp
  BY <1>8 DEF TypeOK, GiveUp
<1>9. CASE Bind
  BY <1>9 DEF TypeOK, Bind, CVCRecord
<1>10. CASE Resize
  BY <1>10 DEF TypeOK, Resize, CVCRecord
<1>11. CASE Reap
  BY <1>11 DEF TypeOK, Reap, CVCRecord, Absent
<1> QED
  BY <1>0, <1>1, <1>2, <1>3, <1>4, <1>5, <1>6, <1>7, <1>8, <1>9, <1>10, <1>11 DEF Next

\* The specification keeps TypeOK: capacities in the CVC are whole GiB of sizes
\* that were asked for, for any Requests, GiB, Sizes and faults.
THEOREM ControllerTypes == Spec => []TypeOK
<1>1. Init => TypeOK
  BY ControllerAssumption, GiBAssumption, CapacitiesNat DEF Init, TypeOK, CVCRecord, Absent, NoArg
<1> QED
  BY <1>1, TypeStep, PTL DEF Spec

-----------------------------------------------------------------------------
(* What was answered stays true. *)

\* A larger capacity holds more bytes.
LEMMA CapacityMonotone ==
  ASSUME NEW a \in Nat, NEW b \in Nat, a <= b
  PROVE  /\ a * GiB <= b * GiB
         /\ a * GiB \in Int /\ b * GiB \in Int
<1>1. GiB \in Nat
  BY ControllerAssumption, GiBAssumption
<1> QED
  BY <1>1, SMT

\* A call of the controller, successful or not, keeps IInv: it answers for a volume only if
\* it saw one, and for a size only if the volume has it.
LEMMA HandlerKeepsIInv ==
  ASSUME IInv, TypeOK', NEW r \in Requests, Handler(r) \/ CallFails(r)
  PROVE  IInv'
<1> USE ControllerAssumption, GiBAssumption, CapacitiesNat
<1> DEFINE desired == RoundUpGiB(arg[r].size)
<1>0. /\ desired \in Nat
      /\ arg[r].size \in Nat
      /\ arg[r].size <= desired * GiB
  <2>0. TypeOK
    BY DEF IInv
  <2>1. arg[r].size \in Nat
    BY <2>0 DEF TypeOK
  <2> QED
    BY <2>1, RoundUpHolds
<1>1. CASE CreateGet(r)
  BY <1>1 DEF IInv, TypeOK, CreateGet, Goto, Alive
<1>2. CASE CreatePost(r)
  <2>1. CASE cvc.exists
    BY <1>2, <2>1 DEF IInv, TypeOK, CreatePost, Goto, Alive
  <2>2. CASE ~cvc.exists
    <3>1. /\ cvc'.exists /\ ~cvc'.deleting
          /\ cvc'.phase = "Pending" /\ cvc'.status = 0 /\ cvc.status = 0
      <4>1. cvc = Absent
        BY <2>2 DEF IInv
      <4> QED
        BY <1>2, <2>2, <4>1 DEF CreatePost, Absent
    <3>2. pc' = [pc EXCEPT ![r] = "create_ok"] \/ pc' = [pc EXCEPT ![r] = "create_err"]
      BY <1>2, <2>2 DEF CreatePost, Reply, Goto, OnError
    <3> QED
      BY <1>2, <2>2, <3>1, <3>2 DEF IInv, TypeOK, CreatePost, Alive
  <2> QED
    BY <2>1, <2>2
<1>3. CASE DeleteGet(r)
  BY <1>3 DEF IInv, TypeOK, DeleteGet, Goto, Alive
<1>4. CASE DeleteDel(r)
  <2>1. ~Alive
    BY <1>4 DEF IInv, DeleteDel
  <2>2. pc' = [pc EXCEPT ![r] = "delete_ok"] \/ pc' = [pc EXCEPT ![r] = "delete_err"]
    BY <1>4 DEF DeleteDel, Reply, Goto, OnError
  <2>3. /\ cvc'.exists = cvc.exists /\ cvc'.phase = cvc.phase /\ cvc'.status = cvc.status
        /\ ~cvc.exists => cvc' = cvc
    BY <1>4 DEF IInv, TypeOK, CVCRecord, DeleteDel
  <2> QED
    BY <1>4, <2>1, <2>2, <2>3 DEF IInv, TypeOK, DeleteDel, Alive
<1>5. CASE ExpandGet(r)
  <2>1. /\ arg' = [arg EXCEPT ![r].seen = cvc.spec]
        /\ pc' \in {[pc EXCEPT ![r] = p] : p \in {"expand_err", "expand_patch", "expand_ok"}}
        /\ pc'[r] = "expand_ok" => desired = cvc.status
    BY <1>5 DEF IInv, TypeOK, ExpandGet, Goto
  <2>2. \A z \in Requests : arg'[z].size = arg[z].size
    BY <2>1 DEF IInv, TypeOK
  <2> QED
    BY <1>0, <1>5, <2>1, <2>2 DEF IInv, TypeOK, ExpandGet, Alive
<1>6. CASE ExpandPatch(r)
  <2>1. pc' = [pc EXCEPT ![r] = "expand_verify"] \/ pc' = [pc EXCEPT ![r] = "expand_err"]
    BY <1>6 DEF ExpandPatch, Reply, Goto, OnError
  <2>2. /\ cvc'.exists = cvc.exists /\ cvc'.deleting = cvc.deleting
        /\ cvc'.phase = cvc.phase /\ cvc'.status = cvc.status
        /\ ~cvc.exists => cvc' = cvc
    BY <1>6 DEF IInv, TypeOK, CVCRecord, ExpandPatch, Patched
  <2> QED
    BY <1>6, <2>1, <2>2 DEF IInv, TypeOK, ExpandPatch, Alive
<1>7. CASE ExpandVerify(r)
  BY <1>0, <1>7 DEF IInv, TypeOK, ExpandVerify, Goto, Alive
<1>8. CASE Return(r)
  BY <1>8 DEF IInv, TypeOK, Return, Goto, Learn, NoArg, Alive
<1>9. CASE CallFails(r)
  <2>1. pc[r] \in Calls /\ pc' = [pc EXCEPT ![r] = OnError(pc[r])]
    BY <1>9 DEF CallFails, Goto
  <2> QED
    BY <1>9, <2>1 DEF IInv, TypeOK, CallFails, OnError, Calls, Alive
<1> QED
  BY <1>1, <1>2, <1>3, <1>4, <1>5, <1>6, <1>7, <1>8, <1>9 DEF Handler

\* Neither do the sidecars, the claim's owner, the operator and the faults break IInv: a
\* volume only grows until it is reaped, and it is reaped only after a delete.
LEMMA EnvironmentKeepsIInv ==
  ASSUME IInv, TypeOK',
         \/ Sidecar \/ CallTimeout \/ ControllerCrash
         \/ Claim \/ Grow \/ GiveUp
         \/ Bind \/ Resize \/ Reap
  PROVE  IInv'
<1> USE ControllerAssumption, GiBAssumption, CapacitiesNat
<1>1. CASE CallCreate
  BY <1>1 DEF IInv, TypeOK, CallCreate, Call, Goto, NoArg, Alive
<1>2. CASE CallExpand
  BY <1>2 DEF IInv, TypeOK, CallExpand, Call, Goto, NoArg, Alive
<1>3. CASE CallDelete
  BY <1>3 DEF IInv, TypeOK, CallDelete, Call, Goto, NoArg, Alive
<1>4. CASE CallTimeout
  BY <1>4 DEF IInv, TypeOK, CallTimeout, Alive
<1>5. CASE ControllerCrash
  BY <1>5 DEF IInv, TypeOK, ControllerCrash, Alive
<1>6. CASE Claim
  BY <1>6 DEF IInv, TypeOK, Claim, Alive
<1>7. CASE Grow
  BY <1>7 DEF IInv, TypeOK, Grow, Alive
<1>8. CASE GiveUp
  BY <1>8 DEF IInv, TypeOK, GiveUp, Alive
<1>9. CASE Bind \/ Resize
  <2>1. /\ cvc'.exists /\ cvc.exists /\ cvc'.phase = "Bound"
        /\ cvc'.deleting = cvc.deleting
        /\ cvc.status \in Nat /\ cvc'.status \in Nat /\ cvc.status <= cvc'.status
    <3>1. cvc \in CVCRecord /\ (cvc.phase = "Pending" => cvc.status = 0)
      BY DEF IInv, TypeOK
    <3>2. CASE Bind
      BY <3>1, <3>2 DEF CVCRecord, Bind
    <3>3. CASE Resize
      BY <3>1, <3>3 DEF CVCRecord, Resize
    <3> QED
      BY <1>9, <3>2, <3>3
  <2>2. /\ cvc.status * GiB <= cvc'.status * GiB
        /\ cvc.status * GiB \in Int /\ cvc'.status * GiB \in Int
    BY <2>1, CapacityMonotone
  <2>0. TypeOK
    BY DEF IInv
  <2>3. \A z \in Requests : arg[z].size \in Nat
    BY <2>0 DEF TypeOK
  <2>4. co.grown \in Nat
    BY <2>0 DEF TypeOK
  <2>5. UNCHANGED <<pc, arg, co, call>>
    BY <1>9 DEF Bind, Resize
  <2> QED
    BY <2>1, <2>2, <2>3, <2>4, <2>5 DEF IInv, Alive
<1>10. CASE Reap
  <2>1. ~Alive
    BY <1>10 DEF IInv, Reap
  <2> QED
    BY <1>10, <2>1 DEF IInv, TypeOK, Reap, Absent, Alive
<1> QED
  BY <1>1, <1>2, <1>3, <1>4, <1>5, <1>6, <1>7, <1>8, <1>9, <1>10 DEF Sidecar

\* IInv is an invariant of the controller service: no order of late, repeated, failed
\* and interrupted calls makes an answer untrue while the volume is alive.
THEOREM ControllerInvariant == Spec => []IInv
<1>1. Init => IInv
  BY ControllerAssumption, GiBAssumption, CapacitiesNat
  DEF Init, IInv, TypeOK, CVCRecord, Absent, NoArg, Alive
<1>2. IInv /\ [Next]_vars => IInv'
  <2> SUFFICES ASSUME IInv, [Next]_vars
               PROVE  IInv'
    OBVIOUS
  <2>1. TypeOK'
    BY TypeStep DEF IInv
  <2>2. CASE UNCHANGED vars
    BY <2>1, <2>2 DEF IInv, vars, Alive
  <2>3. CASE Next
    BY <2>1, <2>3, HandlerKeepsIInv, EnvironmentKeepsIInv DEF Next
  <2> QED
    BY <2>2, <2>3
<1> QED
  BY <1>1, <1>2, PTL DEF Spec

\* A volume CreateVolume has answered for exists, undeleted, until it is given up.
THEOREM CreateKept == Spec => []ProvisionedExists
<1>1. IInv => ProvisionedExists
  BY DEF IInv, ProvisionedExists, Alive
<1> QED
  BY <1>1, ControllerInvariant, PTL

\* A volume ControllerExpandVolume has answered for has the size, in bytes, until it is
\* given up, although sizes are passed on in rounded GiB.
THEOREM ExpandKept == Spec => []GrowthReal
<1>1. IInv => GrowthReal
  BY DEF IInv, GrowthReal, Alive
<1> QED
  BY <1>1, ControllerInvariant, PTL

-----------------------------------------------------------------------------
(* Refinement of ProvisionedVolume. *)

\* A handler's step is a step of the promised volume or changes nothing the sidecars
\* see: it answers only for what is there and has the size.
LEMMA HandlerImplements ==
  ASSUME IInv, NEW r \in Requests, Handler(r) \/ CallFails(r)
  PROVE  [Volume!Next]_(Volume!vars)
<1> USE ControllerAssumption, GiBAssumption, CapacitiesNat
<1>1. CASE CreateGet(r) \/ DeleteGet(r) \/ ExpandGet(r) \/ ExpandVerify(r) \/ CallFails(r)
  BY <1>1 DEF CreateGet, DeleteGet, ExpandGet, ExpandVerify, CallFails, Volume!vars
<1>2. CASE CreatePost(r)
  <2>1. CASE cvc.exists
    BY <1>2, <2>1 DEF CreatePost, Volume!vars
  <2>2. CASE ~cvc.exists
    <3>1. /\ cvc'.exists /\ ~cvc'.deleting
          /\ cvc'.status = 0 /\ cvc.status = 0
          /\ UNCHANGED co
      <4>1. cvc = Absent
        BY <2>2 DEF IInv
      <4> QED
        BY <1>2, <2>2, <4>1 DEF CreatePost, Absent
    <3>2. 0 * GiB = 0
      BY GiBAssumption
    <3>3. Volume!Appear
      BY <2>2, <3>1, <3>2 DEF Volume!Appear
    <3> QED
      BY <3>3 DEF Volume!Next
  <2> QED
    BY <2>1, <2>2
<1>3. CASE DeleteDel(r)
  <2>1. CASE ~cvc.exists
    BY <1>3, <2>1 DEF DeleteDel, Volume!vars
  <2>2. CASE cvc.exists
    <3>1. /\ ~Alive
          /\ cvc'.deleting /\ cvc'.status = cvc.status
          /\ UNCHANGED co
      BY <1>3, <2>2 DEF IInv, TypeOK, CVCRecord, DeleteDel
    <3>2. Volume!Vanish
      BY <3>1 DEF Volume!Vanish, Volume!Alive, Alive
    <3> QED
      BY <3>2 DEF Volume!Next
  <2> QED
    BY <2>1, <2>2
<1>4. CASE ExpandPatch(r)
  <2>1. /\ cvc'.exists = cvc.exists /\ cvc'.deleting = cvc.deleting
        /\ cvc'.status = cvc.status
        /\ UNCHANGED co
    BY <1>4 DEF IInv, TypeOK, CVCRecord, ExpandPatch, Patched
  <2> QED
    BY <2>1 DEF Volume!vars
<1>5. CASE Return(r)
  <2>0. /\ UNCHANGED cvc
        /\ pc[r] \in Ends
        /\ co' = IF r \in call THEN Learn(co, pc[r], arg[r].size) ELSE co
    BY <1>5 DEF Return
  <2>1. CASE r \notin call \/ pc[r] \notin {"create_ok", "expand_ok", "delete_ok"}
    BY <2>0, <2>1 DEF Learn, Volume!vars
  <2>2. CASE r \in call /\ pc[r] = "create_ok"
    <3>1. co.st = "maybe" /\ cvc.exists /\ ~cvc.deleting
      BY <2>2 DEF IInv, Alive
    <3>2. co' = [co EXCEPT !.st = "yes", !.granted = arg[r].size]
      BY <2>0, <2>2 DEF Learn
    <3>3. co'.st = "yes" /\ co'.grown = co.grown
      BY <3>2 DEF IInv, TypeOK
    <3>4. Volume!AnswerCreate
      BY <2>0, <3>1, <3>3 DEF Volume!AnswerCreate
    <3> QED
      BY <3>4 DEF Volume!Next
  <2>3. CASE r \in call /\ pc[r] = "expand_ok"
    <3>1. /\ co.st = "yes" /\ cvc.exists /\ ~cvc.deleting
          /\ arg[r].size <= cvc.status * GiB
      BY <2>3 DEF IInv, Alive
    <3>2. co' = [co EXCEPT !.grown = arg[r].size]
      BY <2>0, <2>3 DEF Learn
    <3>3. co'.grown = arg[r].size /\ co'.st = co.st
      BY <3>2 DEF IInv, TypeOK
    <3>4. arg[r].size \in Nat /\ cvc.status \in Nat /\ cvc.status * GiB \in Int
      <4>0. TypeOK
        BY DEF IInv
      <4>1. arg[r].size \in Nat /\ cvc.status \in Nat
        BY <4>0 DEF TypeOK, CVCRecord
      <4> QED
        BY <4>1, CapacityMonotone
    <3>5. arg[r].size \in 0..(cvc.status * GiB)
      BY <3>1, <3>4
    <3>6. Volume!AnswerExpand
      BY <2>0, <3>1, <3>3, <3>5 DEF Volume!AnswerExpand
    <3> QED
      BY <3>6 DEF Volume!Next
  <2>4. CASE r \in call /\ pc[r] = "delete_ok"
    <3>1. co.st = "deleting"
      BY <2>4 DEF IInv
    <3>2. co' = [co EXCEPT !.st = "gone"]
      BY <2>0, <2>4 DEF Learn
    <3>3. co'.st = "gone" /\ co'.grown = co.grown
      BY <3>2 DEF IInv, TypeOK
    <3>4. Volume!AnswerDelete
      BY <2>0, <3>1, <3>3 DEF Volume!AnswerDelete
    <3> QED
      BY <3>4 DEF Volume!Next
  <2> QED
    BY <2>1, <2>2, <2>3, <2>4
<1> QED
  BY <1>1, <1>2, <1>3, <1>4, <1>5 DEF Handler

\* So is every step of the sidecars, the claim's owner, the operator and the faults.
LEMMA EnvironmentImplements ==
  ASSUME IInv,
         \/ Sidecar \/ CallTimeout \/ ControllerCrash
         \/ Claim \/ Grow \/ GiveUp
         \/ Bind \/ Resize \/ Reap
  PROVE  [Volume!Next]_(Volume!vars)
<1> USE ControllerAssumption, GiBAssumption, CapacitiesNat
<1>1. CASE CallCreate \/ CallDelete \/ GiveUp
  <2>1. UNCHANGED cvc /\ co'.grown = co.grown
    BY <1>1 DEF IInv, TypeOK, CallCreate, CallDelete, GiveUp, Call
  <2>2. \/ co.st \in {"none", "maybe"} /\ co'.st = "maybe"
        \/ co.st \in {"yes", "maybe", "deleting"} /\ co'.st = "deleting"
        \/ co.st = "none" /\ co'.st = "gone"
        \/ co'.st = co.st
    BY <1>1 DEF IInv, TypeOK, CallCreate, CallDelete, GiveUp, Call
  <2>3. Volume!Ask \/ UNCHANGED Volume!vars
    BY <2>1, <2>2 DEF Volume!Ask, Volume!vars
  <2> QED
    BY <2>3 DEF Volume!Next
<1>2. CASE CallExpand \/ CallTimeout \/ ControllerCrash \/ Claim \/ Grow
  <2>1. UNCHANGED cvc /\ co'.st = co.st /\ co'.grown = co.grown
    BY <1>2 DEF IInv, TypeOK, CallExpand, Call, CallTimeout, ControllerCrash, Claim, Grow
  <2> QED
    BY <2>1 DEF Volume!vars
<1>3. CASE Bind \/ Resize
  <2>1. /\ cvc.exists /\ ~cvc.deleting /\ cvc'.exists /\ ~cvc'.deleting
        /\ cvc.status \in Nat /\ cvc'.status \in Nat /\ cvc.status <= cvc'.status
        /\ UNCHANGED co
    <3>1. cvc \in CVCRecord /\ (cvc.phase = "Pending" => cvc.status = 0)
      BY DEF IInv, TypeOK
    <3>2. CASE Bind
      BY <3>1, <3>2 DEF CVCRecord, Bind
    <3>3. CASE Resize
      BY <3>1, <3>3 DEF CVCRecord, Resize
    <3> QED
      BY <1>3, <3>2, <3>3
  <2>2. /\ cvc.status * GiB <= cvc'.status * GiB
        /\ cvc'.status * GiB \in Nat /\ cvc.status * GiB \in Nat
    <3>1. \A n \in Nat : n * GiB \in Nat
      BY SMT, GiBAssumption
    <3> QED
      BY <2>1, <3>1, CapacityMonotone
  <2>3. Volume!Grow
    BY <2>1, <2>2 DEF Volume!Grow
  <2> QED
    BY <2>3 DEF Volume!Next
<1>4. CASE Reap
  <2>1. /\ ~Alive /\ ~cvc'.exists /\ cvc'.status = 0 /\ UNCHANGED co
    BY <1>4 DEF IInv, Reap, Absent
  <2>2. 0 * GiB = 0
    BY GiBAssumption
  <2>3. Volume!Vanish
    BY <2>1, <2>2 DEF Volume!Vanish, Volume!Alive, Alive
  <2> QED
    BY <2>3 DEF Volume!Next
<1> QED
  BY <1>1, <1>2, <1>3, <1>4 DEF Sidecar

\* The controller service implements ProvisionedVolume: through all late, repeated, failed
\* and interrupted calls the sidecars see one volume that is there when it is answered
\* for and has every size that was answered for, until they delete it.
THEOREM ControllerImplements == Spec => ImplementsVolume
<1>1. Init => Volume!Init
  <2>1. 0 * GiB = 0
    BY GiBAssumption
  <2> QED
    BY <2>1 DEF Init, Absent, Volume!Init
<1>2. IInv /\ [Next]_vars => [Volume!Next]_(Volume!vars)
  <2> SUFFICES ASSUME IInv, [Next]_vars
               PROVE  [Volume!Next]_(Volume!vars)
    OBVIOUS
  <2>1. CASE UNCHANGED vars
    BY <2>1 DEF vars, Volume!vars
  <2>2. CASE Next
    BY <2>2, HandlerImplements, EnvironmentImplements DEF Next
  <2> QED
    BY <2>1, <2>2
<1> QED
  BY <1>1, <1>2, ControllerInvariant, PTL DEF Spec, ImplementsVolume, Volume!Spec

=============================================================================
