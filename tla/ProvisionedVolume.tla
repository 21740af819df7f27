-------------------------- MODULE ProvisionedVolume --------------------------
(***************************************************************************)
(* What the controller service promises its callers about one volume,      *)
(* without handlers, CVCs and GiB.  A volume is answered for only while it *)
(* is there, a size only if the volume has it, and until somebody asks to  *)
(* delete the volume it neither goes away nor shrinks.  It may come back   *)
(* after it was deleted: a forgotten create may still take effect.         *)
(***************************************************************************)
EXTENDS Naturals

VARIABLES
  st,       \* none, maybe (asked for), yes (answered for), deleting, gone
  there,    \* the volume can be used
  size,     \* its bytes
  told      \* the bytes an expansion was last answered for

vars == <<st, there, size, told>>

Alive == st \in {"none", "maybe", "yes"}

Init == st = "none" /\ there = FALSE /\ size = 0 /\ told = 0

\* CreateVolume and DeleteVolume are called, or the volume is never asked for.
Ask == /\ \/ st \in {"none", "maybe"} /\ st' = "maybe"
          \/ st \in {"maybe", "yes", "deleting"} /\ st' = "deleting"
          \/ st = "none" /\ st' = "gone"
       /\ UNCHANGED <<there, size, told>>

\* The volume is made, of no size yet, and grows.
Appear == /\ ~there /\ size = 0 /\ there' = TRUE
          /\ UNCHANGED <<st, size, told>>

Grow == /\ there /\ size' \in Nat /\ size' >= size
        /\ UNCHANGED <<st, there, told>>

\* The volume goes away, at once or in two steps.
Vanish == /\ ~Alive /\ there' = FALSE /\ size' \in {size, 0}
          /\ UNCHANGED <<st, told>>

AnswerCreate == /\ st = "maybe" /\ there /\ st' = "yes"
                /\ UNCHANGED <<there, size, told>>

AnswerExpand == /\ st = "yes" /\ there /\ told' \in 0..size
                /\ UNCHANGED <<st, there, size>>

AnswerDelete == /\ st = "deleting" /\ st' = "gone"
                /\ UNCHANGED <<there, size, told>>

Next == \/ Ask \/ Appear \/ Grow \/ Vanish
        \/ AnswerCreate \/ AnswerExpand \/ AnswerDelete

Spec == Init /\ [][Next]_vars
=============================================================================
