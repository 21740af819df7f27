------------------------------ MODULE Rounding ------------------------------
(***************************************************************************)
(* Sizes: the driver asks for whole GiB.                                   *)
(***************************************************************************)
EXTENDS Integers

CONSTANT GiB    \* bytes of one GiB, scaled down for checking

ASSUME GiBAssumption == GiB \in Nat \ {0}

roundUpSize(bytes, unit) ==
  (bytes \div unit) + (IF bytes % unit > 0 THEN 1 ELSE 0)

RoundUpGiB(bytes) == roundUpSize(bytes, GiB)
=============================================================================
