------------------------- MODULE ControllerServiceMC -------------------------
(* ControllerService on a small instance. *)
EXTENDS ControllerService
=============================================================================
