---------------------------- MODULE MCGpioDriver -----------------------------
(***************************************************************************)
(* Instances of the GPIO driver for TLC, with pins of the ports 2 and 3,   *)
(* which share their DIR register. The processes are interchangeable.      *)
(***************************************************************************)
EXTENDS GpioImplementsService, TLC

Symmetry == Permutations(Procs)
=============================================================================
