------------------------ MODULE GpioImplementsService ------------------------
(***************************************************************************)
(* The driver implements the service: a refinement mapping from the state  *)
(* of GpioDriver to that of GpioService. The bits of the registers become  *)
(* sets of pins.                                                           *)
(***************************************************************************)
EXTENDS GpioDriver

PhaseOf(label) ==
  CASE label = "closed" -> "out"
    [] label \in {"open", "direction"} -> "in"
    [] label = "apply"  -> "writing"
    [] label = "state"  -> "reading"
    [] label = "copy"   -> "told"

Phase  == [p \in Procs |-> PhaseOf(pc[p])]
Uses   == [p \in Procs |-> IF pc[p] = "closed" THEN <<"none", "none">> ELSE file[p]]
Answer == [p \in Procs |-> IF pc[p] = "copy" THEN {buffer[p]} ELSE {}]
Carried == [p \in Procs |-> IF offset[p] = 0 THEN {} ELSE {buffer[p]}]
Steady == {p \in Watching : calm[p]}

Outputs == {pin \in Pins : IsOutput(pin)}
High    == {pin \in Pins : Latch(pin)}

Service == INSTANCE GpioService WITH
  phase <- Phase, uses <- Uses, carried <- Carried, answer <- Answer,
  steady <- Steady, outputs <- Outputs, high <- High

(* Every behaviour of the driver is one of the service: pins are apart,    *)
(* though their bits share registers, an open file carries the first       *)
(* character that passed through it and every write sets that one, and a   *)
(* read of a value answers with the level of its second look, unless the   *)
(* direction changed since the first (file.c:37-192, gpio.c:164-234).      *)
ServiceSpec == Service!Spec
=============================================================================
