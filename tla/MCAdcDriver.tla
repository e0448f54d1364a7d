----------------------------- MODULE MCAdcDriver -----------------------------
(***************************************************************************)
(* Instances of the ADC driver for TLC. The readers are interchangeable,   *)
(* so runs without liveness properties use their symmetry.                 *)
(***************************************************************************)
EXTENDS AdcImplementsService, AdcInvariant, TLC

Symmetry == Permutations(Readers)
=============================================================================
