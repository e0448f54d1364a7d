--------------------------- MODULE MCModuleLoading ---------------------------
(***************************************************************************)
(* An instance for TLC. The modules share the device numbers and nothing   *)
(* else: the drivers whose exit functions differ are loaded together, two  *)
(* at a time.                                                              *)
(***************************************************************************)
EXTENDS ModuleLoading

Pairs == {{"adc", "gpio"}, {"gpio", "pwm"}, {"hw"}}
=============================================================================
