------------------------ MODULE PwmImplementsService -------------------------
(***************************************************************************)
(* The driver implements the service: a refinement mapping from the state  *)
(* of PwmDriver to that of PwmService. A setting counts from the moment in *)
(* which the process stores it, that of a frequency from the first of its  *)
(* two stores on.                                                          *)
(***************************************************************************)
EXTENDS PwmInvariant

PhaseOf(label) ==
  CASE label \in {"closed", "opening"} -> "out"
    [] label \in {"load", "loadClock", "store"} -> "writing"
    [] label \in {"open", "storeClock", "get", "getClock", "print", "copy"} -> "in"

Phase == [p \in Procs |-> PhaseOf(pc[p])]
Uses  == [p \in Procs |-> IF Phase[p] = "out" THEN <<0, "none">> ELSE file[p]]
Wish  == [p \in Procs |-> IF Phase[p] = "writing" THEN asked[file[p]] ELSE Never]

Enabled == [w \in PWMs |-> control[w].enabled]
Duty    == [w \in PWMs |-> control[w].duty]

(* The clock register, with what a process is about to store there.        *)
ClockToCome ==
  IF \E p \in Procs : pc[p] = "storeClock"
  THEN clockCopy[CHOOSE p \in Procs : pc[p] = "storeClock"]
  ELSE clock

Rate == [w \in PWMs |-> [source |-> ClockToCome[w].source, freq |-> ClockToCome[w].freq,
                         reloadv |-> control[w].reloadv]]

Service == INSTANCE PwmService WITH
  Numbers <- [function \in Functions |-> Inputs(function)],
  phase <- Phase, uses <- Uses, wish <- Wish,
  enabled <- Enabled, duty <- Duty, rate <- Rate, collided <- overlapped

(* Every behaviour of the driver is one of the service: the buffer and the *)
(* registers that all files share, and the steps between reading and       *)
(* storing a register, are never seen, up to an overlap in dev_open        *)
(* (file.c:24-150, pwm.c:88-227).                                          *)
ServiceSpec == Service!Spec
=============================================================================
