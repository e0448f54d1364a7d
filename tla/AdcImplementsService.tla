------------------------ MODULE AdcImplementsService -------------------------
(***************************************************************************)
(* The driver implements the service: a refinement mapping from the state  *)
(* of AdcDriver to that of AdcService.                                     *)
(***************************************************************************)
EXTENDS AdcDriver

CONSTANT Button  \* the service's client for a press of EINT0

ASSUME ButtonAssumption == Button \notin Readers \cup {NULL}

PhaseOf(label) ==
  CASE label \in {"closed", "open"}   -> "idle"
    [] label \in {"down", "waiting"}  -> "wants"
    [] label \in {"task", "state", "select", "channel", "strobe"} -> "served"
    [] label \in {"schedule", "value"} -> "measured"
    [] label \in {"up", "copy"}       -> "answered"

(* The semaphore's owner: the button, or the reader inside, or nobody.     *)
Owner ==
  IF gpHeld THEN Button
  ELSE IF InsideReaders = {} THEN NULL
  ELSE CHOOSE r \in Readers : r \in InsideReaders

Phase == [r \in Readers |-> PhaseOf(pc[r])]

(* What f holds for a reader, in the phases in which the service knows it. *)
During(phases, f, nothing) ==
  [r \in Readers |-> IF Phase[r] \in phases THEN f[r] ELSE nothing]

Wish    == During({"wants", "served", "measured", "answered"}, channel, 0)
Answer  == During({"answered"}, value, 0)
Watched == During({"measured"}, seen, {})

Service == INSTANCE AdcService WITH
  NoClient <- NULL, phase <- Phase, owner <- Owner, wish <- Wish,
  answer <- Answer, seen <- Watched

(* Every behaviour of the driver in which no signal interrupts a read is   *)
(* one of the service: one client at a time, and answers measured for the  *)
(* reader that gets them (adc.c:140-218).                                  *)
ServiceSpec == Service!Spec
=============================================================================
