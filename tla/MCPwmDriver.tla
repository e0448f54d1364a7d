----------------------------- MODULE MCPwmDriver -----------------------------
(***************************************************************************)
(* Instances of the PWM driver for TLC. The processes are interchangeable. *)
(***************************************************************************)
EXTENDS PwmImplementsService, TLC

(* Two functions of one register, and the two users of the clock register. *)
SomeFiles == {<<1, "enable">>, <<1, "duty">>, <<1, "frequency">>, <<2, "frequency">>}

Symmetry == Permutations(Procs)

(* Every overlap in dev_open is reached and checked, but not what follows  *)
(* it: no property but TypeOK, which is proved, says anything of that.     *)
UpToOverlap == ~overlapped

(* Settings that uninitialized memory may hold: a stopped clock, and a     *)
(* divider of 21.                                                          *)
SomeGarbage == {<<0, 0>>, <<3, 7>>}
=============================================================================
