----------------------------- MODULE MCPeekPoke ------------------------------
(***************************************************************************)
(* Instances of the peek and poke module for TLC. The users are            *)
(* interchangeable.                                                        *)
(***************************************************************************)
EXTENDS PeekPoke, TLC

(* Answers of one, of two and of all registers that fit, one that ends at   *)
(* the end of the address space, amounts just out of range, two writes,    *)
(* and a command that does not parse.                                      *)
SomeCommands ==
  {<<"r", 0, 0>>, <<"r", 0, 1>>, <<"r", 1, 2>>, <<"r", 0, 3>>, <<"r", 3, 2>>,
   <<"r", 0, 4>>, <<"w", 0, 1>>, <<"w", 2, 3>>, NoCommand}

Symmetry == Permutations(Users)
=============================================================================
