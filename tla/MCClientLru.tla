---------------------------- MODULE MCClientLru ----------------------------
(* A small instance of ClientLru for TLC: clients are interchangeable.     *)
EXTENDS ClientLru, TLC

(* Two interfaces: a strict one and a lenient one.                         *)
TwoSettings == {[alpha |-> 1, delta |-> 1], [alpha |-> 2, delta |-> 0]}

ClientSymmetry == Permutations(Slot)
=============================================================================
