----------------------------- MODULE MCLruList -----------------------------
(* A small instance of LruList for TLC.                                    *)
EXTENDS LruList

(* Two interfaces: a strict one and a lenient one.                         *)
TwoSettings == {[alpha |-> 1, delta |-> 0], [alpha |-> 2, delta |-> 1]}
=============================================================================
