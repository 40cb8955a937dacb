---------------------------- MODULE MCNameTable ----------------------------
(***************************************************************************)
(* Small instances of NameTable for TLC. Each cfg picks its names, users   *)
(* and hash functions among the definitions below.                         *)
(***************************************************************************)
EXTENDS NameTable

(* Alpha 2: a name is disclosed from the second user on.                   *)
AlphaTwoNow == {[alpha |-> 2, delta |-> 0]}
AlphaOneNow == {[alpha |-> 1, delta |-> 0]}
(* Two interfaces sharing the table.                                       *)
TwoSettings == {[alpha |-> 1, delta |-> 0], [alpha |-> 2, delta |-> 1]}

(* Users are their own slots, or, in a collision, two share slot 1.        *)
OwnSlot   == [u \in User |-> u]
Collision == [u \in User |-> IF u = 2 THEN 1 ELSE u]

(* All names in one bucket.                                                *)
OneBucket == [n \in Name |-> "b"]
=============================================================================
