------------------------------ MODULE TlsHello ------------------------------
(***************************************************************************)
(* The TLS module: tlsHelloEntry (src/src/tls_mng.c) walks the extensions  *)
(* of a client hello for the server name (type 0).                         *)
(*                                                                         *)
(* A hello is what the walk sees of it: the types and lengths of its       *)
(* extensions, all of them in the packet, and the length declared for them *)
(* together; the server name, and the byte behind it: the walk takes the   *)
(* name for a C string. Past the last extension that byte is whatever      *)
(* memory holds there.                                                     *)
(***************************************************************************)
EXTENDS Integers, Sequences, FiniteSets, FiniteSetsExt

SERVER_NAME == 0

(* Where extension k starts; that of one past the last is the end.         *)
Start(h, k) == MapThenSumSet(LAMBDA j : 4 + h.exts[j].len, 1 .. k - 1)

(* The extension that ends the loop, if curr < maxchar still holds there.  *)
Met(h) ==
    {k \in DOMAIN h.exts :
        /\ h.exts[k].type = SERVER_NAME /\ Start(h, k) < h.length
        /\ \A j \in 1 .. k - 1 : h.exts[j].type # SERVER_NAME}

(* The name that is looked up, << >> if there is none: the function        *)
(* returns without it if namelen is 0 or is not strlen(curr).              *)
ServerName(h) == IF Met(h) # {} /\ h.behind = 0 THEN h.name ELSE << >>

(* What it returns then: 0, but there is no return for a walk that ends    *)
(* exactly at maxchar, and the caller reads what the register holds.       *)
WithoutName(h) ==
    IF Met(h) = {} /\ \E k \in 1 .. Len(h.exts) + 1 : Start(h, k) = h.length THEN {0, 1} ELSE {0}

=============================================================================
