---------------------------- MODULE MCCryptoPan ----------------------------
(* An instance of CryptoPan with words of three bits.                      *)
EXTENDS CryptoPan

(* Two pads and every first bit Rijndael may give: its inputs all end with *)
(* the pad's last bit, so what it gives for the others does not matter.    *)
Keys ==
    UNION { { [m_pad |-> pad, rijndael |-> r] :
              r \in { f \in [Address -> Bit] : \A a \in Address : a[3] # pad[3] => f[a] = 0 } } :
            pad \in {<<1, 0, 1>>, <<0, 1, 0>>} }

(* All ones and zeros as in the code, and two masks that halve the word.   *)
Masks == <<<<1, 1, 1>>, <<1, 0, 1>>, <<0, 1, 0>>, <<0, 0, 0>>>>

(* More addresses than the caches hold, with common prefixes.              *)
Four == {<<0, 0, 0>>, <<0, 0, 1>>, <<0, 1, 0>>, <<1, 1, 1>>}

Two6 == {<<<<0, 0, 1>>, <<0, 0, 0>>, <<1, 1, 1>>, <<0, 0, 0>>>>,
         <<<<0, 0, 1>>, <<0, 0, 0>>, <<1, 0, 1>>, <<0, 0, 1>>>>}
=============================================================================
