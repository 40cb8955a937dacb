----------------------------- MODULE AlphaAnon -----------------------------
(***************************************************************************)
(* What alpha-anonymization promises to the users (src/README.md:82), with *)
(* no hash table, list, lock or clock: whoever asks for a name is          *)
(* recorded and gets a verdict in one step, and the name passes in clear   *)
(* only if alpha distinct users asked for it. Hiding is always allowed.    *)
(* The promise about the delta interval is not part of it: the code does   *)
(* not keep it (NameTable, HiddenBelowAlpha).                              *)
(***************************************************************************)
EXTENDS Naturals, FiniteSets

CONSTANTS Core, Name, User, Setting

VARIABLES
    askers,  \* askers[n]: the users that asked for n so far
    verdict  \* verdict[c]: what core c is about to do with its packet's name,
             \* a set of one verdict, or of none

vars == <<askers, verdict>>

(* A verdict goes with the setting of the interface it is for.             *)
Verdict == [k : Setting, pass : BOOLEAN]

Init ==
    /\ askers = [n \in Name |-> {}]
    /\ verdict = [c \in Core |-> {}]

Ask(c, n, u, v) ==
    /\ verdict[c] = {}
    /\ askers' = [askers EXCEPT ![n] = @ \cup {u}]
    /\ v.pass => Cardinality(askers'[n]) >= v.k.alpha
    /\ verdict' = [verdict EXCEPT ![c] = {v}]

Apply(c) ==
    /\ verdict[c] # {}
    /\ verdict' = [verdict EXCEPT ![c] = {}]
    /\ UNCHANGED askers

Next ==
    \/ \E c \in Core, n \in Name, u \in User, v \in Verdict :
         Ask(c, n, u, v)
    \/ \E c \in Core : Apply(c)

Spec == Init /\ [][Next]_vars

=============================================================================
