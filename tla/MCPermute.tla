----------------------------- MODULE MCPermute -----------------------------
(***************************************************************************)
(* An instance of PermuteCalls for TLC.                                    *)
(***************************************************************************)
EXTENDS PermuteCalls, SmallWords

\* Zero, one bit, all lanes alike, and all lanes different.
StartStates ==
    {[i \in Voices |-> [j \in Lanes |-> 0]],
     [i \in Voices |-> [j \in Lanes |-> IF i = 2 /\ j = 5 THEN 1 ELSE 0]],
     [i \in Voices |-> [j \in Lanes |-> 29]],
     [i \in Voices |-> [j \in Lanes |-> 8 * i + j]]}
=============================================================================
