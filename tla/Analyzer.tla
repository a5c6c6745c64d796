------------------------------ MODULE Analyzer ------------------------------
(***************************************************************************)
(* src/tools/frogbard_analyze.c: main, which gives the scans and the       *)
(* rounds of --all to the steps of Scans, and --collision to those of      *)
(* CollisionSmoke.                                                         *)
(***************************************************************************)
EXTENDS Scans, CollisionSmoke

CONSTANT
    CollisionTexts     \* argument texts of --collision

ASSUME CollisionAssumption ==
    CollisionTexts \subseteq [negative : BOOLEAN, digits : Nat, trailing : BOOLEAN]

vars == <<scanVars, smokeVars>>

Init == ScanInit /\ SmokeInit

\* The number of rounds is checked here; the bits, by collision_smoke's steps.
Collision ==
    /\ pc = "main" /\ command = "collision"
    /\ \E r \in Texts, b, n \in CollisionTexts :
          /\ rounds' = Parse(r, 0)
          /\ IF rounds' \in 1 .. MaxRounds
             THEN Call(Parse(n, 0), Parse(b, 0)) /\ pc' = "collision" /\ UNCHANGED status
             ELSE Return(2) /\ UNCHANGED smokeVars
    /\ UNCHANGED <<command, samples, turns, turn, sample, scan, masks, sums, drawn>>

\* A collision found and none found are both a success.
CollisionOver ==
    /\ pc = "collision" /\ smoke = "returned"
    /\ Return(IF result = -2 THEN 2 ELSE 0)
    /\ UNCHANGED <<args, turn, sample, scan, masks, sums, drawn, smokeVars>>

Returned == pc = "done" /\ UNCHANGED vars

Next ==
    \/ ScanNext /\ UNCHANGED smokeVars
    \/ SmokeNext /\ UNCHANGED scanVars
    \/ Collision \/ CollisionOver \/ Returned

Spec == Init /\ [][Next]_vars

\* The program runs by itself.
FairSpec == Spec /\ WF_vars(Next)

-----------------------------------------------------------------------------
(* Properties.                                                             *)

\* Every command ends.  The probe loop (frogbard_analyze.c:196) does so for every
\* sequence of digests only because the table keeps a free slot and probing gets to it.
Termination == <>(pc = "done")
=============================================================================
