---------------------------- MODULE PermuteCalls ----------------------------
(***************************************************************************)
(* A caller of frogbard_permute_reduced and                                *)
(* frogbard_permute_inverse_reduced (src/src/frogbard.c) on one state, in  *)
(* either order, with the same number of rounds, as the self-test and the  *)
(* analyzer do.  A step is one round of the running call.                  *)
(***************************************************************************)
EXTENDS Permutation

CONSTANTS
    States,        \* states the caller may start from
    RoundArgs      \* values it may pass as rounds

ASSUME CallerAssumption == States \subseteq State /\ RoundArgs \subseteq Nat

VARIABLES
    v,             \* the caller's state
    asked,         \* the number of rounds it asks for, in both calls
    running,       \* the call that runs, "permute" or "inverse"; or "none"
    round,         \* the number of rounds that lie between 0 and v
    calls,         \* calls begun
    trace          \* ghost: the states the first call passed through, by round

vars == <<v, asked, running, round, calls, trace>>

\* Faulty: no clamp.
ClampNot(rounds) == rounds

\* The two calls clamp alike, from above only.
Clamp(rounds) == IF rounds > MaxRounds THEN MaxRounds ELSE rounds

StartOf(call, rounds) == IF call = "permute" THEN 0 ELSE Clamp(rounds)
EndOf(call, rounds)   == IF call = "permute" THEN Clamp(rounds) ELSE 0

Init ==
    /\ v \in States /\ asked \in RoundArgs
    /\ running = "none" /\ round = 0 /\ calls = 0
    /\ trace = << >>

\* The first call, of either function.
CallFirst ==
    /\ calls = 0
    /\ \E call \in {"permute", "inverse"} :
          /\ running' = call
          /\ round' = StartOf(call, asked)
          /\ trace' = [r \in {StartOf(call, asked)} |-> v]
    /\ calls' = 1
    /\ UNCHANGED <<v, asked>>

\* One turn of frogbard_permute_rounds.
Round ==
    /\ running = "permute" /\ round < Clamp(asked)
    /\ v' = ApplyRound(v, round)
    /\ round' = round + 1
    /\ trace' = IF calls = 1 THEN [r \in DOMAIN trace \cup {round + 1} |->
                                     IF r = round + 1 THEN v' ELSE trace[r]]
                ELSE trace
    /\ UNCHANGED <<asked, running, calls>>

\* One turn of frogbard_inverse_rounds.
InverseRound ==
    /\ running = "inverse" /\ round > 0
    /\ v' = ApplyInverseRound(v, round - 1)
    /\ round' = round - 1
    /\ trace' = IF calls = 1 THEN [r \in DOMAIN trace \cup {round - 1} |->
                                     IF r = round - 1 THEN v' ELSE trace[r]]
                ELSE trace
    /\ UNCHANGED <<asked, running, calls>>

\* The first call has returned; the caller makes the other one.
CallSecond ==
    /\ calls = 1 /\ round = EndOf(running, asked)
    /\ running' = IF running = "permute" THEN "inverse" ELSE "permute"
    /\ round' = StartOf(running', asked)
    /\ calls' = 2
    /\ UNCHANGED <<v, asked, trace>>

Returned == calls = 2 /\ round = EndOf(running, asked) /\ UNCHANGED vars

Next == CallFirst \/ Round \/ InverseRound \/ CallSecond \/ Returned

Spec == Init /\ [][Next]_vars

-----------------------------------------------------------------------------
(* Properties.                                                             *)

\* The rounds run are rounds the tables have constants for.
TypeOK ==
    /\ v \in State /\ asked \in RoundArgs /\ calls \in 0 .. 2
    /\ running \in {"none", "permute", "inverse"}
    /\ round \in 0 .. MaxRounds
    /\ DOMAIN trace \subseteq 0 .. MaxRounds
    /\ \A r \in DOMAIN trace : trace[r] \in State

\* apply_inverse_round (frogbard.c:320) undoes apply_round and the other way
\* round, layer by layer and round by round: the second call passes through
\* exactly the states the first one did, backwards, and ends where it began.
Retraces == calls = 2 => round \in DOMAIN trace /\ v = trace[round]
=============================================================================
