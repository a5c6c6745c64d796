----------------------------- MODULE MCFourWay -----------------------------
(***************************************************************************)
(* An instance of FourWay for TLC.                                         *)
(***************************************************************************)
EXTENDS FourWay, SmallWords

InitialWord(voice, lane) == (37 * voice + 5 * lane + 1) % Radix
EndWords == <<141, 22>>
Mark(n) == (3 * (n + 1)) % Radix

\* Four different messages of a length; and three that are alike.
Text(n, f, j) == [k \in 1 .. n |-> (f * k + j * (k + 3)) % 16]
Different(n, f) == [j \in Messages |-> Text(n, f, j)]
OneDiffers(n, f) == [j \in Messages |-> Text(n, f, IF j = 3 THEN 2 ELSE 1)]

\* Around the ends of a word, of a voice's share of a block, and of a block.
Lengths == {0, 1, 16, 17, 31, 32, 33, 64}
MessageLists == {Different(n, f) : n \in Lengths, f \in {0, 5}}
                \cup {OneDiffers(n, 3) : n \in {17, 32}}
=============================================================================
