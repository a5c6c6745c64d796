----------------------------- MODULE MCSelfTest -----------------------------
(***************************************************************************)
(* An instance of SelfTest for TLC, with the sizes of the code, blocks of  *)
(* 128 bytes and messages of 257, except for the word.                     *)
(***************************************************************************)
EXTENDS SelfTest

AllFaults == {"none", "inverse_first", "inverse_last", "forgets", "uncounted",
              "restarts", "stale", "replaced", "lane_no_pad"}

AllBytes   == SUBSET (0 .. 7)

\* A length of every remainder modulo the harness's 257.
Longer     == 1778 .. 2034
SomeSizes  == {0, 1, 127, 128, 129, 1777} \cup Longer
SomeLens   == {0, 1, 126, 127, 128, 129, 255, 256, 257}
SomePieces == {1, 2, 30, 31, 129, 130, 255, 256, 300}
=============================================================================
