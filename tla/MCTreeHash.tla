----------------------------- MODULE MCTreeHash -----------------------------
(***************************************************************************)
(* Instances of TreeHash for TLC.                                          *)
(***************************************************************************)
EXTENDS TreeHashInv

\* An ideal hash: the message itself, so that no two messages collide.
IdealHash(m) == m

\* Files of distinct bytes: a byte in the wrong place shows.
Distinct(n) == [k \in 1 .. n |-> k]
ByteRange == 1 .. 19

\* The empty file and up to nine leaves of two bytes: every shape of the last group of
\* four and of the odd node of a level, up to four levels; and, for MaxLeaves = 9, one
\* leaf too many.
ThreadFiles == {Distinct(n) : n \in {0, 1, 3, 6, 7, 8, 9, 12, 13, 17, 19}}
\* Files another process edits.
EditedFiles == {<< >>, <<1, 2, 1>>, <<2, 1, 2, 1, 1>>}

AllFaults == {"ENOENT", "EBADF", "EINVAL", "ENOMEM", "EAGAIN", "EINTR", "EIO"}
OnlineValues == {-1, 2, 40}
=============================================================================
