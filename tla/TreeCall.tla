------------------------------ MODULE TreeCall ------------------------------
(***************************************************************************)
(* What one call of frogbard_tree_hash_file promises its caller, while the *)
(* file may be edited by others: the call either returns 0 having          *)
(* published, once, the tree digest of one VIEW of the file, or returns -1 *)
(* having published nothing.  A view has the length the file had at some   *)
(* moment of the call and, at each position, a byte the file held there at *)
(* some moment of the call; when nobody edits the file, that is the file.  *)
(***************************************************************************)
EXTENDS TreeEncoding

CONSTANTS
    MaxThreads,    \* TREE_MAX_THREADS
    Bytes          \* the bytes a file may hold

VARIABLES
    file,          \* the file's bytes now
    seen,          \* every content the file has had since the call began
    view,          \* the bytes the published digest covers
    answer,        \* what was written to out and stats
    returned       \* InCall, or the value returned: 0 or -1

callVars == <<file, seen, view, answer, returned>>

InCall == 1
NoAnswer == << >>  \* out and stats are as the caller left them

IsView(v, contents) ==
    /\ \E c \in contents : Len(c) = Len(v)
    /\ \A k \in 1 .. Len(v) : \E c \in contents : k <= Len(c) /\ c[k] = v[k]

\* out and *stats on success (used_avx2, a constant of the build, is left out).
Answer(digest, size, leaves, levels, threads) ==
    [out |-> digest, file_size |-> size, leaf_count |-> leaves,
     levels |-> levels, threads |-> threads]

CallInit ==
    /\ file \in Seq(Bytes)
    /\ seen = {file}
    /\ view = << >>
    /\ answer = NoAnswer
    /\ returned = InCall

EditFile ==
    /\ file' \in Seq(Bytes)
    /\ seen' = seen \cup {file'}
    /\ UNCHANGED <<view, answer, returned>>

Publish ==
    /\ returned = InCall /\ answer = NoAnswer
    /\ IsView(view', seen)
    /\ \E t \in 1 .. MaxThreads :
          answer' = Answer(TreeDigest(view'), Len(view'), LeafCount(Len(view')),
                           TreeHeight(LeafCount(Len(view'))), t)
    /\ UNCHANGED <<file, seen, returned>>

Return ==
    /\ returned = InCall
    /\ returned' = IF answer = NoAnswer THEN -1 ELSE 0
    /\ UNCHANGED <<file, seen, view, answer>>

CallNext == EditFile \/ Publish \/ Return

CallSpec == CallInit /\ [][CallNext]_callVars
=============================================================================
