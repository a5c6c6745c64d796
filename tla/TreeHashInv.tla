----------------------------- MODULE TreeHashInv -----------------------------
(***************************************************************************)
(* The inductive invariant of TreeHash, in named parts.  The safety        *)
(* properties of TreeHash are not inductive as they stand: that a claimed  *)
(* slot is empty, say, rests on every slot beyond the counter being empty. *)
(* TLC checks IInv on small instances, TreeHashProofs proves it for all.   *)
(***************************************************************************)
EXTENDS TreeHash

Early   == {"open", "fstat", "malloc", "calloc"}
Working == {"create", "join"}
Late    == {"reduce", "cleanup", "done"}

\* Workers are created and joined in order; those created exist, those joined
\* have returned, and past the joins none runs.
ThreadsInv ==
    /\ joined <= created
    /\ mpc \in Early => created = 0
    /\ mpc \in Early \cup {"create"} => joined = 0
    /\ mpc \in Working => created <= threads /\ threads > 0
    /\ mpc = "join" /\ created < threads => error_code # OK
    /\ \A t \in Workers : wpc[t] = "none" <=> t >= created
    /\ \A t \in Workers : t < joined => wpc[t] = "exited"
    /\ mpc \in Late => \A t \in Workers : ~Running(t)

\* What the call holds at each point, and what cleanup would wipe.
ResourcesInv ==
    /\ fd <=> mpc \notin {"open", "done"}
    /\ mpc \in Early \cup {"done"} => ~thread_ids
    /\ mpc \in {"open", "fstat", "malloc", "done"} => block = 0
    /\ mpc \in {"calloc"} \cup Working => block = leaf_count
    /\ mpc \in {"malloc", "calloc"} \cup Working =>
          leaf_count > 0 /\ leaf_alloc_count = leaf_count
    /\ mpc = "reduce" => block = root_count /\ root_count > 0
    /\ WipeFitsBlock

\* Groups lie below the counter and apart from each other, and neither a claimed
\* slot nor one beyond the counter holds a digest.
ClaimsInv ==
    /\ mpc \in Early => next_group = 0
    /\ \A t \in Workers : Owns(t) =>
          /\ first[t] < leaf_count /\ first[t] + Lanes <= next_group
          /\ lane[t] < GroupSize(t)
          /\ \A i \in Group(t) : nodes[i] = Unset
    /\ \A t, u \in Workers : Owns(t) /\ Owns(u) /\ t # u =>
          first[t] + Lanes <= first[u] \/ first[u] + Lanes <= first[t]
    /\ mpc \in {"calloc"} \cup Working =>
          \A i \in 0 .. leaf_count - 1 : i >= next_group => nodes[i] = Unset

\* Until cleanup nothing has failed unless error_code says so, and it names a
\* failure that happened.
ErrorsInv ==
    /\ error_code # OK => error_code \in faults
    /\ mpc \in Early \cup {"reduce"} => error_code = OK
    /\ mpc \notin {"cleanup", "done"} => result = -1 /\ (error_code = OK => faults = {})
    /\ mpc \in {"cleanup", "done"} =>
          IF result = 0 THEN faults = {} ELSE faults # {} /\ err \in faults \cup {CloseError}

\* While no error is stored, a worker has left only because the leaves ran out,
\* and every leaf below the counter is hashed or in the hands of a worker.
CoverageInv ==
    /\ mpc \in Working /\ error_code = OK =>
          /\ \A t \in Workers : wpc[t] \in {"exit", "exited"} => next_group >= leaf_count
          /\ \A i \in 0 .. leaf_count - 1 : i < next_group =>
                nodes[i] # Unset \/ \E t \in Workers : Owns(t) /\ i \in Group(t)
    /\ mpc \in Early \cup Working => level = 0
    /\ mpc = "reduce" /\ level = 0 =>
          \A i \in 0 .. leaf_count - 1 : nodes[i] # Unset

IInv == TypeOK /\ ThreadsInv /\ ResourcesInv /\ ClaimsInv /\ ErrorsInv /\ CoverageInv

-----------------------------------------------------------------------------
(* What the buffers and the table hold, against the bytes read: the second *)
(* invariant, which rests on IInv.                                         *)

Position(i, k) == i * ChunkBytes + k

\* Leaf i of view has been read.
LeafRead(i) == \A k \in 1 .. Length(i) : view[Position(i, k)] # Unset

\* Slot i of the table holds the digest of what was read for leaf i.
LeafHashed(i) == LeafRead(i) /\ nodes[i] = LeafDigest(view, i)

\* The first n bytes of lane j of worker t are the bytes read for its leaf.
LaneHolds(t, j, n) ==
    \A k \in 1 .. n : /\ scratch[t][j][k] = view[Position(first[t] + j, k)]
                       /\ view[Position(first[t] + j, k)] # Unset

ContentsInv ==
    /\ view \in [1 .. file_size -> Bytes \cup {Unset}]
    /\ leaf_count > 0 => leaf_count = LeafCount(file_size)
    /\ \A t \in Workers : Owns(t) =>
          /\ done[t] <= LaneLength(t)
          /\ LaneHolds(t, lane[t], done[t])
          /\ \A j \in 0 .. lane[t] - 1 : LaneHolds(t, j, Length(first[t] + j))
          /\ wpc[t] = "hash" => lane[t] + 1 >= GroupSize(t) /\ done[t] = LaneLength(t)
    /\ mpc \in {"calloc"} \cup Working =>
          \A i \in 0 .. leaf_count - 1 : nodes[i] # Unset => LeafHashed(i)
    /\ mpc = "reduce" /\ level = 0 =>
          leaf_count > 0 /\ \A i \in 0 .. leaf_count - 1 : LeafHashed(i)

-----------------------------------------------------------------------------
(* How far the counter may run: the third invariant, which rests on IInv.  *)

Left == {t \in Workers : wpc[t] \in {"exit", "exited"}}

\* Only a worker on its way out has taken a group beyond the table.
OvershootInv == next_group < leaf_count + Lanes * (Cardinality(Left) + 1)

-----------------------------------------------------------------------------
(* The work that is left: what each step of a thread diminishes.           *)

Stages == [open |-> 8, fstat |-> 7, malloc |-> 6, calloc |-> 5, create |-> 4,
           join |-> 3, reduce |-> 2, cleanup |-> 1, done |-> 0]
Tasks == CASE mpc = "create" -> threads - created
           [] mpc = "join"   -> created - joined
           [] mpc = "reduce" -> root_count
           [] OTHER -> 0
MainWork == <<Stages[mpc], Tasks>>

\* The leaves from the next one a worker may get, or from its own, to the end.
Ahead(t) ==
    CASE wpc[t] \in {"start", "check", "claim"} ->
           IF next_group < leaf_count THEN leaf_count - next_group ELSE 0
      [] Owns(t) -> leaf_count - first[t]
      [] OTHER -> 0

Phases == [start |-> 6, check |-> 5, claim |-> 4, read |-> 3, hash |-> 2, exit |-> 1,
           exited |-> 0, none |-> 0]
WorkerWork(t) == <<Ahead(t), Phases[wpc[t]], Lanes - lane[t], ChunkBytes - done[t]>>

\* Numbers in lexicographic order: b lies below a.
Below(b, a) ==
    /\ \A k \in DOMAIN a : a[k] \in Nat /\ b[k] \in Nat
    /\ \E k \in DOMAIN a : b[k] < a[k] /\ \A j \in 1 .. k - 1 : b[j] = a[j]

\* A step does not add to the work of t.
Kept(t) == WorkerWork(t)' = WorkerWork(t) \/ Below(WorkerWork(t)', WorkerWork(t))

\* Each step that is not an edit diminishes the work: that of the caller, who may hand
\* work to a new worker, or that of one worker while nobody else's grows.  So whatever
\* fails, however short the reads and whichever loads of error_code are stale
\* (frogbard_tree.c:87-147), the call takes finitely many steps but for preads that
\* EINTR interrupts, which change nothing.
Shrinks ==
    \/ Below(MainWork', MainWork)
    \/ /\ MainWork' = MainWork /\ \A t \in Workers : Kept(t)
       /\ edits' = edits + 1 \/ \E t \in Workers : Below(WorkerWork(t)', WorkerWork(t))
WorkShrinks == [][Shrinks]_vars

-----------------------------------------------------------------------------
(* What the call gives its caller: the fourth invariant, which rests on    *)
(* the others and on the reference tree of TreeEncoding.                   *)

\* The nodes that the reduction has reached are those of the reference tree over the
\* bytes read, and no level below had a single node.
Reduced ==
    /\ threads > 0 /\ leaf_count > 0
    /\ \A k \in 1 .. file_size : view[k] # Unset
    /\ root_count = LevelWidth(leaf_count, level)
    /\ \A l \in 0 .. level - 1 : LevelWidth(leaf_count, l) > 1
    /\ \A i \in 0 .. root_count - 1 : nodes[i] = TreeNodes(view)[<<level, i>>]

AnswerInv ==
    /\ seen \subseteq Seq(Bytes) /\ file \in seen
    /\ leaf_count > 0 => \E c \in seen : Len(c) = file_size
    /\ \A k \in 1 .. file_size :
          view[k] # Unset => \E c \in seen : k <= Len(c) /\ c[k] = view[k]
    /\ mpc \notin {"cleanup", "done"} => answer = NoAnswer
    /\ result = IF answer = NoAnswer THEN -1 ELSE 0
    /\ mpc = "reduce" => Reduced
=============================================================================
