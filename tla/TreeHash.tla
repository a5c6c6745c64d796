------------------------------ MODULE TreeHash ------------------------------
(***************************************************************************)
(* One call of frogbard_tree_hash_file (src/src/frogbard_tree.c): the      *)
(* calling thread opens and sizes the file, allocates the leaf table,      *)
(* creates up to MaxThreads workers, joins them, reduces the leaf digests  *)
(* level by level in blocks it allocates and frees, publishes the root and *)
(* cleans up; the workers claim groups of leaves from a shared counter,    *)
(* read them with pread and store their digests.  Every system call may    *)
(* fail, and other processes may edit the file at any moment.              *)
(*                                                                         *)
(* An action is one step of one thread between two points where another    *)
(* thread, or the file, can matter: a system call, or a load or            *)
(* read-modify-write of the shared atomics.  What a thread does to its own *)
(* memory in between belongs to the action.                                *)
(***************************************************************************)
EXTENDS TreeEncoding, FiniteSets

CONSTANTS
    Lanes,         \* leaves claimed at once and hashed together (4)
    MaxThreads,    \* TREE_MAX_THREADS (32)
    MaxLeaves,     \* SIZE_MAX / FROGBARD_DIGEST_BYTES
    Bytes,         \* the bytes a file may hold
    Files,         \* the contents the file may have when the call begins
    Requests,      \* values the caller may pass as requested_threads
    Online,        \* what sysconf(_SC_NPROCESSORS_ONLN) may return; -1: failure
    Faults,        \* the errno values the environment's failures may carry
    MaxEdits,      \* bound: edits of the file during the call
    Unset          \* what malloc leaves in a byte or a digest

OK == "none"       \* error_code and errno before anything failed
NoAnswer == << >>  \* out and stats are as the caller left them

ASSUME ParameterAssumption ==
    /\ Lanes \in Nat \ {0}
    /\ MaxThreads \in Nat \ {0}
    /\ MaxLeaves \in Nat \ {0}
    /\ MaxEdits \in Nat
    /\ Files \subseteq Seq(Bytes)
    /\ Requests \subseteq Nat
    /\ Online \subseteq Int
    /\ OK \notin Faults
    /\ Unset \notin Bytes

\* No digest of a leaf is mistaken for memory nobody wrote.
ASSUME DigestAssumption ==
    \A i \in 0 .. MaxLeaves - 1 : \A length, n \in 0 .. ChunkBytes :
        \A payload \in [1 .. n -> Bytes \cup {Unset}] :
            Hash(LeafMessage(i, length, payload)) # Unset

Workers == 0 .. MaxThreads - 1

VARIABLES
    file,            \* the file's bytes now
    edits,           \* edits made so far
    seen,            \* ghost: every content the file has had during the call
    faults,          \* ghost: the errno values failures have carried so far
    view,            \* ghost: the bytes the workers' preads have returned
    (* the calling thread *)
    mpc,             \* where it is
    fd,              \* the descriptor is open
    file_size,
    leaf_count,
    threads,         \* workers it wants
    thread_ids,      \* the table of pthread_t is allocated
    created,         \* workers it has created
    joined,          \* workers it has joined
    block,           \* digests in the live block that leaves points to; 0: NULL
    nodes,           \* the contents of that block
    root_count,      \* the count reduce_tree has reached
    level,           \* the level it has reached
    leaf_alloc_count,\* how many digests cleanup will wipe
    err,             \* errno of the calling thread
    answer,          \* out and *stats
    result,          \* the value it will return
    (* tree_shared *)
    next_group,
    error_code,
    (* the workers *)
    wpc,             \* where each worker is
    first,           \* the first leaf of the group it claimed
    lane,            \* the member of the group it is reading (j)
    done,            \* how many bytes of that leaf it has read
    scratch          \* its Lanes payload buffers; << >> when not allocated

envVars    == <<file, edits, seen>>
mainVars   == <<mpc, fd, file_size, leaf_count, threads, thread_ids, created,
                joined, block, root_count, level, leaf_alloc_count, err,
                answer, result>>
workerVars == <<wpc, first, lane, done, scratch>>
vars == <<envVars, faults, view, mainVars, nodes, next_group, error_code, workerVars>>

-----------------------------------------------------------------------------
(* choose_thread_count, and the group of leaves a worker claimed.  There   *)
(* is at least one leaf, so its clamps of groups and threads to 1 cannot   *)
(* apply and are left out.                                                 *)

ChooseThreadCount(requested, online, leaves) ==
    LET wanted == IF requested # 0 THEN requested
                  ELSE IF online > 0 THEN online ELSE 1
        groups == (leaves + Lanes - 1) \div Lanes
    IN  AtMost(AtMost(wanted, MaxThreads), groups)

GroupSize(t)  == AtMost(leaf_count - first[t], Lanes)
Group(t)      == first[t] .. first[t] + GroupSize(t) - 1
Length(i)     == ChunkLength(file_size, i)
LaneLength(t) == Length(first[t] + lane[t])

Buffers == [0 .. Lanes - 1 -> [1 .. ChunkBytes -> Bytes \cup {Unset}]]
GarbageScratch == [j \in 0 .. Lanes - 1 |-> [k \in 1 .. ChunkBytes |-> Unset]]

-----------------------------------------------------------------------------
Init ==
    /\ file \in Files /\ edits = 0 /\ seen = {file}
    /\ faults = {} /\ view = << >>
    /\ mpc = "open" /\ fd = FALSE
    /\ file_size = 0 /\ leaf_count = 0 /\ threads = 0
    /\ thread_ids = FALSE /\ created = 0 /\ joined = 0
    /\ block = 0 /\ nodes = << >> /\ root_count = 0 /\ level = 0
    /\ leaf_alloc_count = 0
    /\ err = OK /\ answer = NoAnswer /\ result = -1
    /\ next_group = 0 /\ error_code = OK
    /\ wpc     = [t \in Workers |-> "none"]
    /\ first   = [t \in Workers |-> 0]
    /\ lane    = [t \in Workers |-> 0]
    /\ done    = [t \in Workers |-> 0]
    /\ scratch = [t \in Workers |-> << >>]

-----------------------------------------------------------------------------
(* Other processes edit the file: overwrite a byte, cut the tail, append.  *)

Overwrite == \E k \in DOMAIN file : \E b \in Bytes \ {file[k]} :
                file' = [file EXCEPT ![k] = b]
Truncate  == \E n \in 0 .. Len(file) - 1 : file' = SubSeq(file, 1, n)
Grow      == \E b \in Bytes : file' = Append(file, b)

Edit ==
    /\ mpc # "done" /\ edits < MaxEdits
    /\ edits' = edits + 1
    /\ Overwrite \/ Truncate \/ Grow
    /\ seen' = seen \cup {file'}
    /\ UNCHANGED <<faults, view, mainVars, nodes, next_group, error_code, workerVars>>

-----------------------------------------------------------------------------
(* The calling thread.                                                     *)

\* A system call or an allocation of the calling thread fails with errno e.
MainFails(e) == e \in Faults /\ err' = e /\ faults' = faults \cup {e}

Open ==
    /\ mpc = "open"
    /\ \/ /\ mpc' = "fstat" /\ fd' = TRUE /\ UNCHANGED <<err, faults>>
       \/ /\ MainFails("ENOENT")               \* returns -1 at once
          /\ mpc' = "done" /\ fd' = FALSE
    /\ UNCHANGED <<envVars, view, file_size, leaf_count, threads, thread_ids,
                   created, joined, block, nodes, root_count, level,
                   leaf_alloc_count, answer, result, next_group, error_code,
                   workerVars>>

\* fstat, the checks of its result and the leaf count.  "EBADF" stands for
\* fstat failing, "EINVAL" for a file that is not regular.
Fstat ==
    /\ mpc = "fstat"
    /\ \/ /\ LeafCount(Len(file)) <= MaxLeaves
          /\ file_size' = Len(file)
          /\ leaf_count' = LeafCount(Len(file))
          /\ leaf_alloc_count' = LeafCount(Len(file))
          /\ view' = [k \in 1 .. Len(file) |-> Unset]
          /\ mpc' = "malloc" /\ UNCHANGED <<err, faults>>
       \/ /\ LeafCount(Len(file)) > MaxLeaves
          /\ err' = "EOVERFLOW" /\ faults' = faults \cup {"EOVERFLOW"}
          /\ mpc' = "cleanup"
          /\ UNCHANGED <<file_size, leaf_count, leaf_alloc_count, view>>
       \/ /\ MainFails("EBADF") \/ MainFails("EINVAL")
          /\ mpc' = "cleanup"
          /\ UNCHANGED <<file_size, leaf_count, leaf_alloc_count, view>>
    /\ UNCHANGED <<envVars, fd, threads, thread_ids, created, joined, block,
                   nodes, root_count, level, answer, result, next_group,
                   error_code, workerVars>>

AllocateLeaves ==
    /\ mpc = "malloc"
    /\ \/ /\ block' = leaf_count
          /\ nodes' = [i \in 0 .. leaf_count - 1 |-> Unset]
          /\ mpc' = "calloc" /\ UNCHANGED <<err, faults>>
       \/ /\ MainFails("ENOMEM")
          /\ mpc' = "cleanup" /\ UNCHANGED <<block, nodes>>
    /\ UNCHANGED <<envVars, view, fd, file_size, leaf_count, threads, thread_ids,
                   created, joined, root_count, level, leaf_alloc_count, answer,
                   result, next_group, error_code, workerVars>>

\* choose_thread_count and the table of thread ids; tree_shared is on the stack.
AllocateThreads ==
    /\ mpc = "calloc"
    /\ \E r \in Requests, p \in Online :
          threads' = ChooseThreadCount(r, p, leaf_count)
    /\ \/ /\ thread_ids' = TRUE
          /\ mpc' = "create" /\ UNCHANGED <<err, faults>>
       \/ /\ MainFails("ENOMEM")
          /\ mpc' = "cleanup" /\ UNCHANGED thread_ids
    /\ UNCHANGED <<envVars, view, fd, file_size, leaf_count, created, joined,
                   block, nodes, root_count, level, leaf_alloc_count, answer,
                   result, next_group, error_code, workerVars>>

\* Faulty: a failed pthread_create goes to cleanup without joining the others.
CreateWorkerNoJoin ==
    /\ mpc = "create" /\ created < threads
    /\ \/ /\ wpc' = [wpc EXCEPT ![created] = "start"]
          /\ created' = created + 1
          /\ UNCHANGED <<mpc, err, faults>>
       \/ MainFails("EAGAIN") /\ mpc' = "cleanup" /\ UNCHANGED <<wpc, created>>
    /\ UNCHANGED <<envVars, view, fd, file_size, leaf_count, threads, thread_ids,
                   joined, block, nodes, root_count, level, leaf_alloc_count,
                   error_code, answer, result, next_group, first, lane, done, scratch>>

\* One turn of the pthread_create loop; rc goes to error_code, not to errno.
CreateWorker ==
    /\ mpc = "create" /\ created < threads
    /\ \/ /\ wpc' = [wpc EXCEPT ![created] = "start"]
          /\ created' = created + 1
          /\ UNCHANGED <<mpc, error_code, faults>>
       \/ /\ "EAGAIN" \in Faults
          /\ error_code' = "EAGAIN" /\ faults' = faults \cup {"EAGAIN"}
          /\ mpc' = "join" /\ UNCHANGED <<wpc, created>>
    /\ UNCHANGED <<envVars, view, fd, file_size, leaf_count, threads, thread_ids,
                   joined, block, nodes, root_count, level, leaf_alloc_count,
                   err, answer, result, next_group, first, lane, done, scratch>>

AllCreated ==
    /\ mpc = "create" /\ created >= threads
    /\ mpc' = "join"
    /\ UNCHANGED <<envVars, faults, view, fd, file_size, leaf_count, threads,
                   thread_ids, created, joined, block, nodes, root_count, level,
                   leaf_alloc_count, err, answer, result, next_group,
                   error_code, workerVars>>

Join ==
    /\ mpc = "join" /\ joined < created
    /\ wpc[joined] = "exited"
    /\ joined' = joined + 1
    /\ UNCHANGED <<envVars, faults, view, mpc, fd, file_size, leaf_count, threads,
                   thread_ids, created, block, nodes, root_count, level,
                   leaf_alloc_count, err, answer, result, next_group,
                   error_code, workerVars>>

\* Faulty: worker_error is not looked at.
CheckWorkerErrorIgnored ==
    /\ mpc = "join" /\ joined >= created
    /\ root_count' = leaf_count
    /\ mpc' = "reduce"
    /\ UNCHANGED <<envVars, faults, view, fd, file_size, leaf_count, threads,
                   thread_ids, created, joined, block, nodes, level,
                   leaf_alloc_count, err, answer, result, next_group, error_code,
                   workerVars>>

\* worker_error: pthread_join ordered every store to error_code before this load.
CheckWorkerError ==
    /\ mpc = "join" /\ joined >= created
    /\ \/ /\ error_code # OK
          /\ err' = error_code
          /\ mpc' = "cleanup" /\ UNCHANGED root_count
       \/ /\ error_code = OK
          /\ root_count' = leaf_count
          /\ mpc' = "reduce" /\ UNCHANGED err
    /\ UNCHANGED <<envVars, faults, view, fd, file_size, leaf_count, threads,
                   thread_ids, created, joined, block, nodes, level,
                   leaf_alloc_count, answer, result, next_group, error_code,
                   workerVars>>

\* Faulty: the count reached is not passed back when a level fails.
ReduceLevelStaleCount ==
    /\ mpc = "reduce" /\ root_count > 1
    /\ \/ /\ nodes' = Parents(level, root_count, nodes)
          /\ block' = ParentCount(root_count)
          /\ root_count' = ParentCount(root_count)
          /\ level' = level + 1
          /\ UNCHANGED <<mpc, err, faults>>
       \/ /\ MainFails("ENOMEM")
          /\ mpc' = "cleanup" /\ UNCHANGED <<nodes, block, root_count, level>>
    /\ UNCHANGED <<envVars, view, fd, file_size, leaf_count, threads, thread_ids,
                   created, joined, leaf_alloc_count, answer, result, next_group,
                   error_code, workerVars>>

\* One level of reduce_tree: allocate the parents' block, fill it, wipe and
\* free the children's.  Failing returns to the caller, which stores the count.
\* A level is never larger than the table, so its overflow test cannot fire.
ReduceLevel ==
    /\ mpc = "reduce" /\ root_count > 1
    /\ \/ /\ nodes' = Parents(level, root_count, nodes)
          /\ block' = ParentCount(root_count)
          /\ root_count' = ParentCount(root_count)
          /\ level' = level + 1
          /\ UNCHANGED <<mpc, err, faults, leaf_alloc_count>>
       \/ /\ MainFails("ENOMEM")
          /\ leaf_alloc_count' = root_count
          /\ mpc' = "cleanup" /\ UNCHANGED <<nodes, block, root_count, level>>
    /\ UNCHANGED <<envVars, view, fd, file_size, leaf_count, threads, thread_ids,
                   created, joined, answer, result, next_group, error_code,
                   workerVars>>

\* Faulty: the size is asked again at the end.
AnswerSizeNow(digest) ==
    [out |-> digest, file_size |-> Len(file), leaf_count |-> leaf_count,
     levels |-> level, threads |-> threads]

\* out and *stats as the caller will find them.
Answer(digest) ==
    [out |-> digest, file_size |-> file_size, leaf_count |-> leaf_count,
     levels |-> level, threads |-> threads]

\* reduce_tree returns 0; the root message, out, stats and result.
FinishRoot ==
    /\ mpc = "reduce" /\ root_count <= 1
    /\ leaf_alloc_count' = root_count
    /\ answer' = Answer(Hash(RootMessage(file_size, leaf_count, level, nodes[0])))
    /\ result' = 0
    /\ mpc' = "cleanup"
    /\ UNCHANGED <<envVars, faults, view, fd, file_size, leaf_count, threads,
                   thread_ids, created, joined, block, nodes, root_count, level,
                   err, next_group, error_code, workerVars>>

\* What close fails with.
CloseError == "EINTR"

\* Faulty: close failing is taken for the call failing.
CleanupReports ==
    /\ mpc = "cleanup"
    /\ block' = 0 /\ nodes' = << >>
    /\ thread_ids' = FALSE /\ fd' = FALSE
    /\ \/ UNCHANGED <<err, result>>
       \/ CloseError \in Faults /\ err' = CloseError /\ result' = -1
    /\ mpc' = "done"
    /\ UNCHANGED <<envVars, faults, view, file_size, leaf_count, threads, created, joined,
                   root_count, level, leaf_alloc_count, answer,
                   next_group, error_code, workerVars>>

\* The cleanup label.  close may fail: that is no failure of the call, so faults does not
\* have it, but errno is then the one of close.
Cleanup ==
    /\ mpc = "cleanup"
    /\ block' = 0 /\ nodes' = << >>
    /\ thread_ids' = FALSE /\ fd' = FALSE
    /\ \/ UNCHANGED err
       \/ CloseError \in Faults /\ err' = CloseError
    /\ mpc' = "done"
    /\ UNCHANGED <<envVars, faults, view, file_size, leaf_count, threads, created, joined,
                   root_count, level, leaf_alloc_count, answer, result,
                   next_group, error_code, workerVars>>

Main == \/ Open \/ Fstat \/ AllocateLeaves \/ AllocateThreads
        \/ CreateWorker \/ AllCreated \/ Join \/ CheckWorkerError
        \/ ReduceLevel \/ FinishRoot \/ Cleanup

-----------------------------------------------------------------------------
(* A worker, t.                                                            *)

\* Faulty: the failure is not stored; the buffers are not freed.
WorkerFailsSilently(t, e) ==
    /\ faults' = faults \cup {e} /\ UNCHANGED error_code
    /\ wpc' = [wpc EXCEPT ![t] = "exited"]
    /\ scratch' = [scratch EXCEPT ![t] = << >>]
WorkerFailsLeaking(t, e) ==
    /\ error_code' = e /\ faults' = faults \cup {e}
    /\ wpc' = [wpc EXCEPT ![t] = "exited"]
    /\ UNCHANGED scratch

\* t stores e in error_code and returns, its scratch freed or never allocated.
WorkerFails(t, e) ==
    /\ error_code' = e /\ faults' = faults \cup {e}
    /\ wpc' = [wpc EXCEPT ![t] = "exited"]
    /\ scratch' = [scratch EXCEPT ![t] = << >>]

\* posix_memalign.
WorkerStart(t) ==
    /\ wpc[t] = "start"
    /\ \/ /\ scratch' = [scratch EXCEPT ![t] = GarbageScratch]
          /\ wpc' = [wpc EXCEPT ![t] = "check"]
          /\ UNCHANGED <<error_code, faults>>
       \/ "ENOMEM" \in Faults /\ WorkerFails(t, "ENOMEM")
    /\ UNCHANGED <<envVars, view, mainVars, nodes, next_group, first, lane, done>>

\* The relaxed load at the top of the loop.  Nothing orders it after another
\* thread's store, so it may still return 0 when error_code is no longer 0.
CheckError(t) ==
    /\ wpc[t] = "check"
    /\ \/ wpc' = [wpc EXCEPT ![t] = "claim"]
       \/ error_code # OK /\ wpc' = [wpc EXCEPT ![t] = "exit"]
    /\ UNCHANGED <<envVars, faults, view, mainVars, nodes, next_group, error_code,
                   first, lane, done, scratch>>

\* Faulty: the counter advances by one leaf; a worker that ran out tries again.
ClaimOneLeaf(t) ==
    /\ wpc[t] = "claim"
    /\ next_group' = next_group + 1
    /\ first' = [first EXCEPT ![t] = next_group]
    /\ lane' = [lane EXCEPT ![t] = 0] /\ done' = [done EXCEPT ![t] = 0]
    /\ wpc' = [wpc EXCEPT ![t] = IF next_group >= leaf_count THEN "exit" ELSE "read"]
    /\ UNCHANGED <<envVars, faults, view, mainVars, nodes, error_code, scratch>>
ClaimAgain(t) ==
    /\ wpc[t] = "claim"
    /\ next_group' = next_group + Lanes
    /\ first' = [first EXCEPT ![t] = next_group]
    /\ lane' = [lane EXCEPT ![t] = 0] /\ done' = [done EXCEPT ![t] = 0]
    /\ wpc' = [wpc EXCEPT ![t] = IF next_group >= leaf_count THEN "check" ELSE "read"]
    /\ UNCHANGED <<envVars, faults, view, mainVars, nodes, error_code, scratch>>

\* atomic_fetch_add of next_group: each claim gets its own value.
Claim(t) ==
    /\ wpc[t] = "claim"
    /\ next_group' = next_group + Lanes
    /\ first' = [first EXCEPT ![t] = next_group]
    /\ lane' = [lane EXCEPT ![t] = 0] /\ done' = [done EXCEPT ![t] = 0]
    /\ wpc' = [wpc EXCEPT ![t] = IF next_group >= leaf_count THEN "exit" ELSE "read"]
    /\ UNCHANGED <<envVars, faults, view, mainVars, nodes, error_code, scratch>>

\* Faulty: every pread writes to the start of the buffer.
StoreAtStart(t, offset, n) ==
    /\ scratch' = [scratch EXCEPT ![t][lane[t]] =
                     [k \in 1 .. ChunkBytes |-> IF k <= n THEN file[offset + k] ELSE @[k]]]
    /\ view' = [k \in 1 .. file_size |->
                  IF k \in offset + 1 .. offset + n THEN file[k] ELSE view[k]]

\* The n bytes at the file's offset land in the lane's buffer after done.
Store(t, offset, n) ==
    /\ scratch' = [scratch EXCEPT ![t][lane[t]] =
                     [k \in 1 .. ChunkBytes |->
                        IF k \in done[t] + 1 .. done[t] + n
                        THEN file[offset + k - done[t]] ELSE @[k]]]
    /\ view' = [k \in 1 .. file_size |->
                  IF k \in offset + 1 .. offset + n THEN file[k] ELSE view[k]]

\* Faulty: end of file is retried like EINTR.
PreadRetriesEof(t) ==
    LET offset == (first[t] + lane[t]) * ChunkBytes + done[t]
        want   == LaneLength(t) - done[t]
    IN  /\ wpc[t] = "read" /\ want > 0
        /\ \/ \E n \in 1 .. AtMost(want, Len(file) - offset) :
                 /\ Store(t, offset, n)
                 /\ done' = [done EXCEPT ![t] = done[t] + n]
                 /\ UNCHANGED <<wpc, error_code, faults>>
           \/ UNCHANGED <<scratch, view, done, wpc, error_code, faults>>
        /\ UNCHANGED <<envVars, mainVars, nodes, next_group, first, lane>>

\* One pread of pread_exact: 1 to len - done bytes of what the file holds there
\* now; EINTR, retried; end of file, which becomes EIO; or an error.  The offset
\* is inside the file_size fstat returned, an off_t, so its test cannot fire.
Pread(t) ==
    LET offset == (first[t] + lane[t]) * ChunkBytes + done[t]
        want   == LaneLength(t) - done[t]
    IN  /\ wpc[t] = "read" /\ want > 0
        /\ \/ \E n \in 1 .. AtMost(want, Len(file) - offset) :
                 /\ Store(t, offset, n)
                 /\ done' = [done EXCEPT ![t] = done[t] + n]
                 /\ UNCHANGED <<wpc, error_code, faults>>
           \/ "EINTR" \in Faults /\ UNCHANGED <<scratch, view, done, wpc, error_code, faults>>
           \/ /\ offset >= Len(file) \/ "EIO" \in Faults
              /\ WorkerFails(t, "EIO") /\ UNCHANGED <<view, done>>
        /\ UNCHANGED <<envVars, mainVars, nodes, next_group, first, lane>>

\* The leaf of this lane is complete (an empty one from the start): next j.
NextLane(t) ==
    /\ wpc[t] = "read" /\ done[t] = LaneLength(t)
    /\ \/ /\ lane[t] + 1 < GroupSize(t)
          /\ lane' = [lane EXCEPT ![t] = lane[t] + 1]
          /\ done' = [done EXCEPT ![t] = 0]
          /\ UNCHANGED wpc
       \/ /\ lane[t] + 1 >= GroupSize(t)
          /\ wpc' = [wpc EXCEPT ![t] = "hash"]
          /\ UNCHANGED <<lane, done>>
    /\ UNCHANGED <<envVars, faults, view, mainVars, nodes, next_group, error_code,
                   first, scratch>>

\* Faulty: any group of more than one leaf is hashed with the first one's length.
BatchedUnequal(t) == GroupSize(t) > 1

\* frogbard_hash4_equal takes one length for its four messages, the first one's.
Batched(t) ==
    GroupSize(t) = Lanes /\ \A i \in Group(t) : Length(i) = Length(first[t])

HashedLength(t, i) == IF Batched(t) THEN Length(first[t]) ELSE Length(i)

\* The digest of leaf i: its header and the first bytes of its lane's buffer.
GroupDigest(t, i) ==
    Hash(LeafMessage(i, Length(i),
                     [k \in 1 .. HashedLength(t, i) |-> scratch[t][i - first[t]][k]]))

\* Faulty: the digests go to the slots of the lanes, not of the leaves.
HashGroupByLane(t) ==
    /\ wpc[t] = "hash"
    /\ nodes' = [i \in DOMAIN nodes |->
                   IF i < GroupSize(t) THEN GroupDigest(t, first[t] + i) ELSE nodes[i]]
    /\ wpc' = [wpc EXCEPT ![t] = "check"]
    /\ UNCHANGED <<envVars, faults, view, mainVars, next_group, error_code,
                   first, lane, done, scratch>>

HashGroup(t) ==
    /\ wpc[t] = "hash"
    /\ nodes' = [i \in DOMAIN nodes \cup Group(t) |->
                   IF i \in Group(t) THEN GroupDigest(t, i) ELSE nodes[i]]
    /\ wpc' = [wpc EXCEPT ![t] = "check"]
    /\ UNCHANGED <<envVars, faults, view, mainVars, next_group, error_code,
                   first, lane, done, scratch>>

WorkerExit(t) ==
    /\ wpc[t] = "exit"
    /\ scratch' = [scratch EXCEPT ![t] = << >>]
    /\ wpc' = [wpc EXCEPT ![t] = "exited"]
    /\ UNCHANGED <<envVars, faults, view, mainVars, nodes, next_group, error_code,
                   first, lane, done>>

Worker(t) == \/ WorkerStart(t) \/ CheckError(t) \/ Claim(t) \/ Pread(t)
             \/ NextLane(t) \/ HashGroup(t) \/ WorkerExit(t)

Returned == mpc = "done" /\ UNCHANGED vars

Next == Main \/ (\E t \in Workers : Worker(t)) \/ Edit \/ Returned

Spec == Init /\ [][Next]_vars

\* The scheduler runs every thread that can run, and a pread that keeps being
\* retried ends with something other than EINTR.
FairSpec == Spec /\ WF_vars(Main) /\ \A t \in Workers : WF_vars(Worker(t))

-----------------------------------------------------------------------------
(* Properties.                                                             *)

MainPoints == {"open", "fstat", "malloc", "calloc", "create", "join", "reduce",
               "cleanup", "done"}
WorkerPoints == {"none", "start", "check", "claim", "read", "hash", "exit", "exited"}

\* A worker's buffers exist from its posix_memalign to its free.
ScratchOK ==
    /\ DOMAIN scratch = Workers
    /\ \A t \in Workers :
          scratch[t] \in IF wpc[t] \in {"none", "start", "exited"} THEN {<< >>}
                        ELSE Buffers

\* Every variable has its type; the digest table has exactly the size of the
\* block malloc returned.
TypeOK ==
    /\ file \in Seq(Bytes) /\ edits \in 0 .. MaxEdits
    /\ mpc \in MainPoints /\ fd \in BOOLEAN /\ thread_ids \in BOOLEAN
    /\ file_size \in Nat /\ leaf_count \in 0 .. MaxLeaves /\ threads \in 0 .. MaxThreads
    /\ created \in 0 .. MaxThreads /\ joined \in 0 .. MaxThreads
    /\ block \in Nat /\ DOMAIN nodes = 0 .. block - 1
    /\ root_count \in Nat /\ level \in Nat /\ leaf_alloc_count \in Nat
    /\ result \in {-1, 0}
    /\ next_group \in Nat
    /\ wpc   \in [Workers -> WorkerPoints]
    /\ first \in [Workers -> Nat]
    /\ lane  \in [Workers -> 0 .. Lanes - 1]
    /\ done  \in [Workers -> 0 .. ChunkBytes]
    /\ ScratchOK

\* A worker that exists and has not returned; one that owns a claimed group.
Running(t) == wpc[t] \notin {"none", "exited"}
Owns(t)    == wpc[t] \in {"read", "hash"}

\* tree_worker's fetch_add (frogbard_tree.c:97): the groups of two workers never
\* overlap, lie inside the table, and hold no digest yet, so that no slot is
\* written by two threads or twice, whatever the order of claims and stores.
ExclusiveClaims ==
    \A t \in Workers : Owns(t) =>
        /\ Group(t) # {} /\ Group(t) \subseteq DOMAIN nodes
        /\ \A i \in Group(t) : nodes[i] = Unset
        /\ \A u \in Workers \ {t} : Owns(u) => Group(t) \cap Group(u) = {}

\* tree_shared lives on the caller's stack and points at the caller's block and
\* descriptor (frogbard_tree.c:296-303): while any worker runs, also after
\* pthread_create failed part-way, the caller is still creating or joining, has
\* not joined that worker, and has neither freed the table nor closed the file.
SharedOutlivesWorkers ==
    \A t \in Workers : Running(t) =>
        /\ mpc \in {"create", "join"}
        /\ joined <= t /\ t < created
        /\ fd /\ block = leaf_count /\ block > 0

\* The wipe of cleanup (frogbard_tree.c:362) clears the live block, all of it and
\* nothing beyond it, though the block was replaced by a smaller one at every
\* level and a level may have failed half-way.
WipeFitsBlock ==
    mpc = "cleanup" /\ block > 0 => leaf_alloc_count = block

\* When the call has returned, by whatever path, it holds no block, no thread
\* table, no descriptor, and no worker of it runs or holds scratch memory.
ReturnedClean ==
    mpc = "done" =>
        /\ block = 0 /\ ~thread_ids /\ ~fd
        /\ \A t \in Workers : ~Running(t) /\ scratch[t] = << >>

\* No failure is lost and none is invented: the call returns 0 if and only if nothing
\* failed but an interrupted pread or the close in cleanup, and a -1 comes with the errno
\* of a failure that did happen (frogbard_tree.c:322-327) or with that of close, which
\* alone may replace it, with several workers failing in any order and others seeing
\* error_code late.
ErrorAccounting ==
    mpc = "done" =>
        IF result = 0 THEN faults = {} ELSE faults # {} /\ err \in faults \cup {CloseError}

\* When the reduction starts every leaf has been hashed, each in its own slot,
\* over bytes read from the file and nothing left in the buffer by an earlier leaf.
LeavesComplete ==
    mpc = "reduce" /\ level = 0 =>
        /\ \A k \in 1 .. file_size : view[k] # Unset
        /\ \A i \in 0 .. leaf_count - 1 : nodes[i] = LeafDigest(view, i)

\* Each worker overshoots the table at most once, so the counter stays within one
\* group per worker of it and can never wrap round to leaves already claimed.
ClaimsBounded == next_group < leaf_count + Lanes * (created + 1)

\* While workers may run, a digest that is in the table stays as it is.
WriteOnce ==
    [][\A i \in DOMAIN nodes : mpc \in {"create", "join"} /\ nodes[i] # Unset
                                  => nodes'[i] = nodes[i]]_vars

\* The call implements its promise (TreeCall): out receives, once, the tree
\* digest of a view of the file, or it is untouched and the call returns -1.
Call == INSTANCE TreeCall WITH
          view     <- IF answer = NoAnswer THEN << >> ELSE view,
          returned <- IF mpc = "done" THEN result ELSE 1
ImplementsCall == Call!CallSpec

\* The call returns, whatever fails and whoever edits the file: no join waits for
\* ever and the workers run out of leaves or see an error.
Termination == <>(mpc = "done")
=============================================================================
