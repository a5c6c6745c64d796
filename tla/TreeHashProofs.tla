--------------------------- MODULE TreeHashProofs ---------------------------
(***************************************************************************)
(* The inductive invariant of TreeHash holds, and what follows from it.    *)
(*                                                                         *)
(* IInv is proved part by part: for each part, one lemma on the steps of   *)
(* the calling thread and one on those of a worker, each with a step per   *)
(* action.  NextInv puts them together, and the theorems at the end read   *)
(* the safety properties of TreeHash off the invariant.                    *)
(***************************************************************************)
EXTENDS TreeHashInv, NaturalLemmas

\* A table with a leaf has a group: choose_thread_count's cap is never 0.
LEMMA GroupsPositive ==
    ASSUME NEW n \in Nat, n > 0
    PROVE  (n + Lanes - 1) \div Lanes \in Nat /\ (n + Lanes - 1) \div Lanes > 0
  BY ParameterAssumption, Z3

\* Even the empty file has a leaf.
LEMMA LeafCountPositive ==
    ASSUME NEW n \in Nat
    PROVE  LeafCount(n) \in Nat /\ LeafCount(n) > 0
  BY ChunkAssumption DEF LeafCount

\* A leaf's length fits the buffer of its lane.
LEMMA ChunkLengthType ==
    ASSUME NEW n \in Nat, NEW i \in Nat
    PROVE  ChunkLength(n, i) \in 0 .. ChunkBytes
  BY ChunkAssumption DEF ChunkLength

\* A level of more than one node has fewer parents than nodes, and at least one.
LEMMA ParentCountBounds ==
    ASSUME NEW n \in Nat, n > 1
    PROVE  ParentCount(n) \in Nat /\ ParentCount(n) > 0 /\ ParentCount(n) < n
  BY DEF ParentCount

\* The number of workers wanted is at least 1 and at most MaxThreads.
LEMMA ThreadCountBounds ==
    ASSUME NEW r \in Requests, NEW p \in Online, NEW n \in Nat, n > 0
    PROVE  ChooseThreadCount(r, p, n) \in 1 .. MaxThreads
  BY ParameterAssumption, GroupsPositive DEF ChooseThreadCount, AtMost

-----------------------------------------------------------------------------
(* Types.                                                                  *)

\* The table of a null block.
LEMMA EmptyTable == DOMAIN << >> = 0 .. 0 - 1
  OBVIOUS

\* The initial state is well typed.
LEMMA InitType == Init => TypeOK
<1> SUFFICES ASSUME Init PROVE TypeOK
  OBVIOUS
<1>1. file \in Seq(Bytes)
  BY ParameterAssumption DEF Init
<1>2. DOMAIN nodes = 0 .. block - 1
  BY EmptyTable DEF Init
<1>3. /\ wpc \in [Workers -> WorkerPoints]
      /\ first \in [Workers -> Nat]
      /\ lane \in [Workers -> 0 .. Lanes - 1]
      /\ done \in [Workers -> 0 .. ChunkBytes]
  BY ParameterAssumption, ChunkAssumption DEF Init, WorkerPoints
<1>4. ScratchOK
  BY DEF Init, ScratchOK
<1>5. /\ edits \in 0 .. MaxEdits /\ threads \in 0 .. MaxThreads
      /\ leaf_count \in 0 .. MaxLeaves
      /\ created \in 0 .. MaxThreads /\ joined \in 0 .. MaxThreads
  BY ParameterAssumption DEF Init
<1> QED
  BY <1>1, <1>2, <1>3, <1>4, <1>5 DEF Init, TypeOK, MainPoints

\* A step that leaves the workers where they are keeps their buffers' type.
LEMMA ScratchUnchanged ==
    ASSUME ScratchOK, UNCHANGED <<wpc, scratch>>
    PROVE  ScratchOK'
  BY DEF ScratchOK

\* The steps of the calling thread keep the types.
LEMMA MainType == TypeOK /\ IInv /\ Main => TypeOK'
<1> SUFFICES ASSUME TypeOK, IInv, Main PROVE TypeOK'
  OBVIOUS
<1>0. UNCHANGED workerVars => ScratchOK'
  BY ScratchUnchanged DEF TypeOK, workerVars
<1> USE DEF TypeOK, MainPoints, WorkerPoints, envVars, workerVars
<1>1. CASE Open
  BY <1>1, <1>0 DEF Open, MainFails
<1>2. CASE Fstat
  <2>1. Len(file) \in Nat
    OBVIOUS
  <2>2. LeafCount(Len(file)) \in Nat
    BY <2>1, LeafCountPositive
  <2>3. leaf_count' \in 0 .. MaxLeaves
    BY <1>2, <1>0, <2>2, ParameterAssumption DEF Fstat, MainFails
  <2> QED
    BY <1>2, <1>0, <2>1, <2>2, <2>3 DEF Fstat, MainFails
<1>3. CASE AllocateLeaves
  BY <1>3, <1>0 DEF AllocateLeaves, MainFails
<1>4. CASE AllocateThreads
  <2>1. mpc = "calloc"
    BY <1>4, <1>0 DEF AllocateThreads
  <2>2. leaf_count > 0
    BY <2>1 DEF IInv, ResourcesInv
  <2>3. threads' \in 0 .. MaxThreads
    BY <1>4, <1>0, <2>2, ThreadCountBounds DEF AllocateThreads
  <2> QED
    BY <1>4, <1>0, <2>3 DEF AllocateThreads, MainFails
<1>5. CASE CreateWorker
  <2>1. created' \in 0 .. MaxThreads
    BY <1>5, ParameterAssumption DEF CreateWorker
  <2>2. wpc' \in [Workers -> WorkerPoints]
    BY <1>5 DEF CreateWorker
  <2>3. ScratchOK'
    <3>1. CASE UNCHANGED <<wpc, scratch>>
      BY <3>1, ScratchUnchanged
    <3>2. CASE wpc' = [wpc EXCEPT ![created] = "start"] /\ scratch' = scratch
      <4>1. created \in Workers => wpc[created] = "none"
        BY ParameterAssumption DEF IInv, ThreadsInv, Workers
      <4> QED
        BY <3>2, <4>1 DEF ScratchOK
    <3> QED
      BY <1>5, <3>1, <3>2 DEF CreateWorker
  <2> QED
    BY <1>5, <2>1, <2>2, <2>3 DEF CreateWorker
<1>6. CASE AllCreated
  BY <1>6, <1>0 DEF AllCreated
<1>7. CASE Join
  BY <1>7, <1>0, ParameterAssumption DEF Join
<1>8. CASE CheckWorkerError
  BY <1>8, <1>0 DEF CheckWorkerError
<1>9. CASE ReduceLevel
  <2>1. ParentCount(root_count) \in Nat
    BY <1>9, <1>0, ParentCountBounds DEF ReduceLevel
  <2>2. DOMAIN Parents(level, root_count, nodes) = 0 .. ParentCount(root_count) - 1
    BY DEF Parents
  <2>3. block' \in Nat /\ DOMAIN nodes' = 0 .. block' - 1
    BY <1>9, <1>0, <2>1, <2>2 DEF ReduceLevel
  <2>4. root_count' \in Nat /\ level' \in Nat /\ leaf_alloc_count' \in Nat
    BY SMTT(30), <1>9, <1>0, <2>1 DEF ReduceLevel
  <2> QED
    BY <1>9, <1>0, <2>3, <2>4 DEF ReduceLevel, MainFails
<1>10. CASE FinishRoot
  BY <1>10, <1>0 DEF FinishRoot
<1>11. CASE Cleanup
  BY <1>11, <1>0, EmptyTable DEF Cleanup, MainFails
<1> QED
  BY <1>1, <1>2, <1>3, <1>4, <1>5, <1>6, <1>7, <1>8, <1>9, <1>10, <1>11 DEF Main

\* While a worker reads, its offset and its progress are natural numbers.
LEMMA ReadBounds ==
    ASSUME TypeOK, NEW t \in Workers
    PROVE  /\ (first[t] + lane[t]) * ChunkBytes + done[t] \in Nat
           /\ done[t] \in Nat /\ first[t] + lane[t] \in Nat
           /\ LaneLength(t) \in 0 .. ChunkBytes
           /\ file \in Seq(Bytes) /\ Len(file) \in Nat
<1>1. first[t] \in Nat /\ lane[t] \in Nat /\ done[t] \in Nat
  BY ParameterAssumption, ChunkAssumption DEF TypeOK
<1>2. LaneLength(t) \in 0 .. ChunkBytes
  <2>1. first[t] + lane[t] \in Nat
    BY <1>1
  <2>2. file_size \in Nat
    BY DEF TypeOK
  <2> QED
    BY <2>1, <2>2, ChunkLengthType DEF LaneLength, Length
<1>3. PICK x \in Nat : x = (first[t] + lane[t]) * ChunkBytes
  BY <1>1, ChunkAssumption
<1>4. x + done[t] \in Nat
  BY <1>1
<1>5. file \in Seq(Bytes) /\ Len(file) \in Nat
  BY DEF TypeOK
<1> QED
  BY <1>1, <1>2, <1>3, <1>4, <1>5

\* The group a worker owns lies inside the table.
LEMMA GroupInTable ==
    ASSUME IInv, NEW t \in Workers, Owns(t)
    PROVE  /\ GroupSize(t) \in 1 .. Lanes
           /\ Group(t) \subseteq 0 .. leaf_count - 1
           /\ Group(t) \subseteq first[t] .. first[t] + Lanes - 1
           /\ block = leaf_count /\ mpc \in Working
<1>1. first[t] \in Nat /\ first[t] < leaf_count /\ leaf_count \in Nat
  BY ParameterAssumption DEF IInv, TypeOK, ClaimsInv
<1>2. mpc \in Working
  <2>1. created # 0 /\ mpc \notin Late
    BY DEF IInv, TypeOK, ThreadsInv, Owns, Running, Workers
  <2> QED
    BY <2>1 DEF IInv, TypeOK, ThreadsInv, MainPoints, Working, Early, Late
<1>3. GroupSize(t) \in 1 .. Lanes /\ GroupSize(t) <= leaf_count - first[t]
  BY <1>1, ParameterAssumption DEF GroupSize, AtMost
<1>4. block = leaf_count
  BY <1>2 DEF IInv, ResourcesInv
<1> QED
  BY SMTT(30), <1>1, <1>2, <1>3, <1>4, ParameterAssumption DEF Group

\* A successful pread leaves every buffer of the worker a buffer of bytes.
LEMMA StoreType ==
    ASSUME TypeOK, NEW t \in Workers, wpc[t] = "read",
           NEW n \in 1 .. AtMost(LaneLength(t) - done[t],
                                 Len(file) - ((first[t] + lane[t]) * ChunkBytes + done[t])),
           Store(t, (first[t] + lane[t]) * ChunkBytes + done[t], n),
           wpc' = wpc
    PROVE  ScratchOK' /\ done[t] + n \in 0 .. ChunkBytes
<1> DEFINE offset == (first[t] + lane[t]) * ChunkBytes + done[t]
           target == [k \in 1 .. ChunkBytes |->
                        IF k \in done[t] + 1 .. done[t] + n
                        THEN file[offset + k - done[t]] ELSE scratch[t][lane[t]][k]]
<1>1. /\ offset \in Nat /\ done[t] \in Nat /\ Len(file) \in Nat
      /\ LaneLength(t) \in 0 .. ChunkBytes /\ file \in Seq(Bytes)
  BY ReadBounds
<1>2. n \in Nat /\ n > 0 /\ n <= LaneLength(t) - done[t] /\ n <= Len(file) - offset
  BY <1>1, ChunkAssumption DEF AtMost
<1>3. done[t] + n \in 0 .. ChunkBytes
  BY <1>1, <1>2, ChunkAssumption
<1>4. scratch[t] \in Buffers /\ DOMAIN scratch = Workers /\ lane[t] \in 0 .. Lanes - 1
  BY DEF TypeOK, ScratchOK
<1>5. scratch' = [scratch EXCEPT ![t] = [scratch[t] EXCEPT ![lane[t]] = target]]
  BY <1>4 DEF Store, Buffers
<1>6. target \in [1 .. ChunkBytes -> Bytes \cup {Unset}]
  <2>1. ASSUME NEW k \in done[t] + 1 .. done[t] + n
        PROVE  file[offset + k - done[t]] \in Bytes
    <3>1. offset + k - done[t] \in 1 .. Len(file)
      <4> HIDE DEF offset
      <4>1. PICK o \in Nat, d \in Nat, l \in Nat : o = offset /\ d = done[t] /\ l = Len(file)
        BY <1>1
      <4>2. n \in Nat /\ n <= l - o /\ k \in d + 1 .. d + n
        BY <1>2, <4>1
      <4>3. o + k - d \in 1 .. l
        BY <4>1, <4>2
      <4> QED
        BY <4>1, <4>3
    <3> QED
      BY <1>1, <3>1
  <2>2. \A k \in 1 .. ChunkBytes : scratch[t][lane[t]][k] \in Bytes \cup {Unset}
    BY <1>4 DEF Buffers
  <2> HIDE DEF offset
  <2> QED
    BY <2>1, <2>2
<1> HIDE DEF target
<1>7. scratch'[t] \in Buffers
  BY <1>4, <1>5, <1>6 DEF Buffers
<1>8. DOMAIN scratch' = Workers /\ \A u \in Workers \ {t} : scratch'[u] = scratch[u]
  BY <1>4, <1>5
<1> QED
  BY <1>3, <1>7, <1>8 DEF ScratchOK, TypeOK

\* A step of one worker, t, that leaves its buffers where they should be.
LEMMA ScratchStep ==
    ASSUME TypeOK, NEW t \in Workers, NEW pc,
           wpc' = [wpc EXCEPT ![t] = pc],
           \/ scratch' = scratch /\ wpc[t] \notin {"none", "start", "exited"}
                                 /\ pc \notin {"none", "start", "exited"}
           \/ scratch' = [scratch EXCEPT ![t] = << >>] /\ pc = "exited"
           \/ scratch' = [scratch EXCEPT ![t] = GarbageScratch] /\ pc = "check"
    PROVE  ScratchOK'
<1>1. GarbageScratch \in Buffers
  BY DEF GarbageScratch, Buffers
<1> QED
  BY <1>1 DEF ScratchOK, TypeOK

\* So do the steps of a worker.
LEMMA WorkerType ==
    ASSUME TypeOK, IInv, NEW t \in Workers, Worker(t)
    PROVE  TypeOK'
<1> USE DEF WorkerPoints, envVars, mainVars
<1>1. CASE WorkerStart(t)
  <2>1. ScratchOK'
    BY <1>1, ScratchStep DEF WorkerStart, WorkerFails
  <2> QED
    BY <1>1, <2>1 DEF WorkerStart, WorkerFails, TypeOK
<1>2. CASE CheckError(t)
  <2>1. ScratchOK'
    BY <1>2, ScratchStep DEF CheckError
  <2> QED
    BY <1>2, <2>1 DEF CheckError, TypeOK
<1>3. CASE Claim(t)
  <2>1. ScratchOK'
    BY <1>3, ScratchStep DEF Claim
  <2> QED
    BY <1>3, <2>1, ParameterAssumption, ChunkAssumption DEF Claim, TypeOK
<1>4. CASE Pread(t)
  <2> DEFINE offset == (first[t] + lane[t]) * ChunkBytes + done[t]
             limit  == AtMost(LaneLength(t) - done[t], Len(file) - offset)
  <2>0. wpc[t] = "read"
    BY <1>4 DEF Pread
  <2>1. ASSUME NEW n \in 1 .. limit, Store(t, offset, n),
               done' = [done EXCEPT ![t] = done[t] + n],
               UNCHANGED <<wpc, error_code, faults>>
        PROVE  TypeOK'
    <3>1. ScratchOK' /\ done[t] + n \in 0 .. ChunkBytes
      BY <2>0, <2>1, StoreType
    <3> QED
      BY <1>4, <2>1, <3>1 DEF Pread, TypeOK
  <2>2. CASE UNCHANGED <<scratch, view, done, wpc, error_code, faults>>
    BY <1>4, <2>2, ScratchUnchanged DEF Pread, TypeOK
  <2>3. CASE WorkerFails(t, "EIO") /\ UNCHANGED <<view, done>>
    <3>1. ScratchOK'
      BY <2>3, ScratchStep DEF WorkerFails
    <3> QED
      BY <1>4, <2>3, <3>1 DEF Pread, WorkerFails, TypeOK
  <2> QED
    BY <1>4, <2>1, <2>2, <2>3 DEF Pread
<1>5. CASE NextLane(t)
  <2>1. lane' \in [Workers -> 0 .. Lanes - 1]
    <3>1. first[t] \in Nat /\ leaf_count \in Nat /\ lane[t] \in Nat
      BY ParameterAssumption DEF TypeOK
    <3>2. lane[t] + 1 < GroupSize(t) => lane[t] + 1 \in 0 .. Lanes - 1
      BY <3>1, ParameterAssumption DEF GroupSize, AtMost
    <3> QED
      BY <1>5, <3>2 DEF NextLane, TypeOK
  <2>2. done' \in [Workers -> 0 .. ChunkBytes]
    BY SMTT(30), <1>5, ChunkAssumption DEF NextLane, TypeOK
  <2>3. ScratchOK'
    BY <1>5, ScratchStep, ScratchUnchanged DEF NextLane, TypeOK
  <2> QED
    BY <1>5, <2>1, <2>2, <2>3 DEF NextLane, TypeOK
<1>6. CASE HashGroup(t)
  <2>1. wpc[t] = "hash" /\ Owns(t)
    BY <1>6 DEF HashGroup, Owns
  <2>2. Group(t) \subseteq 0 .. block - 1
    BY <2>1, GroupInTable
  <2>3. DOMAIN nodes = 0 .. block - 1
    BY DEF TypeOK
  <2>4. DOMAIN nodes' = 0 .. block - 1
    BY <1>6, <2>2, <2>3 DEF HashGroup
  <2>5. ScratchOK'
    BY <1>6, ScratchStep DEF HashGroup
  <2> QED
    BY <1>6, <2>4, <2>5 DEF HashGroup, TypeOK
<1>7. CASE WorkerExit(t)
  <2>1. ScratchOK'
    BY <1>7, ScratchStep DEF WorkerExit
  <2> QED
    BY <1>7, <2>1 DEF WorkerExit, TypeOK
<1> QED
  BY <1>1, <1>2, <1>3, <1>4, <1>5, <1>6, <1>7 DEF Worker

\* And the edits of others.
LEMMA EditType == TypeOK /\ Edit => TypeOK'
<1> SUFFICES ASSUME TypeOK, Edit PROVE TypeOK'
  OBVIOUS
<1>1. file' \in Seq(Bytes)
  <2>1. CASE Overwrite
    BY SMTT(30), <2>1 DEF Overwrite, TypeOK
  <2>2. CASE Truncate
    BY <2>2 DEF Truncate, TypeOK
  <2>3. CASE Grow
    BY <2>3 DEF Grow, TypeOK
  <2> QED
    BY <2>1, <2>2, <2>3 DEF Edit
<1>2. edits' \in 0 .. MaxEdits
  BY ParameterAssumption DEF Edit, TypeOK
<1> QED
  BY <1>1, <1>2, ScratchUnchanged DEF Edit, TypeOK, mainVars, workerVars

\* Every step keeps the types.
LEMMA TypeStep == IInv /\ [Next]_vars => TypeOK'
<1> SUFFICES ASSUME IInv, [Next]_vars PROVE TypeOK'
  OBVIOUS
<1>0. TypeOK
  BY DEF IInv
<1>1. CASE Main
  BY <1>0, <1>1, MainType
<1>2. CASE \E t \in Workers : Worker(t)
  BY <1>0, <1>2, WorkerType
<1>3. CASE Edit
  BY <1>0, <1>3, EditType
<1>4. CASE UNCHANGED vars
  BY <1>0, <1>4, ScratchUnchanged DEF TypeOK, vars, envVars, mainVars, workerVars
<1> QED
  BY <1>1, <1>2, <1>3, <1>4 DEF Next, Returned

-----------------------------------------------------------------------------
(* Workers and resources.                                                  *)

\* The calling thread creates and joins workers in order and waits for all of them.
LEMMA MainThreads ==
    ASSUME IInv, Main
    PROVE  ThreadsInv'
<1>0. /\ created \in 0 .. MaxThreads /\ joined \in Nat /\ threads \in 0 .. MaxThreads
      /\ wpc \in [Workers -> WorkerPoints] /\ MaxThreads \in Nat
      /\ mpc \in MainPoints
  BY ParameterAssumption DEF IInv, TypeOK
<1>a. mpc \in Early => \A t \in Workers : wpc[t] = "none"
  BY <1>0 DEF IInv, ThreadsInv, Workers
<1>b. \A t \in Workers : t \in Nat /\ t < MaxThreads
  BY <1>0 DEF Workers
<1> USE DEF ThreadsInv, Early, Working, Late, Running, workerVars, IInv
<1>1. CASE Open
  BY <1>0, <1>1, <1>a DEF Open
<1>2. CASE Fstat
  BY <1>0, <1>2 DEF Fstat
<1>3. CASE AllocateLeaves
  BY <1>0, <1>3, <1>a DEF AllocateLeaves
<1>4. CASE AllocateThreads
  <2>1. mpc = "calloc" /\ leaf_count > 0 /\ leaf_count \in Nat
    BY <1>4, ParameterAssumption DEF AllocateThreads, ResourcesInv, TypeOK
  <2>2. threads' > 0 /\ threads' \in Nat
    BY <1>4, <2>1, ThreadCountBounds, ParameterAssumption DEF AllocateThreads
  <2> QED
    BY <1>0, <1>4, <1>a, <2>2 DEF AllocateThreads
<1>5. CASE CreateWorker
  <2>1. CASE /\ wpc' = [wpc EXCEPT ![created] = "start"]
             /\ created' = created + 1
             /\ UNCHANGED <<mpc, error_code, faults>>
    <3>1. created < threads /\ joined = 0 /\ joined' = 0 /\ mpc = "create" /\ threads' = threads
      BY <1>5 DEF CreateWorker
    <3>2. \A t \in Workers : wpc'[t] = "none" <=> t >= created'
      BY <1>0, <1>b, <2>1
    <3> QED
      BY <1>0, <1>b, <2>1, <3>1, <3>2
  <2>2. CASE error_code' = "EAGAIN" /\ mpc' = "join" /\ UNCHANGED <<wpc, created>>
    BY <1>0, <1>5, <2>2 DEF CreateWorker, OK
  <2> QED
    BY <1>5, <2>1, <2>2 DEF CreateWorker
<1>6. CASE AllCreated
  BY <1>0, <1>6 DEF AllCreated
<1>7. CASE Join
  BY <1>0, <1>7, <1>b DEF Join
<1>8. CASE CheckWorkerError
  <2>1. \A t \in Workers : ~Running(t)
    BY <1>0, <1>8, <1>b DEF CheckWorkerError
  <2> QED
    BY <1>0, <1>8, <2>1 DEF CheckWorkerError
<1>9. CASE ReduceLevel
  BY <1>0, <1>9 DEF ReduceLevel
<1>10. CASE FinishRoot
  BY <1>0, <1>10 DEF FinishRoot
<1>11. CASE Cleanup
  BY <1>0, <1>11 DEF Cleanup
<1> QED
  BY <1>1, <1>2, <1>3, <1>4, <1>5, <1>6, <1>7, <1>8, <1>9, <1>10, <1>11 DEF Main

\* A worker's step neither creates nor revives one.
LEMMA WorkerThreads ==
    ASSUME IInv, NEW t \in Workers, Worker(t)
    PROVE  ThreadsInv'
<1>0. wpc \in [Workers -> WorkerPoints]
  BY DEF IInv, TypeOK
<1>a. wpc[t] \in {"start", "read", "exit"} => Running(t)
  BY DEF Running
<1> USE DEF ThreadsInv, Running, IInv
<1>1. CASE WorkerStart(t)
  BY <1>0, <1>1, <1>a DEF WorkerStart, WorkerFails, mainVars, OK
<1>2. CASE CheckError(t)
  BY <1>0, <1>2 DEF CheckError, WorkerFails, mainVars
<1>3. CASE Claim(t)
  BY <1>0, <1>3 DEF Claim, WorkerFails, mainVars
<1>4. CASE Pread(t)
  <2>1. wpc[t] = "read" /\ UNCHANGED mainVars
    BY <1>4 DEF Pread
  <2>2. CASE UNCHANGED <<wpc, error_code>>
    BY <1>0, <2>1, <2>2 DEF mainVars
  <2>3. CASE wpc' = [wpc EXCEPT ![t] = "exited"] /\ error_code' = "EIO"
    BY <1>0, <2>1, <2>3 DEF mainVars, OK
  <2> QED
    BY <1>4, <2>2, <2>3 DEF Pread, WorkerFails
<1>5. CASE NextLane(t)
  BY <1>0, <1>5 DEF NextLane, WorkerFails, mainVars
<1>6. CASE HashGroup(t)
  BY <1>0, <1>6 DEF HashGroup, WorkerFails, mainVars
<1>7. CASE WorkerExit(t)
  BY <1>0, <1>7 DEF WorkerExit, WorkerFails, mainVars
<1> QED
  BY <1>1, <1>2, <1>3, <1>4, <1>5, <1>6, <1>7 DEF Worker

\* The calling thread acquires and releases at the points ResourcesInv names.
LEMMA MainResources ==
    ASSUME IInv, Main
    PROVE  ResourcesInv'
<1>0. /\ leaf_count \in Nat /\ root_count \in Nat /\ block \in Nat /\ fd \in BOOLEAN
      /\ Len(file) \in Nat /\ mpc \in MainPoints
  BY ParameterAssumption DEF IInv, TypeOK
<1> USE DEF ResourcesInv, WipeFitsBlock, Early, Working, IInv
<1>1. CASE Open
  BY <1>0, <1>1 DEF Open
<1>2. CASE Fstat
  BY SMTT(30), <1>0, <1>2, LeafCountPositive DEF Fstat
<1>3. CASE AllocateLeaves
  BY <1>0, <1>3 DEF AllocateLeaves
<1>4. CASE AllocateThreads
  BY <1>0, <1>4 DEF AllocateThreads
<1>5. CASE CreateWorker
  BY <1>0, <1>5 DEF CreateWorker
<1>6. CASE AllCreated
  BY <1>0, <1>6 DEF AllCreated
<1>7. CASE Join
  BY <1>0, <1>7 DEF Join
<1>8. CASE CheckWorkerError
  BY <1>0, <1>8 DEF CheckWorkerError
<1>9. CASE ReduceLevel
  BY <1>0, <1>9, ParentCountBounds DEF ReduceLevel
<1>10. CASE FinishRoot
  BY <1>0, <1>10 DEF FinishRoot
<1>11. CASE Cleanup
  BY <1>0, <1>11 DEF Cleanup
<1> QED
  BY <1>1, <1>2, <1>3, <1>4, <1>5, <1>6, <1>7, <1>8, <1>9, <1>10, <1>11 DEF Main

\* Worker steps and edits change none of the calling thread's variables.
LEMMA OthersResources ==
    ASSUME IInv, UNCHANGED mainVars
    PROVE  ResourcesInv'
  BY DEF IInv, ResourcesInv, WipeFitsBlock, mainVars

-----------------------------------------------------------------------------
(* Claims.                                                                 *)

\* Only a worker's own step makes it the owner of a group, and while the calling
\* thread neither creates nor joins there is no owner.
LEMMA NoOwner ==
    ASSUME IInv, mpc \notin Working
    PROVE  \A t \in Workers : ~Owns(t)
<1>1. mpc \in Early => \A t \in Workers : wpc[t] = "none"
  BY ParameterAssumption DEF IInv, ThreadsInv, Workers
<1>2. mpc \in Late => \A t \in Workers : ~Running(t)
  BY DEF IInv, ThreadsInv
<1>3. mpc \in Early \cup Late
  BY DEF IInv, TypeOK, MainPoints, Early, Late, Working
<1> QED
  BY <1>1, <1>2, <1>3 DEF Owns, Running

\* ClaimsInv survives a step after which there is no owner and no worker runs.
LEMMA ClaimsWithoutOwners ==
    ASSUME \A t \in Workers : wpc[t] \notin {"read", "hash"}, UNCHANGED wpc,
           mpc' \notin {"calloc"} \cup Working,
           mpc' \in Early => next_group' = 0
    PROVE  ClaimsInv'
  BY DEF ClaimsInv, Owns

\* A step of the calling thread leaves claims as they are, or there are none.
LEMMA MainClaims ==
    ASSUME IInv, Main
    PROVE  ClaimsInv'
<1>0. mpc \notin Working => \A t \in Workers : wpc[t] \notin {"read", "hash"}
  BY NoOwner DEF Owns
<1>1. ClaimsInv
  BY DEF IInv
<1>2. CASE Open \/ Fstat
  BY <1>0, <1>1, <1>2, ClaimsWithoutOwners
     DEF Open, Fstat, Early, Working, ClaimsInv, workerVars
<1>3. CASE AllocateLeaves
  <2>1. next_group' = 0 /\ mpc' \in {"calloc", "cleanup"} /\ wpc' = wpc /\ leaf_count' = leaf_count
    BY <1>1, <1>3 DEF AllocateLeaves, ClaimsInv, Early, workerVars
  <2>2. \A t \in Workers : ~Owns(t)'
    BY <1>0, <1>3, <2>1 DEF AllocateLeaves, Owns, Working
  <2>3. mpc' = "calloc" => \A i \in 0 .. leaf_count - 1 : nodes'[i] = Unset
    BY <1>3 DEF AllocateLeaves
  <2> QED
    BY <2>1, <2>2, <2>3 DEF ClaimsInv, Working
<1>4. CASE CreateWorker
  <2>1. /\ mpc = "create" /\ UNCHANGED <<leaf_count, first, lane, nodes, next_group>>
        /\ \A t \in Workers : Owns(t)' => Owns(t)
        /\ mpc' \notin Early
    BY <1>4 DEF CreateWorker, Owns, IInv, TypeOK, Early
  <2> QED
    BY <1>1, <2>1 DEF ClaimsInv, Working, Group, GroupSize
<1>5. CASE AllocateThreads \/ AllCreated \/ Join \/ CheckWorkerError
  <2>1. /\ UNCHANGED <<leaf_count, first, lane, nodes, next_group, wpc>>
        /\ mpc' \in Early => mpc \in Early
        /\ mpc' \in {"calloc"} \cup Working => mpc \in {"calloc"} \cup Working
    BY <1>5 DEF AllocateThreads, AllCreated, Join, CheckWorkerError, workerVars, Early, Working
  <2> QED
    BY <1>1, <2>1 DEF ClaimsInv, Owns, Group, GroupSize
<1>6. CASE ReduceLevel \/ FinishRoot \/ Cleanup
  BY <1>0, <1>1, <1>6, ClaimsWithoutOwners
     DEF ReduceLevel, FinishRoot, Cleanup, Early, Working, workerVars
<1> QED
  BY <1>2, <1>3, <1>4, <1>5, <1>6 DEF Main

\* A worker steps only while the calling thread creates or joins.
LEMMA WorkerRuns ==
    ASSUME IInv, NEW t \in Workers, Worker(t)
    PROVE  Running(t) /\ mpc \in Working
<1>1. Running(t)
  BY DEF Worker, WorkerStart, CheckError, Claim, Pread, NextLane, HashGroup, WorkerExit, Running
<1>2. mpc \in Working
  BY <1>1 DEF IInv, ThreadsInv, TypeOK, MainPoints, Running, Early, Late, Working, Workers
<1> QED
  BY <1>1, <1>2

\* A step of a worker that claims nothing and stores nothing.
LEMMA SameClaims ==
    ASSUME IInv, UNCHANGED <<mainVars, first, lane, nodes, next_group>>,
           \A u \in Workers : Owns(u)' => Owns(u)
    PROVE  ClaimsInv'
  BY DEF IInv, ClaimsInv, Group, GroupSize, mainVars

\* A claim is disjoint from the others, and hashing a group gives it up.
LEMMA WorkerClaims ==
    ASSUME IInv, NEW t \in Workers, Worker(t)
    PROVE  ClaimsInv'
<1>0. /\ wpc \in [Workers -> WorkerPoints] /\ lane \in [Workers -> 0 .. Lanes - 1]
      /\ first \in [Workers -> Nat] /\ next_group \in Nat /\ leaf_count \in Nat
      /\ Lanes \in Nat /\ Lanes > 0
  BY ParameterAssumption DEF IInv, TypeOK
<1>1. ClaimsInv
  BY DEF IInv
<1>2. CASE WorkerStart(t) \/ CheckError(t) \/ WorkerExit(t)
  BY <1>0, <1>2, SameClaims
     DEF WorkerStart, WorkerFails, CheckError, WorkerExit, Owns
<1>3. CASE Claim(t)
  <2>1. mpc \in Working
    BY WorkerRuns
  <2>2. /\ UNCHANGED <<mpc, leaf_count, nodes>> /\ next_group' = next_group + Lanes
        /\ \A u \in Workers \ {t} : Owns(u)' <=> Owns(u)
        /\ \A u \in Workers \ {t} : first'[u] = first[u] /\ lane'[u] = lane[u]
        /\ first'[t] = next_group /\ lane'[t] = 0
        /\ Owns(t)' => next_group < leaf_count
    BY <1>0, <1>3 DEF Claim, mainVars, Owns
  <2>3. \A u \in Workers \ {t} : Owns(u) => first[u] + Lanes <= next_group
    BY <1>1 DEF ClaimsInv
  <2>4. ASSUME NEW u \in Workers, Owns(u)'
        PROVE  /\ first'[u] < leaf_count' /\ first'[u] + Lanes <= next_group'
               /\ lane'[u] < GroupSize(u)'
               /\ \A i \in Group(u)' : nodes'[i] = Unset
    <3>1. CASE u = t
      <4>1. GroupSize(t)' \in 1 .. Lanes /\ GroupSize(t)' <= leaf_count - next_group
        BY <1>0, <2>2, <2>4, <3>1 DEF GroupSize, AtMost
      <4>2. \A i \in Group(t)' : i \in 0 .. leaf_count - 1 /\ i >= next_group
        BY <1>0, <2>2, <4>1 DEF Group
      <4> QED
        BY <1>0, <1>1, <2>1, <2>2, <2>4, <3>1, <4>1, <4>2 DEF ClaimsInv
    <3>2. CASE u # t
      <4>1. Owns(u) /\ Group(u)' = Group(u) /\ GroupSize(u)' = GroupSize(u)
        BY <2>2, <2>4, <3>2 DEF Group, GroupSize
      <4>2. /\ first[u] < leaf_count /\ first[u] + Lanes <= next_group
            /\ lane[u] < GroupSize(u) /\ \A i \in Group(u) : nodes[i] = Unset
        BY <1>1, <4>1 DEF ClaimsInv
      <4>3. first'[u] = first[u] /\ lane'[u] = lane[u] /\ first[u] \in Nat
        BY <1>0, <2>2, <3>2
      <4>4. first'[u] + Lanes <= next_group'
        BY <1>0, <2>2, <4>2, <4>3
      <4> QED
        BY <2>2, <4>1, <4>2, <4>3, <4>4
    <3> QED
      BY <3>1, <3>2
  <2>5. \A u, w \in Workers : Owns(u)' /\ Owns(w)' /\ u # w =>
           first'[u] + Lanes <= first'[w] \/ first'[w] + Lanes <= first'[u]
    BY <1>0, <1>1, <2>2, <2>3 DEF ClaimsInv
  <2>6. \A i \in 0 .. leaf_count' - 1 : i >= next_group' => nodes'[i] = Unset
    BY <1>0, <1>1, <2>1, <2>2 DEF ClaimsInv
  <2> QED
    BY <2>1, <2>2, <2>4, <2>5, <2>6 DEF ClaimsInv, Working, Early
<1>4. CASE Pread(t)
  <2>1. wpc[t] = "read" /\ UNCHANGED <<mainVars, first, lane, nodes, next_group>>
    BY <1>4 DEF Pread
  <2>2. wpc' = wpc \/ wpc' = [wpc EXCEPT ![t] = "exited"]
    BY <1>4 DEF Pread, WorkerFails
  <2> QED
    BY <1>0, <2>1, <2>2, SameClaims DEF Owns
<1>5. CASE NextLane(t)
  <2>1. /\ UNCHANGED <<mainVars, first, nodes, next_group>> /\ Owns(t)
        /\ \A u \in Workers : Owns(u)' => Owns(u)
    BY <1>0, <1>5 DEF NextLane, Owns
  <2>2. /\ \A u \in Workers \ {t} : lane'[u] = lane[u]
        /\ lane'[t] = lane[t] \/ lane'[t] < GroupSize(t)
    <3>1. \/ lane' = lane
          \/ lane' = [lane EXCEPT ![t] = lane[t] + 1] /\ lane[t] + 1 < GroupSize(t)
      BY <1>5 DEF NextLane
    <3> QED
      BY <1>0, <3>1
  <2>3. \A u \in Workers : Group(u)' = Group(u) /\ GroupSize(u)' = GroupSize(u)
    BY <2>1 DEF Group, GroupSize, mainVars
  <2>4. ASSUME NEW u \in Workers, Owns(u)
        PROVE  lane'[u] < GroupSize(u)
    <3>1. lane[u] < GroupSize(u)
      BY <1>1, <2>4 DEF ClaimsInv
    <3> QED
      BY <2>2, <3>1 DEF GroupSize
  <2> QED
    BY <1>1, <2>1, <2>3, <2>4 DEF ClaimsInv, mainVars
<1>6. CASE HashGroup(t)
  <2>1. /\ UNCHANGED <<mainVars, first, lane, next_group>> /\ Owns(t) /\ ~Owns(t)'
        /\ \A u \in Workers : Owns(u)' => Owns(u) /\ u # t
    BY <1>0, <1>6 DEF HashGroup, Owns
  <2>2. \A i \in DOMAIN nodes \ Group(t) : nodes'[i] = nodes[i]
    BY <1>6 DEF HashGroup
  <2>3. /\ Group(t) \subseteq first[t] .. first[t] + Lanes - 1
        /\ DOMAIN nodes = 0 .. leaf_count - 1 /\ mpc \in Working
    BY <2>1, GroupInTable DEF IInv, TypeOK
  <2>4. ASSUME NEW u \in Workers, Owns(u), u # t, NEW i \in Group(u)
        PROVE  nodes'[i] = Unset
    <3>1. nodes[i] = Unset /\ i \in first[u] .. first[u] + Lanes - 1 /\ i \in DOMAIN nodes
      BY <1>1, <2>3, <2>4, GroupInTable DEF ClaimsInv
    <3>2. i \notin Group(t)
      <4>1. first[t] + Lanes <= first[u] \/ first[u] + Lanes <= first[t]
        BY <1>1, <2>1, <2>4 DEF ClaimsInv
      <4>2. i \in Group(t) => i \in first[t] .. first[t] + Lanes - 1
        BY <2>3
      <4> QED
        BY <1>0, <3>1, <4>1, <4>2
    <3> QED
      BY <2>2, <3>1, <3>2
  <2>5. \A i \in 0 .. leaf_count - 1 : i >= next_group => nodes'[i] = Unset
    <3>1. \A i \in 0 .. leaf_count - 1 : i >= next_group => i \notin Group(t)
      BY <1>0, <1>1, <2>1, <2>3 DEF ClaimsInv
    <3> QED
      BY <1>1, <2>2, <2>3, <3>1 DEF ClaimsInv
  <2>6. \A u \in Workers : Group(u)' = Group(u) /\ GroupSize(u)' = GroupSize(u)
    BY <2>1 DEF Group, GroupSize, mainVars
  <2> QED
    BY <1>1, <2>1, <2>4, <2>5, <2>6 DEF ClaimsInv, mainVars
<1> QED
  BY <1>2, <1>3, <1>4, <1>5, <1>6 DEF Worker

-----------------------------------------------------------------------------
(* Errors.                                                                 *)

\* No failure of the calling thread is lost or invented.
LEMMA MainErrors ==
    ASSUME IInv, Main
    PROVE  ErrorsInv'
<1>0. result \in {-1, 0} /\ OK \notin Faults
  BY ParameterAssumption DEF IInv, TypeOK
<1> USE DEF IInv, ErrorsInv, Early, MainFails
<1>1. CASE Open
  BY <1>0, <1>1 DEF Open
<1>2. CASE Fstat
  BY <1>0, <1>2 DEF Fstat
<1>3. CASE AllocateLeaves
  BY <1>0, <1>3 DEF AllocateLeaves
<1>4. CASE AllocateThreads
  BY <1>0, <1>4 DEF AllocateThreads
<1>5. CASE CreateWorker
  BY <1>0, <1>5 DEF CreateWorker, OK
<1>6. CASE AllCreated
  BY <1>0, <1>6 DEF AllCreated
<1>7. CASE Join
  BY <1>0, <1>7 DEF Join
<1>8. CASE CheckWorkerError
  BY <1>0, <1>8 DEF CheckWorkerError
<1>9. CASE ReduceLevel
  BY <1>0, <1>9 DEF ReduceLevel
<1>10. CASE FinishRoot
  BY <1>0, <1>10 DEF FinishRoot
<1>11. CASE Cleanup
  BY <1>0, <1>11 DEF Cleanup
<1> QED
  BY <1>1, <1>2, <1>3, <1>4, <1>5, <1>6, <1>7, <1>8, <1>9, <1>10, <1>11 DEF Main

\* A failure of a worker is in error_code from the moment it happens.
LEMMA WorkerErrors ==
    ASSUME IInv, NEW t \in Workers, Worker(t)
    PROVE  ErrorsInv'
<1>2. mpc \in Working
  BY WorkerRuns
<1>3. UNCHANGED mainVars
  BY DEF Worker, WorkerStart, CheckError, Claim, Pread, NextLane, HashGroup, WorkerExit
<1>4. \/ UNCHANGED <<error_code, faults>>
      \/ \E e \in {"ENOMEM", "EIO"} : error_code' = e /\ faults' = faults \cup {e}
  BY DEF Worker, WorkerStart, CheckError, Claim, Pread, NextLane, HashGroup, WorkerExit, WorkerFails
<1> QED
  BY <1>2, <1>3, <1>4 DEF IInv, ErrorsInv, Early, Working, mainVars, OK

-----------------------------------------------------------------------------
(* Coverage: with no error stored, no leaf is left out.                    *)

\* When the last worker has been joined without an error every slot is filled.
LEMMA JoinedCoversAll ==
    ASSUME IInv, mpc = "join", joined >= created, error_code = OK
    PROVE  \A i \in 0 .. leaf_count - 1 : nodes[i] # Unset
<1>1. /\ created \in Nat /\ joined \in Nat /\ threads \in 0 .. MaxThreads /\ MaxThreads \in Nat
      /\ leaf_count \in Nat /\ next_group \in Nat
  BY ParameterAssumption DEF IInv, TypeOK
<1>2. created = threads /\ threads > 0
  BY <1>1 DEF IInv, ThreadsInv, Working
<1>3. 0 \in Workers /\ wpc[0] = "exited"
  BY <1>1, <1>2 DEF IInv, ThreadsInv, Workers
<1>4. next_group >= leaf_count
  BY <1>3 DEF IInv, CoverageInv, Working
<1>5. \A t \in Workers : ~Owns(t)
  <2> SUFFICES ASSUME NEW t \in Workers PROVE wpc[t] \in {"none", "exited"}
    BY DEF Owns
  <2>1. CASE t < created
    BY <1>1, <2>1 DEF IInv, ThreadsInv, Workers
  <2>2. CASE t >= created
    BY <2>2 DEF IInv, ThreadsInv
  <2> QED
    BY <1>1, <2>1, <2>2 DEF Workers
<1> QED
  BY <1>1, <1>4, <1>5 DEF IInv, CoverageInv, Working

\* The steps of the calling thread keep coverage; the last join completes it.
LEMMA MainCoverage ==
    ASSUME IInv, Main
    PROVE  CoverageInv'
<1>0. CoverageInv
  BY DEF IInv
<1>1. CASE Open \/ Fstat \/ AllocateLeaves
  BY <1>0, <1>1 DEF Open, Fstat, AllocateLeaves, CoverageInv, Early, Working
<1>2. CASE AllocateThreads
  <2>1. /\ mpc = "calloc" /\ UNCHANGED <<wpc, leaf_count, next_group, level>>
        /\ mpc' \in {"create", "cleanup"}
    BY <1>2 DEF AllocateThreads, workerVars
  <2>2. next_group = 0 /\ \A t \in Workers : wpc[t] = "none"
    BY <2>1, ParameterAssumption DEF IInv, ClaimsInv, ThreadsInv, Early, Workers
  <2> QED
    BY <1>0, <2>1, <2>2 DEF CoverageInv, Early, Working
<1>3. CASE CreateWorker
  <2>1. mpc = "create" /\ UNCHANGED <<leaf_count, next_group, level, nodes, first>>
    BY <1>3 DEF CreateWorker
  <2>2. CASE wpc' = [wpc EXCEPT ![created] = "start"] /\ UNCHANGED <<mpc, error_code, faults>>
    <3>1. \A t \in Workers : wpc'[t] = wpc[t] \/ (wpc'[t] = "start" /\ wpc[t] = "none")
      <4>1. created \in Workers => wpc[created] = "none"
        BY ParameterAssumption DEF IInv, ThreadsInv, Workers
      <4>2. wpc \in [Workers -> WorkerPoints]
        BY DEF IInv, TypeOK
      <4> QED
        BY <2>2, <4>1, <4>2
    <3>2. \A t \in Workers : Owns(t) => Owns(t)'
      BY <3>1 DEF Owns
    <3>3. \A t \in Workers : Group(t)' = Group(t)
      BY <2>1 DEF Group, GroupSize
    <3> QED
      BY <1>0, <2>1, <2>2, <3>1, <3>2, <3>3 DEF CoverageInv, Early, Working
  <2>3. CASE error_code' = "EAGAIN" /\ mpc' = "join"
    BY <1>0, <2>1, <2>3 DEF CoverageInv, Early, Working, OK
  <2> QED
    BY <1>3, <2>2, <2>3 DEF CreateWorker
<1>4. CASE AllCreated \/ Join
  <2>1. /\ mpc \in Working /\ mpc' \in Working
        /\ UNCHANGED <<error_code, wpc, leaf_count, next_group, level, nodes, first>>
    BY <1>4 DEF AllCreated, Join, Working, workerVars
  <2> QED
    BY <1>0, <2>1 DEF CoverageInv, Early, Working, Owns, Group, GroupSize
<1>5. CASE CheckWorkerError
  <2>1. /\ mpc = "join" /\ joined >= created /\ UNCHANGED <<leaf_count, level, nodes>>
        /\ (mpc' = "cleanup" \/ (mpc' = "reduce" /\ error_code = OK))
    BY <1>5 DEF CheckWorkerError
  <2> QED
    BY <2>1, JoinedCoversAll DEF CoverageInv, Early, Working
<1>6. CASE ReduceLevel
  <2>1. level \in Nat
    BY DEF IInv, TypeOK
  <2> QED
    BY <1>6, <2>1 DEF ReduceLevel, CoverageInv, Early, Working
<1>7. CASE FinishRoot \/ Cleanup
  BY <1>7 DEF FinishRoot, Cleanup, CoverageInv, Early, Working
<1> QED
  BY <1>1, <1>2, <1>3, <1>4, <1>5, <1>6, <1>7 DEF Main

\* The digest a worker stores is not the mark of an unwritten slot.
LEMMA StoredDigest ==
    ASSUME IInv, NEW t \in Workers, wpc[t] = "hash", NEW i \in Group(t)
    PROVE  GroupDigest(t, i) # Unset
<1>1. /\ Group(t) \subseteq 0 .. leaf_count - 1
      /\ Group(t) \subseteq first[t] .. first[t] + Lanes - 1
      /\ GroupSize(t) \in 1 .. Lanes
  BY GroupInTable DEF Owns
<1>2. /\ leaf_count \in 0 .. MaxLeaves /\ file_size \in Nat /\ first[t] \in Nat
      /\ Lanes \in Nat /\ MaxLeaves \in Nat /\ ChunkBytes \in Nat
  BY ParameterAssumption, ChunkAssumption DEF IInv, TypeOK
<1>3. i \in Nat /\ i \in 0 .. MaxLeaves - 1 /\ i - first[t] \in 0 .. Lanes - 1
  BY <1>1, <1>2
<1>4. Length(i) \in 0 .. ChunkBytes /\ Length(first[t]) \in 0 .. ChunkBytes
  BY <1>2, <1>3, ChunkLengthType DEF Length
<1>5. HashedLength(t, i) \in 0 .. ChunkBytes
  BY <1>4 DEF HashedLength
<1>6. scratch[t] \in Buffers
  BY DEF IInv, TypeOK, ScratchOK
<1>7. [k \in 1 .. HashedLength(t, i) |-> scratch[t][i - first[t]][k]]
        \in [1 .. HashedLength(t, i) -> Bytes \cup {Unset}]
  <2>1. \A k \in 1 .. HashedLength(t, i) : k \in 1 .. ChunkBytes
    BY <1>2, <1>5
  <2> QED
    BY <1>3, <1>6, <2>1 DEF Buffers
<1> QED
  BY <1>3, <1>4, <1>5, <1>7, DigestAssumption DEF GroupDigest

\* A claimed leaf stays in hand until its digest is stored.
LEMMA WorkerCoverage ==
    ASSUME IInv, NEW t \in Workers, Worker(t)
    PROVE  CoverageInv'
<1>0. /\ wpc \in [Workers -> WorkerPoints] /\ first \in [Workers -> Nat]
      /\ next_group \in Nat /\ leaf_count \in Nat /\ Lanes \in Nat /\ Lanes > 0
  BY ParameterAssumption DEF IInv, TypeOK
<1>1. CoverageInv
  BY DEF IInv
<1>2. mpc \in Working /\ Running(t)
  BY WorkerRuns
<1>3. UNCHANGED <<mpc, leaf_count, level>>
  BY DEF Worker, WorkerStart, CheckError, Claim, Pread, NextLane, HashGroup, WorkerExit, mainVars
<1>4. CASE error_code' # OK
  BY <1>1, <1>2, <1>3, <1>4 DEF CoverageInv, Early, Working
<1>5. CASE /\ UNCHANGED <<error_code, first, next_group, nodes>>
           /\ \A u \in Workers : Owns(u) <=> Owns(u)'
           /\ \A u \in Workers : wpc'[u] \in {"exit", "exited"}
                                  => wpc[u] \in {"exit", "exited"} \/ error_code # OK
  <2>1. \A u \in Workers : Group(u)' = Group(u)
    BY <1>3, <1>5 DEF Group, GroupSize
  <2> QED
    BY <1>1, <1>2, <1>3, <1>5, <2>1 DEF CoverageInv, Early, Working
<1>6. CASE WorkerStart(t)
  <2>1. CASE error_code' = "ENOMEM"
    BY <1>4, <2>1 DEF OK
  <2>2. CASE wpc' = [wpc EXCEPT ![t] = "check"] /\ error_code' = error_code
    BY <1>0, <1>5, <1>6, <2>2 DEF WorkerStart, Owns
  <2> QED
    BY <1>6, <2>1, <2>2 DEF WorkerStart, WorkerFails
<1>7. CASE CheckError(t) \/ NextLane(t) \/ WorkerExit(t)
  BY <1>0, <1>5, <1>7 DEF CheckError, NextLane, WorkerExit, Owns
<1>8. CASE Pread(t)
  <2>1. CASE error_code' = "EIO"
    BY <1>4, <2>1 DEF OK
  <2>2. CASE wpc' = wpc /\ error_code' = error_code
    BY <1>5, <1>8, <2>2 DEF Pread, Owns
  <2> QED
    BY <1>8, <2>1, <2>2 DEF Pread, WorkerFails
<1>9. CASE Claim(t)
  <2>1. /\ UNCHANGED <<nodes, error_code>> /\ next_group' = next_group + Lanes
        /\ first' = [first EXCEPT ![t] = next_group] /\ wpc[t] = "claim"
        /\ wpc' = [wpc EXCEPT ![t] = IF next_group >= leaf_count THEN "exit" ELSE "read"]
    BY <1>9 DEF Claim
  <2>2. \A u \in Workers : wpc'[u] \in {"exit", "exited"} =>
           wpc[u] \in {"exit", "exited"} \/ next_group' >= leaf_count
    BY <1>0, <2>1
  <2>3. ASSUME NEW u \in Workers, Owns(u)
        PROVE  Owns(u)' /\ Group(u)' = Group(u)
    <3>1. u # t
      BY <2>1, <2>3 DEF Owns
    <3> QED
      BY <1>0, <1>3, <2>1, <2>3, <3>1 DEF Owns, Group, GroupSize
  <2>4. ASSUME NEW i \in 0 .. leaf_count - 1, i < next_group', i >= next_group
        PROVE  Owns(t)' /\ i \in Group(t)'
    BY <1>0, <1>3, <2>1, <2>4 DEF Owns, Group, GroupSize, AtMost
  <2>5. ASSUME error_code' = OK, NEW i \in 0 .. leaf_count - 1, i < next_group'
        PROVE  nodes'[i] # Unset \/ \E u \in Workers : Owns(u)' /\ i \in Group(u)'
    <3>1. CASE i < next_group
      <4>1. nodes[i] # Unset \/ \E u \in Workers : Owns(u) /\ i \in Group(u)
        BY <1>1, <1>2, <2>1, <2>5, <3>1 DEF CoverageInv
      <4> QED
        BY <2>1, <2>3, <4>1
    <3>2. CASE i >= next_group
      BY <2>4, <2>5, <3>2
    <3> QED
      BY <1>0, <3>1, <3>2
  <2> QED
    BY <1>0, <1>1, <1>2, <1>3, <2>1, <2>2, <2>5 DEF CoverageInv, Early, Working
<1>10. CASE HashGroup(t)
  <2>1. /\ UNCHANGED <<error_code, first, next_group>> /\ wpc[t] = "hash"
        /\ wpc' = [wpc EXCEPT ![t] = "check"]
    BY <1>10 DEF HashGroup
  <2>2. \A u \in Workers : Group(u)' = Group(u)
    BY <1>3, <2>1 DEF Group, GroupSize
  <2>3. ASSUME NEW u \in Workers, u # t, Owns(u) PROVE Owns(u)'
    BY <1>0, <2>1, <2>3 DEF Owns
  <2>4. \A i \in Group(t) : nodes'[i] # Unset
    BY <1>10, <2>1, StoredDigest DEF HashGroup
  <2>5. \A i \in DOMAIN nodes \ Group(t) : nodes'[i] = nodes[i]
    BY <1>10 DEF HashGroup
  <2>6. DOMAIN nodes = 0 .. leaf_count - 1
    BY <2>1, GroupInTable DEF IInv, TypeOK, Owns
  <2>7. ASSUME error_code' = OK, NEW i \in 0 .. leaf_count - 1, i < next_group'
        PROVE  nodes'[i] # Unset \/ \E u \in Workers : Owns(u)' /\ i \in Group(u)'
    <3>1. nodes[i] # Unset \/ \E u \in Workers : Owns(u) /\ i \in Group(u)
      BY <1>1, <1>2, <2>1, <2>7 DEF CoverageInv
    <3>2. CASE i \in Group(t)
      BY <2>4, <3>2
    <3>3. CASE nodes[i] # Unset /\ i \notin Group(t)
      BY <2>5, <2>6, <3>3
    <3>4. ASSUME NEW u \in Workers, Owns(u), i \in Group(u), i \notin Group(t)
          PROVE  Owns(u)' /\ i \in Group(u)'
      <4>1. u # t
        BY <3>4 DEF Group, GroupSize
      <4> QED
        BY <2>2, <2>3, <3>4, <4>1
    <3> QED
      BY <3>1, <3>2, <3>3, <3>4
  <2>8. \A u \in Workers : wpc'[u] \in {"exit", "exited"} => wpc[u] \in {"exit", "exited"}
    BY <1>0, <2>1
  <2> QED
    BY <1>1, <1>2, <1>3, <2>1, <2>7, <2>8 DEF CoverageInv, Early, Working
<1> QED
  BY <1>6, <1>7, <1>8, <1>9, <1>10 DEF Worker

-----------------------------------------------------------------------------
(* The invariant and what follows from it.                                 *)

\* The invariant holds initially.
LEMMA InitInv == Init => IInv
<1> SUFFICES ASSUME Init PROVE IInv
  OBVIOUS
<1>1. TypeOK
  BY InitType
<1>2. \A t \in Workers : wpc[t] = "none" /\ t \in Nat
  BY ParameterAssumption DEF Init, Workers
<1> QED
  BY <1>1, <1>2 DEF Init, IInv, ThreadsInv, ResourcesInv, WipeFitsBlock, ClaimsInv, Owns,
     ErrorsInv, CoverageInv, Running, Early, Working, Late

\* Edits of the file, and steps that change nothing, keep every part.
LEMMA OthersInv ==
    ASSUME IInv,
           UNCHANGED <<faults, mainVars, nodes, next_group, error_code, workerVars>>
    PROVE  ThreadsInv' /\ ResourcesInv' /\ ClaimsInv' /\ ErrorsInv' /\ CoverageInv'
<1> USE DEF IInv, mainVars, workerVars
<1>1. ThreadsInv'
  BY DEF ThreadsInv, Running
<1>2. ResourcesInv'
  BY DEF ResourcesInv, WipeFitsBlock
<1>3. ClaimsInv'
  BY DEF ClaimsInv, Owns, Group, GroupSize
<1>4. ErrorsInv'
  BY DEF ErrorsInv
<1>5. CoverageInv'
  BY DEF CoverageInv, Owns, Group, GroupSize
<1> QED
  BY <1>1, <1>2, <1>3, <1>4, <1>5

\* Every step keeps the invariant.
LEMMA NextInv == IInv /\ [Next]_vars => IInv'
<1> SUFFICES ASSUME IInv, [Next]_vars PROVE IInv'
  OBVIOUS
<1>0. TypeOK'
  BY TypeStep
<1>1. CASE Main
  BY <1>0, <1>1, MainThreads, MainResources, MainClaims, MainErrors, MainCoverage DEF IInv
<1>2. ASSUME NEW t \in Workers, Worker(t) PROVE IInv'
  <2>1. UNCHANGED mainVars
    BY <1>2 DEF Worker, WorkerStart, CheckError, Claim, Pread, NextLane, HashGroup, WorkerExit
  <2> QED
    BY <1>0, <1>2, <2>1, WorkerThreads, OthersResources, WorkerClaims, WorkerErrors,
       WorkerCoverage DEF IInv
<1>3. CASE Edit
  <2>1. UNCHANGED <<faults, mainVars, nodes, next_group, error_code, workerVars>>
    BY <1>3 DEF Edit
  <2> QED
    BY <1>0, <2>1, OthersInv DEF IInv
<1>4. CASE UNCHANGED vars
  BY <1>0, <1>4, OthersInv DEF IInv, vars
<1> QED
  BY <1>1, <1>2, <1>3, <1>4 DEF Next, Returned

\* The invariant holds in every reachable state, for every file, number of
\* threads, chunk and group size, fault and interleaving.
THEOREM Invariance == Spec => []IInv
  BY InitInv, NextInv, PTL DEF Spec

\* Every variable of the call, the shared structure and the workers keeps its type.
THEOREM TypeCorrect == Spec => []TypeOK
<1>1. IInv => TypeOK
  BY DEF IInv
<1> QED
  BY <1>1, Invariance, PTL

\* The groups of two workers are disjoint and hold no digest yet.
THEOREM ClaimsAreExclusive == Spec => []ExclusiveClaims
<1>1. IInv => ExclusiveClaims
  <2> SUFFICES ASSUME IInv, NEW t \in Workers, Owns(t)
               PROVE  /\ Group(t) # {} /\ Group(t) \subseteq DOMAIN nodes
                      /\ \A i \in Group(t) : nodes[i] = Unset
                      /\ \A u \in Workers \ {t} : Owns(u) => Group(t) \cap Group(u) = {}
    BY DEF ExclusiveClaims
  <2>1. /\ Lanes \in Nat /\ \A u \in Workers : first[u] \in Nat
        /\ DOMAIN nodes = 0 .. block - 1
    BY ParameterAssumption DEF IInv, TypeOK
  <2>2. Group(t) # {} /\ Group(t) \subseteq DOMAIN nodes
    <3>1. first[t] \in Group(t)
      BY <2>1, GroupInTable DEF Group
    <3> QED
      BY <2>1, <3>1, GroupInTable
  <2>3. \A i \in Group(t) : nodes[i] = Unset
    BY DEF IInv, ClaimsInv
  <2>4. ASSUME NEW u \in Workers, Owns(u), u # t
        PROVE  Group(t) \cap Group(u) = {}
    <3>1. first[t] + Lanes <= first[u] \/ first[u] + Lanes <= first[t]
      BY <2>4 DEF IInv, ClaimsInv
    <3>2. Group(t) \subseteq first[t] .. first[t] + Lanes - 1
      BY GroupInTable
    <3>3. Group(u) \subseteq first[u] .. first[u] + Lanes - 1
      BY <2>4, GroupInTable
    <3>4. (first[t] .. first[t] + Lanes - 1) \cap (first[u] .. first[u] + Lanes - 1) = {}
      BY <2>1, <3>1
    <3> QED
      BY <3>2, <3>3, <3>4
  <2> QED
    BY <2>2, <2>3, <2>4
<1> QED
  BY <1>1, Invariance, PTL

\* No worker outlives the stack frame, the table and the descriptor it uses.
THEOREM SharedStateOutlivesWorkers == Spec => []SharedOutlivesWorkers
<1>1. IInv => SharedOutlivesWorkers
  <2> SUFFICES ASSUME IInv, NEW t \in Workers, Running(t)
               PROVE  /\ mpc \in {"create", "join"}
                      /\ joined <= t /\ t < created
                      /\ fd /\ block = leaf_count /\ block > 0
    BY DEF SharedOutlivesWorkers
  <2>1. mpc \in {"create", "join"}
    BY DEF IInv, ThreadsInv, TypeOK, MainPoints, Running, Early, Late, Working, Workers
  <2>2. joined <= t /\ t < created
    BY ParameterAssumption DEF IInv, ThreadsInv, TypeOK, Running, Workers
  <2> QED
    BY <2>1, <2>2 DEF IInv, ResourcesInv, Working
<1> QED
  BY <1>1, Invariance, PTL

\* The wipe of cleanup covers the live block exactly.
THEOREM WipeCoversBlock == Spec => []WipeFitsBlock
<1>1. IInv => WipeFitsBlock
  BY DEF IInv, ResourcesInv
<1> QED
  BY <1>1, Invariance, PTL

\* A call that has returned holds nothing and has no worker left.
THEOREM NothingLeftBehind == Spec => []ReturnedClean
<1>1. IInv => ReturnedClean
  <2> SUFFICES ASSUME IInv, mpc = "done"
               PROVE  /\ block = 0 /\ ~thread_ids /\ ~fd
                      /\ \A t \in Workers : ~Running(t) /\ scratch[t] = << >>
    BY DEF ReturnedClean
  <2>1. \A t \in Workers : ~Running(t)
    BY DEF IInv, ThreadsInv, Late
  <2>2. \A t \in Workers : scratch[t] = << >>
    BY <2>1 DEF Running, IInv, TypeOK, ScratchOK
  <2> QED
    BY <2>1, <2>2 DEF IInv, ResourcesInv
<1> QED
  BY <1>1, Invariance, PTL

\* A 0 means that nothing failed, a -1 that something did; errno is then that of a failure
\* that happened, or of the close after it (frogbard_tree.c:322-327, 367).
THEOREM ErrorsAccounted == Spec => []ErrorAccounting
<1>1. IInv => ErrorAccounting
  BY DEF IInv, ErrorsInv, ErrorAccounting
<1> QED
  BY <1>1, Invariance, PTL


-----------------------------------------------------------------------------
(* Where the bytes of leaves lie.                                          *)

\* Different leaves have no byte of the file in common.
LEMMA LeavesApart ==
    ASSUME NEW i \in Nat, NEW j \in Nat, i # j,
           NEW k \in 1 .. ChunkBytes, NEW m \in 1 .. ChunkBytes
    PROVE  Position(i, k) # Position(j, m)
<1>0. ChunkBytes \in Nat
  BY ChunkAssumption
<1>1. ASSUME NEW a \in Nat, NEW b \in Nat, a < b,
             NEW x \in 1 .. ChunkBytes, NEW y \in 1 .. ChunkBytes
      PROVE  Position(a, x) # Position(b, y)
  <2>1. (b - a) * ChunkBytes >= ChunkBytes
    BY <1>0, <1>1
  <2>2. b * ChunkBytes = a * ChunkBytes + (b - a) * ChunkBytes
    BY <1>0, <1>1
  <2>3. a * ChunkBytes \in Nat /\ b * ChunkBytes \in Nat
    BY <1>0
  <2> QED
    BY <1>0, <2>1, <2>2, <2>3 DEF Position
<1>2. CASE i < j
  BY <1>1, <1>2
<1>3. CASE j < i
  BY <1>1, <1>3
<1> QED
  BY <1>2, <1>3

\* Groups a whole group apart have no leaf in common.
LEMMA GroupsApart ==
    ASSUME NEW a \in Nat, NEW b \in Nat, NEW w \in Nat,
           NEW i \in Nat, NEW j \in Nat, i < w, j < w,
           a + w <= b \/ b + w <= a
    PROVE  a + i # b + j
  OBVIOUS

\* The bytes of a leaf lie inside the file.
LEMMA LeafInFile ==
    ASSUME NEW size \in Nat, NEW i \in Nat, NEW k \in 1 .. ChunkLength(size, i)
    PROVE  Position(i, k) \in 1 .. size /\ k \in 1 .. ChunkBytes
<1>1. ChunkBytes \in Nat /\ i * ChunkBytes \in Nat /\ ChunkLength(size, i) \in Nat
  BY ChunkAssumption, ChunkLengthType
<1> QED
  BY <1>1 DEF ChunkLength, Position

\* Every byte of the file is a byte of one of its leaves.
LEMMA LeavesCoverFile ==
    ASSUME NEW size \in Nat, NEW p \in 1 .. size
    PROVE  \E i \in 0 .. LeafCount(size) - 1 : \E k \in 1 .. ChunkLength(size, i) :
              p = Position(i, k)
<1> DEFINE i == (p - 1) \div ChunkBytes
           k == p - i * ChunkBytes
<1>0. ChunkBytes \in Nat /\ ChunkBytes > 0 /\ p \in Nat /\ p > 0 /\ p <= size
  BY ChunkAssumption
<1>1. i \in Nat /\ i * ChunkBytes <= p - 1 /\ p - 1 < i * ChunkBytes + ChunkBytes
  BY <1>0
<1>2. LeafCount(size) \in Nat /\ size <= LeafCount(size) * ChunkBytes
  BY <1>0 DEF LeafCount
<1>3. i < LeafCount(size)
  BY <1>0, <1>1, <1>2
<1>4. k \in 1 .. ChunkLength(size, i)
  BY <1>0, <1>1 DEF ChunkLength
<1>5. p = Position(i, k)
  BY <1>0, <1>1 DEF Position
<1>6. i \in 0 .. LeafCount(size) - 1
  BY <1>1, <1>2, <1>3
<1> HIDE DEF i, k
<1> QED
  BY <1>4, <1>5, <1>6

-----------------------------------------------------------------------------
(* Steps that read, hash or reduce nothing.                                *)

\* Initially nothing is read and nothing is hashed.
LEMMA InitContents == Init => ContentsInv
  BY ParameterAssumption DEF Init, ContentsInv, Owns, Working

\* A step that touches neither the file's bytes read so far, nor the table, nor a
\* buffer a worker has filled, keeps the contents right.
LEMMA SameContents ==
    ASSUME ContentsInv, UNCHANGED <<view, file_size, leaf_count, nodes, first, lane, done, level>>,
           \A t \in Workers : Owns(t)' => /\ Owns(t) /\ scratch'[t] = scratch[t]
                                          /\ wpc'[t] = wpc[t],
           mpc' \in {"calloc"} \cup Working => mpc \in {"calloc"} \cup Working,
           mpc' = "reduce" /\ level = 0 =>
              leaf_count > 0 /\ \A i \in 0 .. leaf_count - 1 : LeafHashed(i)
    PROVE  ContentsInv'
<1>1. ASSUME NEW t \in Workers, Owns(t)'
      PROVE  /\ Owns(t) /\ scratch'[t] = scratch[t] /\ wpc'[t] = wpc[t]
             /\ LaneLength(t)' = LaneLength(t) /\ GroupSize(t)' = GroupSize(t)
  BY <1>1 DEF LaneLength, Length, GroupSize
<1>2. ASSUME NEW t \in Workers, Owns(t)', NEW j, NEW n
      PROVE  LaneHolds(t, j, n)' <=> LaneHolds(t, j, n)
  BY <1>1, <1>2 DEF LaneHolds
<1>3. \A i : LeafHashed(i)' <=> LeafHashed(i)
  BY DEF LeafHashed, LeafRead, Length
<1>4. \A i : Length(i)' = Length(i)
  BY DEF Length
<1>5. ASSUME NEW t \in Workers, Owns(t)'
      PROVE  /\ done'[t] <= LaneLength(t)'
             /\ LaneHolds(t, lane[t], done[t])'
             /\ \A j \in 0 .. lane'[t] - 1 : LaneHolds(t, j, Length(first[t] + j))'
             /\ wpc'[t] = "hash" => lane'[t] + 1 >= GroupSize(t)' /\ done'[t] = LaneLength(t)'
  BY <1>1, <1>2, <1>4, <1>5 DEF ContentsInv, LaneHolds
<1> QED
  BY <1>3, <1>5 DEF ContentsInv

\* The steps of the calling thread keep the contents right.
LEMMA MainContents ==
    ASSUME IInv, ContentsInv, Main
    PROVE  ContentsInv'
<1>0. mpc \notin Working => \A t \in Workers : wpc[t] \notin {"read", "hash"}
  BY NoOwner DEF Owns
<1>1. CASE Open
  BY <1>0, <1>1 DEF Open, ContentsInv, Owns, Working, workerVars
<1>2. CASE Fstat
  <2>1. Len(file) \in Nat
    BY DEF IInv, TypeOK
  <2>2. mpc' \in {"malloc", "cleanup"} /\ \A t \in Workers : ~Owns(t)'
    BY <1>0, <1>2 DEF Fstat, Owns, Working, workerVars
  <2>3. CASE UNCHANGED <<file_size, leaf_count, view>>
    BY <2>2, <2>3 DEF ContentsInv, Working
  <2>4. CASE /\ file_size' = Len(file) /\ leaf_count' = LeafCount(Len(file))
             /\ view' = [k \in 1 .. Len(file) |-> Unset]
    BY <2>1, <2>2, <2>4 DEF ContentsInv, Working
  <2> QED
    BY <1>2, <2>3, <2>4 DEF Fstat
<1>3. CASE AllocateLeaves
  <2>1. /\ mpc' \in {"calloc", "cleanup"} /\ UNCHANGED <<view, file_size, leaf_count>>
        /\ mpc' = "calloc" => \A i \in 0 .. leaf_count - 1 : nodes'[i] = Unset
        /\ \A t \in Workers : ~Owns(t)'
    BY <1>0, <1>3 DEF AllocateLeaves, Owns, Working, workerVars
  <2> QED
    BY <2>1 DEF ContentsInv, Working
<1>4. CASE AllocateThreads \/ AllCreated \/ Join
  BY <1>4, SameContents
     DEF AllocateThreads, AllCreated, Join, Owns, Working, workerVars
<1>5. CASE CreateWorker
  <2>1. UNCHANGED <<view, file_size, leaf_count, nodes, first, lane, done, level, scratch>>
    BY <1>5 DEF CreateWorker
  <2>2. \A t \in Workers : Owns(t)' => Owns(t) /\ wpc'[t] = wpc[t]
    BY <1>5 DEF CreateWorker, Owns, IInv, TypeOK
  <2>3. mpc = "create" /\ mpc' # "reduce"
    BY <1>5 DEF CreateWorker
  <2> QED
    BY <2>1, <2>2, <2>3, SameContents DEF Working
<1>6. CASE CheckWorkerError
  <2>1. /\ mpc = "join" /\ joined >= created
        /\ UNCHANGED <<view, file_size, leaf_count, nodes, level, workerVars>>
        /\ mpc' \in {"cleanup", "reduce"} /\ (mpc' = "reduce" => error_code = OK)
    BY <1>6 DEF CheckWorkerError
  <2>2. mpc' = "reduce" => \A i \in 0 .. leaf_count - 1 : LeafHashed(i)
    BY <2>1, JoinedCoversAll DEF ContentsInv, Working
  <2>3. leaf_count > 0
    BY <2>1 DEF IInv, ResourcesInv, Working
  <2> QED
    BY <2>1, <2>2, <2>3, SameContents DEF workerVars, Owns, Working
<1>7. CASE ReduceLevel
  <2>1. /\ mpc' = "cleanup" \/ level' # 0
        /\ mpc' \in {"cleanup", "reduce"}
        /\ UNCHANGED <<view, file_size, leaf_count>> /\ \A t \in Workers : ~Owns(t)'
    BY <1>0, <1>7 DEF ReduceLevel, Owns, Working, workerVars, IInv, TypeOK
  <2> QED
    BY <2>1 DEF ContentsInv, Working
<1>8. CASE FinishRoot \/ Cleanup
  <2>1. /\ mpc' \in {"cleanup", "done"}
        /\ UNCHANGED <<view, file_size, leaf_count>> /\ \A t \in Workers : ~Owns(t)'
    BY <1>0, <1>8 DEF FinishRoot, Cleanup, Owns, Working, workerVars
  <2> QED
    BY <2>1 DEF ContentsInv, Working
<1> QED
  BY <1>1, <1>2, <1>3, <1>4, <1>5, <1>6, <1>7, <1>8 DEF Main

-----------------------------------------------------------------------------
(* A successful pread of n bytes by worker t, for leaf first[t] + lane[t]. *)

\* The bytes land in the lane's buffer and in view at the same places, and disturb
\* neither another lane, nor another worker, nor a leaf that is already hashed.
LEMMA StoreContents ==
    ASSUME IInv, ContentsInv, NEW t \in Workers, wpc[t] = "read",
           NEW n \in 1 .. AtMost(LaneLength(t) - done[t],
                                 Len(file) - ((first[t] + lane[t]) * ChunkBytes + done[t])),
           Store(t, (first[t] + lane[t]) * ChunkBytes + done[t], n),
           done' = [done EXCEPT ![t] = done[t] + n],
           UNCHANGED <<wpc, first, lane, nodes, mpc, file_size, leaf_count, level>>
    PROVE  ContentsInv'
<1>a. PICK leaf : leaf = first[t] + lane[t]
  OBVIOUS
<1>b. PICK base : base = leaf * ChunkBytes
  OBVIOUS
<1>c. PICK offset : offset = base + done[t]
  OBVIOUS
<1>1. /\ offset \in Nat /\ done[t] \in Nat /\ Len(file) \in Nat /\ leaf \in Nat
      /\ LaneLength(t) \in 0 .. ChunkBytes /\ file \in Seq(Bytes)
      /\ ChunkBytes \in Nat /\ base \in Nat
  <2>1. first[t] + lane[t] \in Nat
    BY ParameterAssumption DEF IInv, TypeOK
  <2>2. leaf \in Nat /\ ChunkBytes \in Nat
    BY <1>a, <2>1, ChunkAssumption
  <2>3. base \in Nat
    BY <1>b, <2>2
  <2> QED
    BY SMTT(30), <1>c, <2>2, <2>3, ReadBounds DEF IInv
<1>d. n \in 1 .. AtMost(LaneLength(t) - done[t], Len(file) - offset) /\ Store(t, offset, n)
  BY <1>a, <1>b, <1>c
<1>2. n \in Nat /\ n > 0 /\ n <= LaneLength(t) - done[t] /\ n <= Len(file) - offset
  BY <1>1, <1>d DEF AtMost
<1>3. /\ scratch[t] \in Buffers /\ DOMAIN scratch = Workers /\ lane[t] \in 0 .. Lanes - 1
      /\ Lanes \in Nat /\ file_size \in Nat
  BY ParameterAssumption DEF IInv, TypeOK, ScratchOK
<1>4. \A u \in Workers : first[u] \in Nat /\ lane[u] \in Nat /\ done[u] \in Nat
  BY ParameterAssumption, ChunkAssumption DEF IInv, TypeOK
<1>5. Owns(t)
  BY DEF Owns
<1>e. \A k \in Nat : Position(leaf, k) = base + k
  BY <1>b DEF Position
<1>f. LaneLength(t) = ChunkLength(file_size, leaf)
  BY <1>a DEF LaneLength, Length
<1>g. first[t] + lane[t] = leaf
  BY <1>a
\* The bytes that arrive, and where.
<1>6. \A k \in done[t] + 1 .. done[t] + n :
         /\ k \in 1 .. ChunkBytes
         /\ offset + k - done[t] = Position(leaf, k)
         /\ Position(leaf, k) \in 1 .. Len(file)
         /\ file[Position(leaf, k)] \in Bytes
  <2> SUFFICES ASSUME NEW k \in done[t] + 1 .. done[t] + n
               PROVE  /\ k \in 1 .. ChunkBytes
                      /\ offset + k - done[t] = Position(leaf, k)
                      /\ Position(leaf, k) \in 1 .. Len(file)
    BY SMTT(30), <1>1
  <2>1. k \in 1 .. ChunkBytes
    BY <1>1, <1>2
  <2>2. offset + k - done[t] = Position(leaf, k)
    <3>1. k \in Nat /\ Position(leaf, k) = base + k
      BY <1>e, <2>1
    <3> QED
      BY <1>1, <1>c, <3>1
  <2>3. offset + k - done[t] \in 1 .. Len(file)
    <3>1. k \in Nat /\ done[t] < k /\ k <= done[t] + n
      BY <1>1
    <3> QED
      BY SMTT(30), <1>1, <1>2, <3>1
  <2> QED
    BY <2>1, <2>2, <2>3
<1>7. scratch' = [scratch EXCEPT ![t] = [scratch[t] EXCEPT ![lane[t]] =
        [k \in 1 .. ChunkBytes |->
           IF k \in done[t] + 1 .. done[t] + n
           THEN file[offset + k - done[t]] ELSE scratch[t][lane[t]][k]]]]
  BY <1>3, <1>d DEF Store, Buffers
<1>8. view' = [p \in 1 .. file_size |->
                 IF p \in offset + 1 .. offset + n THEN file[p] ELSE view[p]]
  BY <1>d DEF Store
<1>9. \A k \in 1 .. ChunkBytes :
         scratch'[t][lane[t]][k] = IF k \in done[t] + 1 .. done[t] + n
                                   THEN file[Position(leaf, k)] ELSE scratch[t][lane[t]][k]
  BY <1>3, <1>6, <1>7 DEF Buffers
<1>10. \A p \in offset + 1 .. offset + n : \E k \in done[t] + 1 .. done[t] + n :
          p = Position(leaf, k)
  <2> SUFFICES ASSUME NEW p \in offset + 1 .. offset + n
               PROVE  \E k \in done[t] + 1 .. done[t] + n : p = Position(leaf, k)
    OBVIOUS
  <2>1. p - offset + done[t] \in done[t] + 1 .. done[t] + n
    BY <1>1, <1>2
  <2>2. offset + (p - offset + done[t]) - done[t] = p
    BY <1>1
  <2> QED
    BY <1>6, <2>1, <2>2
\* Positions of other leaves keep their byte, and so do those already read.
<1>11. ASSUME NEW i \in Nat, NEW k \in 1 .. ChunkLength(file_size, i),
              i # leaf \/ k <= done[t]
       PROVE  view'[Position(i, k)] = view[Position(i, k)]
  <2>1. Position(i, k) \in 1 .. file_size /\ k \in 1 .. ChunkBytes
    BY <1>3, LeafInFile
  <2>2. Position(i, k) \notin offset + 1 .. offset + n
    <3> SUFFICES ASSUME NEW m \in done[t] + 1 .. done[t] + n, Position(i, k) = Position(leaf, m)
                 PROVE  FALSE
      BY <1>10
    <3>1. m \in 1 .. ChunkBytes
      BY <1>6
    <3>2. CASE i # leaf
      BY <1>1, <2>1, <3>1, <3>2, LeavesApart
    <3>3. CASE i = leaf /\ k <= done[t]
      <4>1. k < m /\ k \in Nat /\ m \in Nat
        BY <1>1, <2>1, <3>1, <3>3
      <4> QED
        BY <1>1, <1>e, <3>3, <4>1
    <3> QED
      BY <1>11, <3>2, <3>3
  <2> QED
    BY <1>8, <2>1, <2>2
\* The lane being read holds n bytes more.
<1>12. ASSUME NEW k \in 1 .. done[t] + n
       PROVE  /\ scratch'[t][lane[t]][k] = view'[Position(leaf, k)]
              /\ view'[Position(leaf, k)] # Unset
  <2>1. k \in 1 .. LaneLength(t) /\ k \in 1 .. ChunkBytes
    BY <1>1, <1>2
  <2>2. LaneLength(t) = ChunkLength(file_size, leaf)
    BY <1>f
  <2>3. CASE k <= done[t]
    <3>1. scratch[t][lane[t]][k] = view[Position(leaf, k)] /\ view[Position(leaf, k)] # Unset
      <4>1. LaneHolds(t, lane[t], done[t]) /\ k \in 1 .. done[t]
        BY <1>1, <1>5, <2>1, <2>3 DEF ContentsInv
      <4> QED
        BY <1>g, <4>1 DEF LaneHolds
    <3>2. view'[Position(leaf, k)] = view[Position(leaf, k)]
      BY <1>1, <1>11, <2>1, <2>2, <2>3
    <3>3. scratch'[t][lane[t]][k] = scratch[t][lane[t]][k]
      <4>1. k \notin done[t] + 1 .. done[t] + n
        BY <1>1, <2>3
      <4> QED
        BY <1>9, <2>1, <4>1
    <3> QED
      BY <3>1, <3>2, <3>3
  <2>4. CASE k > done[t]
    <3>1. k \in done[t] + 1 .. done[t] + n
      BY <1>1, <1>2, <2>4
    <3>2. Position(leaf, k) \in 1 .. file_size
      BY <1>1, <1>3, <2>1, <2>2, LeafInFile
    <3>3. Position(leaf, k) \in offset + 1 .. offset + n
      <4>1. k \in Nat /\ Position(leaf, k) = base + k
        BY <1>e, <2>1
      <4>2. \A b, d, m, x \in Nat :
               x \in d + 1 .. d + m => b + x \in (b + d) + 1 .. (b + d) + m
        OBVIOUS
      <4>3. base + k \in (base + done[t]) + 1 .. (base + done[t]) + n
        BY <1>1, <1>2, <3>1, <4>1, <4>2
      <4> QED
        BY <1>c, <4>1, <4>3
    <3>4. view'[Position(leaf, k)] = file[Position(leaf, k)]
      BY <1>8, <3>2, <3>3
    <3>5. file[Position(leaf, k)] # Unset
      BY <1>6, <3>1, ParameterAssumption
    <3> QED
      BY <1>9, <2>1, <3>1, <3>4, <3>5
  <2> QED
    BY <1>1, <2>3, <2>4
\* Every other lane, of this worker and of the others, is untouched.
<1>13. ASSUME NEW u \in Workers, Owns(u), NEW j \in 0 .. lane[u], u # t \/ j # lane[t]
       PROVE  first[u] + j # leaf /\ first[u] + j \in Nat /\ scratch'[u][j] = scratch[u][j]
  <2>1. j \in Nat /\ j <= lane[u] /\ first[u] \in Nat /\ lane[u] \in Nat
    BY <1>4
  <2>2. lane[u] < Lanes /\ lane[t] < Lanes /\ lane[t] \in Nat /\ first[t] \in Nat
    <3>1. lane \in [Workers -> 0 .. Lanes - 1]
      BY DEF IInv, TypeOK
    <3>2. lane[u] \in 0 .. Lanes - 1 /\ lane[t] \in 0 .. Lanes - 1
      BY <3>1
    <3> QED
      BY <1>3, <1>4, <3>2
  <2>3. CASE u = t
    <3>1. j # lane[t]
      BY <1>13, <2>3
    <3>2. scratch'[t][j] = scratch[t][j]
      BY <1>3, <1>7, <3>1 DEF Buffers
    <3> QED
      BY <1>a, <2>1, <2>2, <2>3, <3>1, <3>2
  <2>4. CASE u # t
    <3>1. first[t] + Lanes <= first[u] \/ first[u] + Lanes <= first[t]
      BY <1>5, <1>13, <2>4 DEF IInv, ClaimsInv
    <3>2. scratch'[u] = scratch[u]
      BY <1>7, <2>4
    <3> QED
      <4>1. Lanes \in Nat /\ j < Lanes
        BY <1>3, <2>1, <2>2
      <4>2. first[u] + j # first[t] + lane[t]
        BY <2>1, <2>2, <3>1, <4>1, GroupsApart
      <4> QED
        BY <1>g, <2>1, <3>2, <4>2
  <2> QED
    BY <2>3, <2>4
<1>14. ASSUME NEW u \in Workers, Owns(u), NEW j \in 0 .. lane[u], u # t \/ j # lane[t],
              NEW m, LaneHolds(u, j, m), m \in 0 .. ChunkLength(file_size, first[u] + j)
       PROVE  LaneHolds(u, j, m)'
  <2>1. \A k \in 1 .. m : view'[Position(first[u] + j, k)] = view[Position(first[u] + j, k)]
    <3>1. \A k \in 1 .. m : k \in 1 .. ChunkLength(file_size, first[u] + j)
      <4>1. first[u] + j \in Nat /\ file_size \in Nat
        BY <1>3, <1>13, <1>14
      <4>2. ChunkLength(file_size, first[u] + j) \in 0 .. ChunkBytes
        BY <4>1, ChunkLengthType
      <4> QED
        BY <1>1, <1>14, <4>2
    <3> QED
      BY <1>11, <1>13, <1>14, <3>1
  <2>2. scratch'[u][j] = scratch[u][j]
    BY <1>13, <1>14
  <2> QED
    BY <1>14, <2>1, <2>2 DEF LaneHolds, Position
<1>15. view \in Seq(Bytes \cup {Unset}) /\ Len(view) = file_size
  BY <1>3 DEF ContentsInv
<1>16. view' \in [1 .. file_size -> Bytes \cup {Unset}]
  <2>1. \A q \in 1 .. file_size : q \in offset + 1 .. offset + n => file[q] \in Bytes
    BY <1>6, <1>10
  <2> QED
    BY <1>8, <2>1 DEF ContentsInv
<1>17. Len(view') = file_size
  BY <1>3, <1>16
<1>18. ASSUME NEW i \in 0 .. leaf_count - 1, nodes[i] # Unset, LeafHashed(i)
       PROVE  LeafHashed(i)'
  <2>1. i \in Nat /\ i # leaf
    <3>1. leaf \in Group(t)
      <4>1. lane[t] < GroupSize(t) /\ GroupSize(t) \in 1 .. Lanes
        BY <1>5, GroupInTable DEF IInv, ClaimsInv
      <4>2. first[t] \in Nat /\ lane[t] \in Nat /\ Lanes \in Nat
        BY <1>3, <1>4
      <4> QED
        BY <1>a, <4>1, <4>2 DEF Group
    <3> QED
      BY <1>5, <1>18, <3>1 DEF IInv, ClaimsInv
  <2>2. \A k \in 1 .. ChunkLength(file_size, i) :
           view'[Position(i, k)] = view[Position(i, k)]
    BY <1>11, <2>1
  <2>3. LeafRead(i)'
    BY <1>18, <2>2 DEF LeafHashed, LeafRead, Length, Position
  <2>4. LeafDigest(view', i) = LeafDigest(view, i)
    BY <1>15, <1>17, <2>2 DEF LeafDigest, Position
  <2> QED
    BY <1>18, <2>3, <2>4 DEF LeafHashed
<1>19. ASSUME NEW u \in Workers, Owns(u)'
       PROVE  /\ done'[u] <= LaneLength(u)'
              /\ LaneHolds(u, lane[u], done[u])'
              /\ \A j \in 0 .. lane'[u] - 1 : LaneHolds(u, j, Length(first[u] + j))'
              /\ wpc'[u] = "hash" => lane'[u] + 1 >= GroupSize(u)' /\ done'[u] = LaneLength(u)'
  <2>1. Owns(u) /\ LaneLength(u)' = LaneLength(u) /\ GroupSize(u)' = GroupSize(u)
    BY <1>19 DEF Owns, LaneLength, Length, GroupSize
  <2>2. ASSUME NEW j \in 0 .. lane[u] - 1 PROVE LaneHolds(u, j, Length(first[u] + j))'
    <3>1. LaneHolds(u, j, Length(first[u] + j)) /\ j \in 0 .. lane[u] /\ j # lane[u]
      BY SMTT(30), <1>4, <2>1 DEF ContentsInv
    <3>2. u # t \/ j # lane[t]
      BY <3>1
    <3>3. Length(first[u] + j) \in 0 .. ChunkLength(file_size, first[u] + j)
      <4>1. first[u] + j \in Nat /\ file_size \in Nat
        BY <1>3, <1>4
      <4>2. ChunkLength(file_size, first[u] + j) \in 0 .. ChunkBytes
        BY <4>1, ChunkLengthType
      <4> QED
        BY <1>1, <4>2 DEF Length
    <3>4. LaneHolds(u, j, ChunkLength(file_size, first[u] + j))'
      BY <1>14, <2>1, <3>1, <3>2, <3>3 DEF Length
    <3> QED
      BY <3>4 DEF Length, LaneHolds
  <2>3. CASE u = t
    <3>1. done'[t] = done[t] + n /\ lane'[t] = lane[t] /\ wpc'[t] = "read"
      BY <1>3, <1>4, <2>3 DEF IInv, TypeOK
    <3>2. done'[t] <= LaneLength(t)
      BY <1>1, <1>2, <3>1
    <3>3. LaneHolds(t, lane[t], done[t])'
      BY <1>12, <1>g, <3>1 DEF LaneHolds
    <3> QED
      BY <2>1, <2>2, <2>3, <3>1, <3>2, <3>3 DEF LaneLength, Length, LaneHolds
  <2>4. CASE u # t
    <3>1. done'[u] = done[u] /\ lane'[u] = lane[u] /\ wpc'[u] = wpc[u]
      BY <1>19, <2>4 DEF IInv, TypeOK
    <3>2. /\ done[u] <= LaneLength(u) /\ LaneHolds(u, lane[u], done[u])
          /\ wpc[u] = "hash" => lane[u] + 1 >= GroupSize(u) /\ done[u] = LaneLength(u)
      BY <2>1 DEF ContentsInv
    <3>3. done[u] \in 0 .. ChunkLength(file_size, first[u] + lane[u])
      <4>1. first[u] + lane[u] \in Nat /\ file_size \in Nat /\ done[u] \in Nat
        BY <1>3, <1>4
      <4>2. ChunkLength(file_size, first[u] + lane[u]) \in 0 .. ChunkBytes
        BY <4>1, ChunkLengthType
      <4>3. LaneLength(u) = ChunkLength(file_size, first[u] + lane[u])
        BY DEF LaneLength, Length
      <4> QED
        BY <1>1, <3>2, <4>1, <4>2, <4>3
    <3>4. LaneHolds(u, lane[u], done[u])'
      <4>1. lane[u] \in 0 .. lane[u]
        BY <1>4
      <4>2. PICK j \in 0 .. lane[u], m \in {done[u]} : j = lane[u] /\ m = done[u]
        BY <4>1
      <4>3. LaneHolds(u, j, m)'
        BY <1>14, <2>1, <2>4, <3>2, <3>3, <4>2
      <4> QED
        BY <3>1, <4>2, <4>3 DEF LaneHolds
    <3> QED
      BY <2>1, <2>2, <3>1, <3>2, <3>4
  <2> QED
    BY <2>3, <2>4
<1>20. mpc \in Working /\ mpc' \in Working
  BY <1>5, GroupInTable
<1> QED
  BY <1>16, <1>18, <1>19, <1>20 DEF ContentsInv, Working

-----------------------------------------------------------------------------
(* The other steps of a worker.                                            *)

\* What ContentsInv says of the buffers of a worker that owns a group.
Filled(t) ==
    /\ done[t] <= LaneLength(t)
    /\ LaneHolds(t, lane[t], done[t])
    /\ \A j \in 0 .. lane[t] - 1 : LaneHolds(t, j, Length(first[t] + j))
    /\ wpc[t] = "hash" => lane[t] + 1 >= GroupSize(t) /\ done[t] = LaneLength(t)

\* A worker the step does not concern keeps its buffers right.
LEMMA OtherFilled ==
    ASSUME ContentsInv, NEW u \in Workers, Owns(u)',
           UNCHANGED <<view, file_size, leaf_count>>,
           wpc'[u] = wpc[u], first'[u] = first[u], lane'[u] = lane[u],
           done'[u] = done[u], scratch'[u] = scratch[u]
    PROVE  Filled(u)'
<1>1. /\ Owns(u) /\ LaneLength(u)' = LaneLength(u) /\ GroupSize(u)' = GroupSize(u)
      /\ \A i : Length(i)' = Length(i)
  BY DEF Owns, LaneLength, Length, GroupSize
<1>2. ASSUME NEW j, NEW n PROVE LaneHolds(u, j, n)' <=> LaneHolds(u, j, n)
  BY DEF LaneHolds
<1>3. Filled(u)
  BY <1>1 DEF ContentsInv, Filled
<1>4. done'[u] <= LaneLength(u)' /\ LaneHolds(u, lane[u], done[u])'
  BY <1>1, <1>2, <1>3 DEF Filled, LaneHolds
<1>5. ASSUME NEW j \in 0 .. lane'[u] - 1 PROVE LaneHolds(u, j, Length(first[u] + j))'
  <2>1. LaneHolds(u, j, Length(first[u] + j))
    BY <1>3, <1>5 DEF Filled
  <2> QED
    BY <2>1 DEF LaneHolds, Length
<1> QED
  BY <1>1, <1>3, <1>4, <1>5 DEF Filled

\* A step of worker t that leaves the bytes read and the table alone.
LEMMA OneWorkerContents ==
    ASSUME ContentsInv, NEW t \in Workers, Owns(t)' => Filled(t)',
           UNCHANGED <<view, file_size, leaf_count, nodes, mpc, level>>,
           \A u \in Workers \ {t} :
              /\ wpc'[u] = wpc[u] /\ first'[u] = first[u] /\ lane'[u] = lane[u]
              /\ done'[u] = done[u] /\ scratch'[u] = scratch[u]
    PROVE  ContentsInv'
<1>1. ASSUME NEW u \in Workers, Owns(u)' PROVE Filled(u)'
  BY <1>1, OtherFilled
<1>2. \A i : LeafHashed(i)' <=> LeafHashed(i)
  BY DEF LeafHashed, LeafRead, Length
<1> QED
  BY <1>1, <1>2 DEF ContentsInv, Filled

\* A full group's buffers hold the bytes read for its leaves.
LEMMA GroupRead ==
    ASSUME IInv, ContentsInv, NEW t \in Workers, wpc[t] = "hash", NEW i \in Group(t)
    PROVE  LaneHolds(t, i - first[t], Length(i))
<1>1. Filled(t) /\ lane[t] + 1 >= GroupSize(t) /\ done[t] = LaneLength(t)
  BY DEF ContentsInv, Filled, Owns
<1>2. first[t] \in Nat /\ lane[t] \in Nat /\ GroupSize(t) \in Nat
  BY GroupInTable, ParameterAssumption DEF IInv, TypeOK, Owns
<1>3. i \in Nat /\ i - first[t] \in Nat /\ i - first[t] <= lane[t]
  BY <1>1, <1>2 DEF Group
<1>4. CASE i - first[t] = lane[t]
  <2>1. first[t] + lane[t] = i
    BY <1>2, <1>3, <1>4
  <2> QED
    BY <1>1, <1>4, <2>1 DEF Filled, LaneLength
<1>5. CASE i - first[t] # lane[t]
  <2>1. i - first[t] \in 0 .. lane[t] - 1 /\ first[t] + (i - first[t]) = i
    BY <1>2, <1>3, <1>5
  <2> QED
    BY <1>1, <2>1 DEF Filled
<1> QED
  BY <1>4, <1>5

\* The digest a worker stores for a leaf of its group is that of the bytes read.
LEMMA GroupDigested ==
    ASSUME IInv, ContentsInv, NEW t \in Workers, wpc[t] = "hash", NEW i \in Group(t)
    PROVE  LeafRead(i) /\ GroupDigest(t, i) = LeafDigest(view, i)
<1>1. i \in Nat /\ first[t] \in Nat /\ file_size \in Nat /\ first[t] + (i - first[t]) = i
  BY GroupInTable, ParameterAssumption DEF IInv, TypeOK, Owns, Group
<1>2. \A k \in 1 .. Length(i) : /\ scratch[t][i - first[t]][k] = view[Position(i, k)]
                                /\ view[Position(i, k)] # Unset
  BY <1>1, GroupRead DEF LaneHolds
<1>3. HashedLength(t, i) = Length(i)
  BY DEF HashedLength, Batched
<1>4. Length(i) = ChunkLength(Len(view), i)
  BY <1>1 DEF ContentsInv, Length
<1> QED
  BY <1>2, <1>3, <1>4 DEF LeafRead, GroupDigest, LeafDigest, Position

\* Hashing a group stores the digests of the bytes read for its leaves.
LEMMA HashContents ==
    ASSUME IInv, ContentsInv, NEW t \in Workers, HashGroup(t)
    PROVE  ContentsInv'
<1>1. /\ wpc[t] = "hash" /\ mpc \in Working
      /\ UNCHANGED <<view, file_size, leaf_count, mpc, first, lane, done, scratch>>
  BY GroupInTable DEF HashGroup, Owns, mainVars
<1>2. ASSUME NEW u \in Workers, Owns(u)' PROVE Filled(u)'
  <2>1. u # t /\ wpc'[u] = wpc[u]
    BY <1>2 DEF HashGroup, Owns, IInv, TypeOK
  <2> QED
    BY <1>1, <1>2, <2>1, OtherFilled
<1>3. ASSUME NEW i \in 0 .. leaf_count - 1, nodes'[i] # Unset
      PROVE  LeafHashed(i)'
  <2>1. DOMAIN nodes = 0 .. leaf_count - 1
    BY <1>1, GroupInTable DEF IInv, TypeOK, Owns
  <2>2. CASE i \in Group(t)
    <3>1. nodes'[i] = GroupDigest(t, i)
      BY <2>2 DEF HashGroup
    <3>2. nodes'[i] = LeafDigest(view', i) /\ LeafRead(i)
      BY <1>1, <2>2, <3>1, GroupDigested
    <3> QED
      BY <1>1, <3>2 DEF LeafHashed, LeafRead, Length
  <2>3. CASE i \notin Group(t)
    <3>1. nodes'[i] = nodes[i]
      BY <1>3, <2>1, <2>3 DEF HashGroup
    <3>2. LeafHashed(i)
      BY <1>1, <1>3, <3>1 DEF ContentsInv
    <3> QED
      BY <1>1, <3>1, <3>2 DEF LeafHashed, LeafRead, Length
  <2> QED
    BY <2>2, <2>3
<1> QED
  BY <1>1, <1>2, <1>3 DEF ContentsInv, Filled, Working

\* A worker leaves a lane when its leaf is complete.
LEMMA NextLaneContents ==
    ASSUME IInv, ContentsInv, NEW t \in Workers, NextLane(t)
    PROVE  ContentsInv'
<1>0. /\ lane[t] \in Nat /\ first[t] \in Nat /\ file_size \in Nat
      /\ lane \in [Workers -> 0 .. Lanes - 1] /\ done \in [Workers -> 0 .. ChunkBytes]
      /\ wpc \in [Workers -> WorkerPoints]
  BY ParameterAssumption DEF IInv, TypeOK
<1>1. /\ Owns(t) /\ wpc[t] = "read" /\ done[t] = LaneLength(t)
      /\ UNCHANGED <<view, file_size, leaf_count, mpc, first, scratch, nodes, level>>
  BY DEF NextLane, Owns, mainVars
<1>2. Filled(t)
  BY <1>1 DEF ContentsInv, Filled
<1>3. \A u \in Workers \ {t} : wpc'[u] = wpc[u] /\ lane'[u] = lane[u] /\ done'[u] = done[u]
  BY <1>0 DEF NextLane
<1>4. CASE lane' = [lane EXCEPT ![t] = lane[t] + 1] /\ done' = [done EXCEPT ![t] = 0] /\ wpc' = wpc
  <2>1. lane'[t] = lane[t] + 1 /\ done'[t] = 0 /\ wpc'[t] = "read"
    BY <1>0, <1>1, <1>4
  <2>2. done'[t] <= LaneLength(t)'
    <3>1. ChunkLength(file_size, first[t] + lane'[t]) \in 0 .. ChunkBytes
      <4>1. first[t] + lane'[t] \in Nat
        BY <1>0, <2>1
      <4> QED
        BY <1>0, <4>1, ChunkLengthType
    <3>2. LaneLength(t)' = ChunkLength(file_size, first[t] + lane'[t])
      BY <1>1 DEF LaneLength, Length
    <3> QED
      BY <2>1, <3>1, <3>2, ChunkAssumption
  <2>3. ASSUME NEW j \in 0 .. lane'[t] - 1 PROVE LaneHolds(t, j, Length(first[t] + j))'
    <3>1. LaneHolds(t, j, Length(first[t] + j))
      <4>1. CASE j = lane[t]
        BY <1>1, <1>2, <4>1 DEF Filled, LaneLength
      <4>2. CASE j # lane[t]
        BY <1>0, <1>2, <2>1, <4>2 DEF Filled
      <4> QED
        BY <4>1, <4>2
    <3> QED
      BY <1>1, <3>1 DEF LaneHolds, Length
  <2>4. LaneHolds(t, lane[t], done[t])'
    BY <2>1 DEF LaneHolds
  <2>5. Filled(t)'
    BY <2>1, <2>2, <2>3, <2>4 DEF Filled
  <2> QED
    BY <1>1, <1>3, <2>5, OneWorkerContents
<1>5. CASE /\ lane[t] + 1 >= GroupSize(t) /\ wpc' = [wpc EXCEPT ![t] = "hash"]
           /\ UNCHANGED <<lane, done>>
  <2>1. Filled(t)'
    <3>1. ASSUME NEW j, NEW n PROVE LaneHolds(t, j, n)' <=> LaneHolds(t, j, n)
      BY <1>1 DEF LaneHolds
    <3>2. LaneLength(t)' = LaneLength(t) /\ GroupSize(t)' = GroupSize(t)
      BY <1>1, <1>5 DEF LaneLength, Length, GroupSize
    <3>3. LaneHolds(t, lane[t], done[t])'
      BY <1>1, <1>2, <1>5 DEF Filled, LaneHolds
    <3>4. ASSUME NEW j \in 0 .. lane'[t] - 1 PROVE LaneHolds(t, j, Length(first[t] + j))'
      <4>1. LaneHolds(t, j, Length(first[t] + j))
        BY <1>2, <1>5, <3>4 DEF Filled
      <4> QED
        BY <1>1, <4>1 DEF LaneHolds, Length
    <3> QED
      BY <1>1, <1>2, <1>5, <3>2, <3>3, <3>4 DEF Filled
  <2> QED
    BY <1>1, <1>3, <1>5, <2>1, OneWorkerContents
<1> QED
  BY <1>4, <1>5 DEF NextLane

\* The steps of a worker keep the contents right.
LEMMA WorkerContents ==
    ASSUME IInv, ContentsInv, NEW t \in Workers, Worker(t)
    PROVE  ContentsInv'
<1>0. /\ wpc \in [Workers -> WorkerPoints] /\ DOMAIN scratch = Workers
      /\ first \in [Workers -> Nat] /\ next_group \in Nat /\ file_size \in Nat
      /\ lane \in [Workers -> 0 .. Lanes - 1] /\ done \in [Workers -> 0 .. ChunkBytes]
      /\ mpc' = mpc
  BY DEF IInv, TypeOK, ScratchOK, Worker, WorkerStart, CheckError, Claim, Pread,
         NextLane, HashGroup, WorkerExit, mainVars
<1>1. CASE WorkerStart(t) \/ CheckError(t) \/ WorkerExit(t)
  <2>1. /\ UNCHANGED <<view, file_size, leaf_count, nodes, mpc, level, first, lane, done>>
        /\ ~Owns(t)'
        /\ \A u \in Workers \ {t} : wpc'[u] = wpc[u] /\ scratch'[u] = scratch[u]
    BY <1>0, <1>1 DEF WorkerStart, CheckError, WorkerExit, WorkerFails, Owns, mainVars
  <2> QED
    BY <2>1, OneWorkerContents
<1>2. CASE Claim(t)
  <2>1. /\ UNCHANGED <<view, file_size, leaf_count, nodes, mpc, level, scratch>>
        /\ first'[t] = next_group /\ lane'[t] = 0 /\ done'[t] = 0
        /\ wpc'[t] # "hash"
        /\ \A u \in Workers \ {t} : /\ wpc'[u] = wpc[u] /\ first'[u] = first[u]
                                    /\ lane'[u] = lane[u] /\ done'[u] = done[u]
    BY <1>0, <1>2 DEF Claim, mainVars
  <2>2. done'[t] <= LaneLength(t)'
    <3>1. LaneLength(t)' = ChunkLength(file_size, next_group)
      BY <1>0, <2>1 DEF LaneLength, Length
    <3> QED
      BY <1>0, <2>1, <3>1, ChunkLengthType, ChunkAssumption
  <2>3. Filled(t)'
    BY <2>1, <2>2 DEF Filled, LaneHolds
  <2> QED
    BY <2>1, <2>3, OneWorkerContents
<1>3. CASE Pread(t)
  <2>1. UNCHANGED <<nodes, mpc, file_size, leaf_count, level, first, lane>> /\ wpc[t] = "read"
    BY <1>3 DEF Pread, mainVars
  <2>2. ASSUME UNCHANGED <<scratch, view, done, wpc>> PROVE ContentsInv'
    BY <2>1, <2>2, SameContents DEF Owns, ContentsInv
  <2>3. ASSUME WorkerFails(t, "EIO"), UNCHANGED <<view, done>> PROVE ContentsInv'
    <3>1. /\ ~Owns(t)'
          /\ \A u \in Workers \ {t} : wpc'[u] = wpc[u] /\ scratch'[u] = scratch[u]
      BY <1>0, <2>3 DEF WorkerFails, Owns
    <3> QED
      BY <2>1, <2>3, <3>1, OneWorkerContents
  <2>4. ASSUME NEW n \in 1 .. AtMost(LaneLength(t) - done[t],
                                     Len(file) - ((first[t] + lane[t]) * ChunkBytes + done[t])),
               Store(t, (first[t] + lane[t]) * ChunkBytes + done[t], n),
               done' = [done EXCEPT ![t] = done[t] + n], UNCHANGED wpc
        PROVE  ContentsInv'
    BY <2>1, <2>4, StoreContents
  <2> QED
    BY <1>3, <2>2, <2>3, <2>4 DEF Pread
<1> QED
  BY <1>1, <1>2, <1>3, HashContents, NextLaneContents DEF Worker

-----------------------------------------------------------------------------
\* Every step keeps the contents right.
LEMMA NextContents == IInv /\ ContentsInv /\ [Next]_vars => ContentsInv'
<1> SUFFICES ASSUME IInv, ContentsInv, [Next]_vars PROVE ContentsInv'
  OBVIOUS
<1>1. CASE Edit \/ UNCHANGED vars
  <2>1. UNCHANGED <<view, mainVars, nodes, workerVars>>
    BY <1>1 DEF Edit, vars
  <2>2. /\ UNCHANGED <<view, file_size, leaf_count, nodes, first, lane, done, level>>
        /\ UNCHANGED <<mpc, scratch, wpc>>
    BY <2>1 DEF mainVars, workerVars
  <2> QED
    BY <2>2, SameContents DEF Owns, ContentsInv
<1>2. CASE Main
  BY <1>2, MainContents
<1>3. ASSUME NEW t \in Workers, Worker(t) PROVE ContentsInv'
  BY <1>3, WorkerContents
<1> QED
  BY <1>1, <1>2, <1>3 DEF Next, Returned

\* What the buffers and the table hold is, at every moment, what the preads of
\* tree_worker returned for the leaves concerned.
THEOREM Contents == Spec => []ContentsInv
  BY InitContents, NextContents, Invariance, PTL DEF Spec

LEMMA CompleteLeaves ==
    ASSUME file_size \in Nat, leaf_count = LeafCount(file_size),
           \A i \in 0 .. leaf_count - 1 : LeafHashed(i)
    PROVE  /\ \A k \in 1 .. file_size : view[k] # Unset
           /\ \A i \in 0 .. leaf_count - 1 : nodes[i] = LeafDigest(view, i)
<1>1. ASSUME NEW p \in 1 .. file_size PROVE view[p] # Unset
  <2>1. PICK i \in 0 .. leaf_count - 1 : \E k \in 1 .. ChunkLength(file_size, i) :
           p = Position(i, k)
    BY LeavesCoverFile
  <2> QED
    BY <2>1 DEF LeafHashed, LeafRead, Length
<1> QED
  BY <1>1 DEF LeafHashed

\* When the reduction starts every leaf has been hashed over bytes read from the
\* file, in its own slot, whatever the workers' interleaving and the edits were.
THEOREM LeavesAreComplete == Spec => []LeavesComplete
<1>1. IInv /\ ContentsInv => LeavesComplete
  BY CompleteLeaves DEF LeavesComplete, ContentsInv, IInv, TypeOK
<1> QED
  BY <1>1, Contents, Invariance, PTL

-----------------------------------------------------------------------------
(* The counter and the slots of the table.                                 *)

\* There are MaxThreads workers.
LEMMA WorkersFinite ==
    ASSUME NEW S \in SUBSET Workers
    PROVE  IsFiniteSet(S) /\ Cardinality(S) \in Nat
<1>1. IsFiniteSet(Workers)
  BY ParameterAssumption, FS_Interval DEF Workers
<1> QED
  BY <1>1, FS_Subset, FS_CardinalityType

\* Only workers that were created have left.
LEMMA LeftBounds ==
    ASSUME IInv
    PROVE  Cardinality(Left) \in Nat /\ Cardinality(Left) <= created
<1>1. created \in Nat /\ MaxThreads \in Nat
  BY ParameterAssumption DEF IInv, TypeOK
<1>2. IsFiniteSet(0 .. created - 1) /\ Cardinality(0 .. created - 1) = created
  <2>1. 0 \in Int /\ created - 1 \in Int /\ (0 > created - 1 <=> created = 0)
    BY <1>1
  <2>2. /\ IsFiniteSet(0 .. created - 1)
        /\ Cardinality(0 .. created - 1) = IF 0 > created - 1 THEN 0 ELSE (created - 1) - 0 + 1
    BY <2>1, FS_Interval
  <2> QED
    BY <1>1, <2>1, <2>2
<1>3. Left \in SUBSET (0 .. created - 1)
  <2> SUFFICES ASSUME NEW t \in Workers, wpc[t] \in {"exit", "exited"}
               PROVE  t \in 0 .. created - 1
    BY DEF Left
  <2>1. ~(t >= created) /\ t \in Nat
    BY <1>1 DEF IInv, ThreadsInv, Workers
  <2> QED
    BY <1>1, <2>1
<1> QED
  BY <1>2, <1>3, FS_Subset, FS_CardinalityType

\* A step that moves neither the counter nor the table's size, and after which
\* the workers that had left still have, keeps the bound.
LEMMA KeptOvershoot ==
    ASSUME IInv, OvershootInv, Left \subseteq Left',
           UNCHANGED <<next_group, leaf_count>>
    PROVE  OvershootInv'
<1>1. Left' \in SUBSET Workers /\ Left \in SUBSET Workers
  BY DEF Left
<1>2. /\ IsFiniteSet(Left') /\ Cardinality(Left') \in Nat /\ Cardinality(Left) \in Nat
      /\ Cardinality(Left) <= Cardinality(Left')
  BY <1>1, WorkersFinite, FS_Subset
<1>3. next_group \in Nat /\ leaf_count \in Nat /\ Lanes \in Nat
  BY ParameterAssumption DEF IInv, TypeOK
<1>4. Lanes * (Cardinality(Left) + 1) <= Lanes * (Cardinality(Left') + 1)
  BY <1>2, <1>3
<1>5. /\ Lanes * (Cardinality(Left) + 1) \in Nat
      /\ Lanes * (Cardinality(Left') + 1) \in Nat
  BY <1>2, <1>3
<1> QED
  BY <1>3, <1>4, <1>5 DEF OvershootInv

\* A claim beyond the table adds one group and one worker that has left.
LEMMA ClaimOvershoot ==
    ASSUME IInv, OvershootInv, NEW t \in Workers, Claim(t)
    PROVE  OvershootInv'
<1>0. /\ next_group \in Nat /\ leaf_count \in Nat /\ Lanes \in Nat
      /\ wpc \in [Workers -> WorkerPoints] /\ wpc[t] = "claim"
      /\ next_group' = next_group + Lanes /\ leaf_count' = leaf_count
  BY ParameterAssumption DEF IInv, TypeOK, Claim, mainVars
<1>1. Left' \in SUBSET Workers /\ Left \in SUBSET Workers /\ t \notin Left
  BY <1>0 DEF Left
<1>2. /\ IsFiniteSet(Left) /\ Cardinality(Left) \in Nat /\ Cardinality(Left') \in Nat
  BY <1>1, WorkersFinite
<1>3. CASE next_group < leaf_count
  <2>1. Lanes * (Cardinality(Left') + 1) >= Lanes
    BY <1>0, <1>2
  <2>2. Lanes * (Cardinality(Left') + 1) \in Nat
    BY <1>0, <1>2
  <2> QED
    BY <1>0, <1>3, <2>1, <2>2 DEF OvershootInv
<1>4. CASE next_group >= leaf_count
  <2>1. Left' = Left \cup {t}
    BY <1>0, <1>4 DEF Claim, Left
  <2>2. Cardinality(Left') = Cardinality(Left) + 1
    BY <1>1, <1>2, <2>1, FS_AddElement
  <2>3. Lanes * (Cardinality(Left') + 1) = Lanes * (Cardinality(Left) + 1) + Lanes
    BY <1>0, <1>2, <2>2
  <2>4. Lanes * (Cardinality(Left) + 1) \in Nat
    BY <1>0, <1>2
  <2> QED
    BY <1>0, <2>3, <2>4 DEF OvershootInv
<1> QED
  BY <1>0, <1>3, <1>4

\* The steps of the calling thread keep the bound.
LEMMA MainOvershoot ==
    ASSUME IInv, OvershootInv, Main
    PROVE  OvershootInv'
<1>0. /\ next_group = next_group' /\ wpc \in [Workers -> WorkerPoints]
  BY DEF IInv, TypeOK, Main, Open, Fstat, AllocateLeaves, AllocateThreads, CreateWorker,
         AllCreated, Join, CheckWorkerError, ReduceLevel, FinishRoot, Cleanup
<1>1. CASE Fstat
  <2>1. next_group' = 0 /\ leaf_count' \in Nat
    <3>1. next_group = 0
      BY <1>1 DEF Fstat, IInv, ClaimsInv, Early
    <3>2. leaf_count' \in Nat
      <4>1. Len(file) \in Nat /\ leaf_count \in Nat
        BY ParameterAssumption DEF IInv, TypeOK
      <4>2. LeafCount(Len(file)) \in Nat
        BY <4>1, LeafCountPositive
      <4> QED
        BY <1>1, <4>1, <4>2 DEF Fstat
    <3> QED
      BY <1>0, <3>1, <3>2
  <2>2. Left' \in SUBSET Workers
    BY DEF Left
  <2>3. Cardinality(Left') \in Nat /\ Lanes \in Nat /\ Lanes > 0
    BY <2>2, WorkersFinite, ParameterAssumption
  <2>4. Lanes * (Cardinality(Left') + 1) >= Lanes /\ Lanes * (Cardinality(Left') + 1) \in Nat
    BY <2>3
  <2> QED
    BY <2>1, <2>3, <2>4 DEF OvershootInv
<1>2. CASE ~Fstat
  <2>1. leaf_count' = leaf_count
    BY <1>2 DEF Main, Open, AllocateLeaves, AllocateThreads, CreateWorker,
         AllCreated, Join, CheckWorkerError, ReduceLevel, FinishRoot, Cleanup
  <2>2. Left \subseteq Left'
    <3>1. CASE CreateWorker
      <4>1. ASSUME NEW t \in Workers, wpc[t] \in {"exit", "exited"} PROVE wpc'[t] = wpc[t]
        <5>1. t # created
          BY <4>1, ParameterAssumption DEF IInv, TypeOK, ThreadsInv
        <5> QED
          BY <1>0, <3>1, <5>1 DEF CreateWorker
      <4> QED
        BY <4>1 DEF Left
    <3>2. CASE ~CreateWorker
      <4>1. wpc' = wpc
        BY <3>2, <1>2 DEF Main, Open, AllocateLeaves, AllocateThreads, AllCreated, Join,
           CheckWorkerError, ReduceLevel, FinishRoot, Cleanup, workerVars
      <4> QED
        BY <4>1 DEF Left
    <3> QED
      BY <3>1, <3>2
  <2> QED
    BY <1>0, <2>1, <2>2, KeptOvershoot
<1> QED
  BY <1>1, <1>2

\* The steps of a worker keep the bound.
LEMMA WorkerOvershoot ==
    ASSUME IInv, OvershootInv, NEW t \in Workers, Worker(t), ~Claim(t)
    PROVE  OvershootInv'
<1>0. wpc \in [Workers -> WorkerPoints]
  BY DEF IInv, TypeOK
<1>1. /\ UNCHANGED <<next_group, leaf_count>>
      /\ \A u \in Workers \ {t} : wpc'[u] = wpc[u]
      /\ wpc[t] = "exit" => wpc'[t] = "exited"
      /\ wpc[t] # "exited"
  BY <1>0 DEF Worker, WorkerStart, CheckError, Pread, NextLane, HashGroup, WorkerExit,
     WorkerFails, mainVars
<1>2. Left \subseteq Left'
  BY <1>1 DEF Left
<1> QED
  BY <1>1, <1>2, KeptOvershoot

\* Only a worker on its way out has taken a group beyond the table, so the counter
\* overshoots it by less than one group for each worker and one more.
THEOREM ClaimsAreBounded == Spec => []ClaimsBounded
<1>1. Init => OvershootInv
  <2> SUFFICES ASSUME Init PROVE OvershootInv
    OBVIOUS
  <2>1. Left \in SUBSET Workers /\ next_group = 0 /\ leaf_count = 0
    BY DEF Init, Left
  <2>2. Cardinality(Left) \in Nat /\ Lanes \in Nat /\ Lanes > 0
    BY <2>1, WorkersFinite, ParameterAssumption
  <2>3. Lanes * (Cardinality(Left) + 1) >= Lanes /\ Lanes * (Cardinality(Left) + 1) \in Nat
    BY <2>2
  <2> QED
    BY <2>1, <2>2, <2>3 DEF OvershootInv
<1>2. IInv /\ OvershootInv /\ [Next]_vars => OvershootInv'
  <2> SUFFICES ASSUME IInv, OvershootInv, [Next]_vars PROVE OvershootInv'
    OBVIOUS
  <2>1. CASE Edit \/ UNCHANGED vars
    <3>1. UNCHANGED <<next_group, leaf_count, wpc>>
      BY <2>1 DEF Edit, vars, mainVars, workerVars
    <3> QED
      BY <3>1, KeptOvershoot DEF Left
  <2>2. CASE Main
    BY <2>2, MainOvershoot
  <2>3. ASSUME NEW t \in Workers, Worker(t) PROVE OvershootInv'
    BY <2>3, ClaimOvershoot, WorkerOvershoot
  <2> QED
    BY <2>1, <2>2, <2>3 DEF Next, Returned
<1>3. IInv /\ OvershootInv => ClaimsBounded
  <2> SUFFICES ASSUME IInv, OvershootInv PROVE ClaimsBounded
    OBVIOUS
  <2>1. /\ next_group \in Nat /\ leaf_count \in Nat /\ Lanes \in Nat /\ created \in Nat
        /\ Cardinality(Left) \in Nat /\ Cardinality(Left) <= created
    BY LeftBounds, ParameterAssumption DEF IInv, TypeOK
  <2>2. Lanes * (Cardinality(Left) + 1) <= Lanes * (created + 1)
    BY <2>1
  <2>3. Lanes * (Cardinality(Left) + 1) \in Nat /\ Lanes * (created + 1) \in Nat
    BY <2>1
  <2> QED
    BY <2>1, <2>2, <2>3 DEF OvershootInv, ClaimsBounded
<1> QED
  BY <1>1, <1>2, <1>3, Invariance, PTL DEF Spec

\* While workers may run, no step of anyone changes a digest that is in the table.
THEOREM DigestsAreFinal == Spec => WriteOnce
<1>1. IInv /\ [Next]_vars =>
        [\A i \in DOMAIN nodes : mpc \in {"create", "join"} /\ nodes[i] # Unset
                                   => nodes'[i] = nodes[i]]_vars
  <2> SUFFICES ASSUME IInv, [Next]_vars, mpc \in {"create", "join"},
                      NEW i \in DOMAIN nodes, nodes[i] # Unset
               PROVE  nodes'[i] = nodes[i]
    OBVIOUS
  <2>1. ASSUME NEW t \in Workers, HashGroup(t) PROVE nodes'[i] = nodes[i]
    <3>1. i \notin Group(t)
      BY <2>1 DEF HashGroup, Owns, IInv, ClaimsInv
    <3> QED
      BY <2>1, <3>1 DEF HashGroup
  <2>2. ASSUME NEW t \in Workers, Worker(t), ~HashGroup(t) PROVE nodes'[i] = nodes[i]
    BY <2>2 DEF Worker, WorkerStart, CheckError, Claim, Pread, NextLane, WorkerExit
  <2>3. ASSUME Main PROVE nodes'[i] = nodes[i]
    BY <2>3 DEF Main, Open, Fstat, AllocateLeaves, AllocateThreads, CreateWorker,
       AllCreated, Join, CheckWorkerError, ReduceLevel, FinishRoot, Cleanup
  <2>4. ASSUME Edit \/ UNCHANGED vars PROVE nodes'[i] = nodes[i]
    BY <2>4 DEF Edit, vars
  <2> QED
    BY <2>1, <2>2, <2>3, <2>4 DEF Next, Returned
<1> QED
  BY <1>1, Invariance, PTL DEF Spec, WriteOnce

-----------------------------------------------------------------------------
(* The reference tree.                                                     *)

\* Level l + 1 has the parents of level l.
LEMMA LevelWidths ==
    ASSUME NEW n \in Nat \ {0}, NEW l \in Nat
    PROVE  /\ LevelWidth(n, l) \in Nat \ {0} /\ LevelWidth(n, l) <= n
           /\ LevelWidth(n, 0) = n
           /\ LevelWidth(n, l + 1) = ParentCount(LevelWidth(n, l))
<1>1. PICK d \in Nat \ {0} : d = 2 ^ l
  BY PowerPositive
<1>2. 2 ^ (l + 1) = 2 * d
  BY <1>1, PowerStep
<1>3. PICK w \in Nat, r \in 0 .. d - 1 : w = (n + d - 1) \div d /\ w * d + r = n + d - 1
  <2>1. n + d - 1 \in Nat
    OBVIOUS
  <2> QED
    BY ONLY <2>1, d \in Nat \ {0}, DivMod
<1>4. LevelWidth(n, l) = w
  BY <1>1, <1>3 DEF LevelWidth
<1>5. w # 0 /\ w <= n
  <2>1. ASSUME w = 0 PROVE FALSE
    <3>1. w * d = 0
      BY <2>1
    <3> QED
      BY <1>3, <3>1
  <2>2. ASSUME n < w PROVE FALSE
    <3>1. n * d + d <= w * d /\ n * d \in Nat /\ w * d \in Nat
      BY <2>2, LessTimes
    <3>2. n <= n * d
      OBVIOUS
    <3> QED
      BY <1>3, <3>1, <3>2
  <2> QED
    BY <2>1, <2>2
<1>6. PICK q \in Nat, s \in 0 .. 1 : q = (w + 1) \div 2 /\ q * 2 + s = w + 1
  BY DivMod
<1>7. (n + 2 * d - 1) \div (2 * d) = q
  <2>1. PICK D \in Nat \ {0} : D = 2 * d
    OBVIOUS
  <2>2. PICK x \in Nat : x = s * d /\ x \in {0, d}
    BY <1>6
  <2>3. PICK z \in 0 .. D - 1 : z = x + r
    BY <1>3, <2>1, <2>2
  <2>4. q * D = (q * 2) * d /\ (w + 1) * d = w * d + d /\ (q * 2 + s) * d = (q * 2) * d + s * d
    BY <2>1
  <2>5. q * D \in Nat /\ w * d \in Nat /\ (q * 2) * d \in Nat
    OBVIOUS
  <2>6. q * D + z = n + 2 * d - 1
    <3>1. PICK a \in Nat, b \in Nat : a = q * D /\ a = (q * 2) * d /\ b = w * d
      BY <2>4, <2>5
    <3>2. (w + 1) * d = (q * 2 + s) * d
      BY <1>6
    <3>3. b + d = a + x
      BY <2>2, <2>4, <3>1, <3>2
    <3>4. b + r = n + d - 1
      BY <1>3, <3>1
    <3> QED
      BY <2>3, <3>1, <3>3, <3>4
  <2>7. (q * D + z) \div D = q
    BY DivModUnique
  <2> QED
    BY <2>1, <2>6, <2>7
<1>8. LevelWidth(n, l + 1) = q
  BY <1>2, <1>7 DEF LevelWidth
<1>9. LevelWidth(n, 0) = n
  BY PowerZero DEF LevelWidth
<1> QED
  BY <1>3, <1>4, <1>5, <1>6, <1>8, <1>9 DEF ParentCount

\* There is one first level with a single node.
LEMMA TreeHeights ==
    ASSUME NEW n \in Nat \ {0}
    PROVE  /\ TreeHeight(n) \in 0 .. n /\ LevelWidth(n, TreeHeight(n)) = 1
           /\ \A m \in Nat :
                 LevelWidth(n, m) = 1 /\ (\A l \in 0 .. m - 1 : LevelWidth(n, l) > 1)
                    => m = TreeHeight(n)
<1> DEFINE First(m) == LevelWidth(n, m) = 1 /\ \A l \in 0 .. m - 1 : LevelWidth(n, l) > 1
           T == {l \in Nat : LevelWidth(n, l) = 1}
<1>1. n \in T
  <2>1. PICK d \in Nat \ {0} : d = 2 ^ n /\ n < d
    BY PowerPositive
  <2>2. n + d - 1 = 1 * d + (n - 1) /\ n - 1 \in 0 .. d - 1
    BY <2>1
  <2>3. (1 * d + (n - 1)) \div d = 1
    BY <2>2, DivModUnique
  <2> QED
    BY <2>1, <2>2, <2>3 DEF LevelWidth
<1>2. PICK h \in T : \A l \in T : h <= l
  BY <1>1, Smallest
<1>3. h \in 0 .. n /\ First(h)
  <2>1. ASSUME NEW l \in 0 .. h - 1 PROVE LevelWidth(n, l) > 1
    <3>1. l \in Nat /\ h \in Nat /\ ~(h <= l)
      BY <1>2
    <3>2. l \notin T
      BY <1>2, <3>1
    <3>3. LevelWidth(n, l) \in Nat \ {0}
      BY <3>1, LevelWidths
    <3> QED
      BY <3>1, <3>2, <3>3
  <2> QED
    BY <1>1, <1>2, <2>1
<1>4. TreeHeight(n) \in 0 .. n /\ First(TreeHeight(n))
  BY <1>3 DEF TreeHeight
<1>5. ASSUME NEW a \in Nat, NEW b \in Nat, First(a), First(b) PROVE a = b
  <2>1. ~(a < b) /\ ~(b < a)
    BY <1>5
  <2> QED
    BY <2>1
<1> QED
  BY <1>4, <1>5

\* What TreeDigest's recursion puts at a place of the tree, from the nodes below.
NodeBody(v, f, p) ==
    IF p[1] = 0 THEN LeafDigest(v, p[2])
    ELSE IF 2 * p[2] + 1 < LevelWidth(LeafCount(Len(v)), p[1] - 1)
         THEN Hash(ParentMessage(p[1] - 1, 2, f[<<p[1] - 1, 2 * p[2]>>],
                                              f[<<p[1] - 1, 2 * p[2] + 1>>]))
         ELSE Hash(ParentMessage(p[1] - 1, 1, f[<<p[1] - 1, 2 * p[2]>>], ZeroDigest))

\* The children of a node are places of the level below.
LEMMA ChildPlaces ==
    ASSUME NEW n \in Nat \ {0}, NEW p \in NodePlaces(n), p[1] # 0
    PROVE  /\ p[1] - 1 \in Nat
           /\ <<p[1] - 1, 2 * p[2]>> \in NodePlaces(n)
           /\ 2 * p[2] + 1 < LevelWidth(n, p[1] - 1) =>
                 <<p[1] - 1, 2 * p[2] + 1>> \in NodePlaces(n)
<1>1. PICK h \in Nat : h = TreeHeight(n)
  BY TreeHeights
<1>2. PICK l \in 1 .. h, a \in 0 .. n - 1 : p = <<l, a>> /\ a < LevelWidth(n, l)
  BY <1>1 DEF NodePlaces
<1>3. PICK w \in Nat : w = LevelWidth(n, l - 1) /\ w <= n
  BY LevelWidths
<1>4. LevelWidth(n, l) = (w + 1) \div 2
  <2>1. l - 1 \in Nat /\ (l - 1) + 1 = l
    OBVIOUS
  <2>2. LevelWidth(n, (l - 1) + 1) = ParentCount(LevelWidth(n, l - 1))
    BY ONLY <2>1, n \in Nat \ {0}, LevelWidths, Zenon
  <2> QED
    BY <1>3, <2>1, <2>2 DEF ParentCount
<1>5. 2 * a < w /\ 2 * a \in 0 .. n - 1
  BY <1>2, <1>3, <1>4
<1>6. <<l - 1, 2 * a>> \in NodePlaces(n)
  BY <1>1, <1>3, <1>5 DEF NodePlaces
<1>7. ASSUME 2 * a + 1 < w PROVE <<l - 1, 2 * a + 1>> \in NodePlaces(n)
  BY <1>1, <1>3, <1>7 DEF NodePlaces
<1> QED
  BY <1>2, <1>3, <1>6, <1>7

\* The recursion is well founded: there is a function that it describes, level by level.
LEMMA NodesExist ==
    ASSUME NEW v, Len(v) \in Nat, NEW n, n = LeafCount(Len(v))
    PROVE  \E f : f = [p \in NodePlaces(n) |-> NodeBody(v, f, p)]
<1> DEFINE Upto(l) == {p \in NodePlaces(n) : p[1] <= l}
           Fits(l) == \E f : f = [p \in Upto(l) |-> NodeBody(v, f, p)]
           T == {l \in Nat : ~Fits(l)}
<1>1. n \in Nat \ {0}
  BY LeafCountPositive
<1>2. \A p \in NodePlaces(n) : p[1] \in Nat /\ p[1] <= n /\ p[2] \in Nat
  BY <1>1, TreeHeights DEF NodePlaces
<1>3. ASSUME NEW m \in Nat, NEW f, f = [p \in Upto(m) |-> NodeBody(v, f, p)]
      PROVE  Fits(m + 1)
  <2> DEFINE g == [p \in Upto(m + 1) |-> NodeBody(v, f, p)]
  <2>1. ASSUME NEW p \in Upto(m + 1) PROVE g[p] = NodeBody(v, g, p)
    <3>1. p \in NodePlaces(n) /\ p[1] \in Nat /\ p[1] <= m + 1
      BY <1>2
    <3>2. ASSUME NEW q \in Upto(m) PROVE g[q] = f[q]
      <4>1. q \in Upto(m + 1) /\ f[q] = NodeBody(v, f, q)
        BY <1>2, <1>3
      <4> QED
        BY <4>1
    <3>3. CASE p[1] = 0
      BY <3>3 DEF NodeBody
    <3>4. CASE p[1] # 0
      <4>1. /\ <<p[1] - 1, 2 * p[2]>> \in Upto(m)
            /\ 2 * p[2] + 1 < LevelWidth(n, p[1] - 1) => <<p[1] - 1, 2 * p[2] + 1>> \in Upto(m)
        <5>1. /\ p[1] - 1 \in Nat /\ <<p[1] - 1, 2 * p[2]>> \in NodePlaces(n)
              /\ 2 * p[2] + 1 < LevelWidth(n, p[1] - 1) =>
                    <<p[1] - 1, 2 * p[2] + 1>> \in NodePlaces(n)
          BY <1>1, <3>1, <3>4, ChildPlaces
        <5>2. p[1] - 1 <= m
          BY <3>1
        <5> QED
          BY <5>1, <5>2
      <4>2. g[<<p[1] - 1, 2 * p[2]>>] = f[<<p[1] - 1, 2 * p[2]>>]
        BY <3>2, <4>1
      <4>3. 2 * p[2] + 1 < LevelWidth(n, p[1] - 1) =>
               g[<<p[1] - 1, 2 * p[2] + 1>>] = f[<<p[1] - 1, 2 * p[2] + 1>>]
        BY <3>2, <4>1
      <4>4. g[p] = NodeBody(v, f, p)
        OBVIOUS
      <4> HIDE DEF g, Upto
      <4> QED
        BY <3>4, <4>2, <4>3, <4>4 DEF NodeBody
    <3> QED
      BY <3>1, <3>3, <3>4
  <2> HIDE DEF Upto
  <2>2. g = [p \in Upto(m + 1) |-> NodeBody(v, g, p)]
    BY <2>1
  <2> HIDE DEF g
  <2> QED
    BY <2>2
<1>4. Fits(0)
  <2> DEFINE g == [p \in Upto(0) |-> LeafDigest(v, p[2])]
  <2>1. \A p \in Upto(0) : p[1] = 0
    BY <1>2
  <2> HIDE DEF Upto
  <2>2. \A p \in Upto(0) : g[p] = NodeBody(v, g, p)
    BY <2>1 DEF NodeBody
  <2>3. g = [p \in Upto(0) |-> NodeBody(v, g, p)]
    BY <2>2
  <2> HIDE DEF g
  <2> QED
    BY <2>3
<1>5. ASSUME NEW m \in Nat, Fits(m) PROVE Fits(m + 1)
  <2> HIDE DEF Upto
  <2>1. PICK f : f = [p \in Upto(m) |-> NodeBody(v, f, p)]
    BY <1>5
  <2> QED
    BY <1>3, <2>1
<1> HIDE DEF Fits
<1>6. ASSUME T # {} PROVE FALSE
  <2>1. PICK m \in T : \A l \in T : m <= l
    BY <1>6, Smallest
  <2>2. m \in Nat /\ ~Fits(m)
    BY <2>1
  <2>3. m # 0
    BY <1>4, <2>2
  <2>4. m - 1 \in Nat /\ ~(m <= m - 1) /\ (m - 1) + 1 = m
    BY <2>2, <2>3
  <2>5. Fits(m - 1)
    BY <2>1, <2>4
  <2>6. Fits((m - 1) + 1)
    BY ONLY <1>5, <2>4, <2>5
  <2> QED
    BY <2>2, <2>4, <2>6
<1>7. n \in T \/ Fits(n)
  BY <1>1
<1>8. Fits(n)
  BY <1>6, <1>7
<1>9. Upto(n) = NodePlaces(n)
  BY <1>2
<1> QED
  BY <1>8, <1>9 DEF Fits

LEMMA NodesFollow ==
    ASSUME NEW v, Len(v) \in Nat, NEW p \in NodePlaces(LeafCount(Len(v)))
    PROVE  TreeNodes(v)[p] = NodeBody(v, TreeNodes(v), p)
<1>1. PICK n : n = LeafCount(Len(v))
  OBVIOUS
<1>2. TreeNodes(v) = CHOOSE f : f = [q \in NodePlaces(n) |-> NodeBody(v, f, q)]
  BY <1>1 DEF TreeNodes, NodeBody
<1>3. \E f : f = [q \in NodePlaces(n) |-> NodeBody(v, f, q)]
  BY <1>1, NodesExist
<1>4. TreeNodes(v) = [q \in NodePlaces(n) |-> NodeBody(v, TreeNodes(v), q)]
  BY <1>2, <1>3, Zenon
<1> QED
  BY <1>1, <1>4

-----------------------------------------------------------------------------
(* What the call answers.                                                  *)

LEMMA InitAnswer == Init => AnswerInv
<1> SUFFICES ASSUME Init PROVE AnswerInv
  OBVIOUS
<1>1. file \in Seq(Bytes) /\ seen = {file}
  BY ParameterAssumption DEF Init
<1> QED
  BY <1>1 DEF Init, AnswerInv

\* Most steps touch neither the bytes read nor the answer.
LEMMA KeptAnswer ==
    ASSUME AnswerInv, UNCHANGED <<file, seen, view, file_size, leaf_count, answer, result>>,
           mpc' \notin {"cleanup", "done"} => mpc \notin {"cleanup", "done"},
           mpc' = "reduce" => Reduced'
    PROVE  AnswerInv'
BY DEF AnswerInv

LEMMA LeavesReduced ==
    ASSUME IInv, ContentsInv, CheckWorkerError, mpc' = "reduce"
    PROVE  Reduced'
<1>1. /\ mpc = "join" /\ root_count' = leaf_count
      /\ UNCHANGED <<view, file_size, leaf_count, threads, nodes, level>>
  BY DEF CheckWorkerError
<1>2. level = 0 /\ threads > 0 /\ leaf_count \in Nat \ {0} /\ file_size \in Nat
  BY <1>1 DEF IInv, CoverageInv, ThreadsInv, ResourcesInv, Working, TypeOK
<1>3. /\ leaf_count = LeafCount(file_size)
      /\ \A k \in 1 .. file_size : view[k] # Unset
      /\ \A a \in 0 .. leaf_count - 1 : nodes[a] = LeafDigest(view, a)
  <2>1. joined >= created /\ error_code = OK
    BY DEF CheckWorkerError
  <2>2. leaf_count = LeafCount(file_size) /\ \A a \in 0 .. leaf_count - 1 : LeafHashed(a)
    BY <1>1, <1>2, <2>1, JoinedCoversAll DEF ContentsInv, Working
  <2> QED
    BY <1>2, <2>2, CompleteLeaves
<1>4. Len(view) = file_size
  BY <1>2 DEF ContentsInv
<1>5. LevelWidth(leaf_count, 0) = leaf_count
  BY <1>2, LevelWidths
<1>6. ASSUME NEW a \in 0 .. leaf_count - 1 PROVE nodes[a] = TreeNodes(view)[<<0, a>>]
  <2>1. <<0, a>> \in NodePlaces(leaf_count)
    BY <1>2, <1>5, TreeHeights DEF NodePlaces
  <2>2. TreeNodes(view)[<<0, a>>] = NodeBody(view, TreeNodes(view), <<0, a>>)
    BY <1>2, <1>3, <1>4, <2>1, NodesFollow
  <2> QED
    BY <1>3, <2>2 DEF NodeBody
<1>7. TreeNodes(view)' = TreeNodes(view)
  BY <1>1 DEF TreeNodes
<1> QED
  BY <1>1, <1>2, <1>3, <1>5, <1>6, <1>7 DEF Reduced

LEMMA LevelReduced ==
    ASSUME IInv, ContentsInv, AnswerInv, ReduceLevel, mpc' = "reduce"
    PROVE  Reduced'
<1>1. /\ mpc = "reduce" /\ root_count > 1 /\ nodes' = Parents(level, root_count, nodes)
      /\ root_count' = ParentCount(root_count) /\ level' = level + 1
      /\ UNCHANGED <<view, file_size, leaf_count, threads>>
  BY DEF ReduceLevel
<1>2. Reduced /\ level \in Nat /\ root_count \in Nat /\ leaf_count \in Nat \ {0}
  BY <1>1 DEF AnswerInv, Reduced, IInv, TypeOK
<1>3. leaf_count = LeafCount(Len(view)) /\ Len(view) \in Nat
  <2>1. file_size \in Nat
    BY DEF IInv, TypeOK
  <2> QED
    BY <1>2, <2>1 DEF ContentsInv
<1>4. PICK h \in Nat : h = TreeHeight(leaf_count) /\ LevelWidth(leaf_count, h) = 1
  BY <1>2, TreeHeights
<1>5. \A l \in 0 .. level : LevelWidth(leaf_count, l) > 1
  BY <1>1, <1>2 DEF Reduced
<1>6. level + 1 <= h
  BY <1>2, <1>4, <1>5
<1>7. LevelWidth(leaf_count, level + 1) = ParentCount(root_count)
      /\ ParentCount(root_count) \in Nat /\ ParentCount(root_count) <= leaf_count
  <2>1. LevelWidth(leaf_count, level + 1) = ParentCount(LevelWidth(leaf_count, level))
    BY ONLY <1>2, LevelWidths, Zenon
  <2>2. level + 1 \in Nat
    BY <1>2
  <2>3. LevelWidth(leaf_count, level + 1) \in Nat /\ LevelWidth(leaf_count, level + 1) <= leaf_count
    BY ONLY <1>2, <2>2, LevelWidths
  <2> QED
    BY <1>2, <2>1, <2>3 DEF Reduced
<1>8. ASSUME NEW a \in 0 .. ParentCount(root_count) - 1
      PROVE  nodes'[a] = TreeNodes(view)[<<level + 1, a>>]
  <2>1. <<level + 1, a>> \in NodePlaces(leaf_count)
    BY <1>2, <1>4, <1>6, <1>7 DEF NodePlaces
  <2>2. TreeNodes(view)[<<level + 1, a>>] = NodeBody(view, TreeNodes(view), <<level + 1, a>>)
    BY <1>3, <2>1, NodesFollow
  <2>3. (level + 1) # 0 /\ (level + 1) - 1 = level
    BY <1>2
  <2>4. 2 * a \in 0 .. root_count - 1
    BY <1>1, <1>2 DEF ParentCount
  <2>5. nodes[2 * a] = TreeNodes(view)[<<level, 2 * a>>]
    BY <1>2, <2>4 DEF Reduced
  <2>6. 2 * a + 1 < root_count => nodes[2 * a + 1] = TreeNodes(view)[<<level, 2 * a + 1>>]
    BY <1>2 DEF Reduced
  <2>7. nodes'[a] = IF 2 * a + 1 < root_count
                    THEN Hash(ParentMessage(level, 2, nodes[2 * a], nodes[2 * a + 1]))
                    ELSE Hash(ParentMessage(level, 1, nodes[2 * a], ZeroDigest))
    BY <1>1 DEF Parents
  <2>8. LevelWidth(LeafCount(Len(view)), level) = root_count
    BY <1>2, <1>3 DEF Reduced
  <2>9. NodeBody(view, TreeNodes(view), <<level + 1, a>>)
          = IF 2 * a + 1 < root_count
            THEN Hash(ParentMessage(level, 2, TreeNodes(view)[<<level, 2 * a>>],
                                              TreeNodes(view)[<<level, 2 * a + 1>>]))
            ELSE Hash(ParentMessage(level, 1, TreeNodes(view)[<<level, 2 * a>>], ZeroDigest))
    BY <2>3, <2>8 DEF NodeBody
  <2> QED
    BY <2>2, <2>5, <2>6, <2>7, <2>9
<1>9. TreeNodes(view)' = TreeNodes(view)
  BY <1>1 DEF TreeNodes
<1>10. level' - 1 = level
  BY <1>1, <1>2
<1> QED
  BY <1>1, <1>2, <1>5, <1>7, <1>8, <1>9, <1>10 DEF Reduced

LEMMA NoAnswerYet ==
    ASSUME NEW d, NEW size, NEW leaves, NEW levels, NEW n
    PROVE  [out |-> d, file_size |-> size, leaf_count |-> leaves, levels |-> levels,
            threads |-> n] # NoAnswer
<1>1. DOMAIN NoAnswer = {}
  BY DEF NoAnswer
<1>2. "out" \in DOMAIN [out |-> d, file_size |-> size, leaf_count |-> leaves,
                        levels |-> levels, threads |-> n]
  OBVIOUS
<1> QED
  BY <1>1, <1>2

LEMMA MainAnswer == ASSUME IInv, ContentsInv, AnswerInv, Main PROVE AnswerInv'
<1>1. CASE Fstat
  <2>1. UNCHANGED <<file, seen, answer, result>> /\ mpc = "fstat" /\ mpc' \in {"malloc", "cleanup"}
    BY <1>1 DEF Fstat, envVars
  <2>2. CASE UNCHANGED <<file_size, leaf_count, view>>
    BY <2>1, <2>2, KeptAnswer
  <2>3. CASE /\ file_size' = Len(file) /\ leaf_count' = LeafCount(Len(file))
             /\ view' = [k \in 1 .. Len(file) |-> Unset]
    <3>1. \A k \in 1 .. file_size' : view'[k] = Unset
      BY <2>3
    <3> QED
      BY <2>1, <2>3, <3>1 DEF AnswerInv
  <2> QED
    BY <1>1, <2>2, <2>3 DEF Fstat
<1>2. CASE CheckWorkerError
  <2>1. /\ UNCHANGED <<file, seen, view, file_size, leaf_count, answer, result>>
        /\ mpc = "join" /\ mpc' \in {"reduce", "cleanup"}
    BY <1>2 DEF CheckWorkerError, envVars
  <2> QED
    BY <1>2, <2>1, LeavesReduced, KeptAnswer
<1>3. CASE ReduceLevel
  <2>1. /\ UNCHANGED <<file, seen, view, file_size, leaf_count, answer, result>>
        /\ mpc = "reduce" /\ mpc' \in {"reduce", "cleanup"}
    BY <1>3 DEF ReduceLevel, envVars
  <2> QED
    BY <1>3, <2>1, LevelReduced, KeptAnswer
<1>4. CASE FinishRoot
  <2>1. UNCHANGED <<file, seen, view, file_size, leaf_count>> /\ mpc' = "cleanup" /\ result' = 0
    BY <1>4 DEF FinishRoot, envVars
  <2>2. answer' # NoAnswer
    BY <1>4, NoAnswerYet DEF FinishRoot, Answer
  <2> QED
    BY <2>1, <2>2 DEF AnswerInv, NoAnswer
<1>5. CASE Open \/ AllocateLeaves \/ AllocateThreads \/ CreateWorker \/ AllCreated \/ Join \/ Cleanup
  <2>1. /\ UNCHANGED <<file, seen, view, file_size, leaf_count, answer, result>>
        /\ mpc' # "reduce" /\ (mpc \in {"cleanup", "done"} => mpc' = "done")
    BY <1>5 DEF Open, AllocateLeaves, AllocateThreads, CreateWorker, AllCreated, Join, Cleanup,
                envVars
  <2> QED
    BY <2>1, KeptAnswer
<1> QED
  BY <1>1, <1>2, <1>3, <1>4, <1>5 DEF Main

\* A pread returns what the file holds at the moment.
LEMMA WorkerAnswer ==
    ASSUME IInv, AnswerInv, NEW t \in Workers, Worker(t)
    PROVE  AnswerInv'
<1>1. mpc # "reduce" /\ mpc' = mpc
  BY WorkerRuns DEF Working, Worker, WorkerStart, CheckError, Claim, Pread, NextLane, HashGroup,
     WorkerExit, mainVars
<1>2. UNCHANGED <<file, seen, file_size, leaf_count, answer, result>>
  BY DEF Worker, WorkerStart, CheckError, Claim, Pread, NextLane, HashGroup, WorkerExit,
         mainVars, envVars
<1>3. CASE view' = view
  BY <1>1, <1>2, <1>3, KeptAnswer
<1>4. CASE Pread(t)
  <2> DEFINE offset == (first[t] + lane[t]) * ChunkBytes + done[t]
  <2>1. CASE \E n \in 1 .. AtMost(LaneLength(t) - done[t], Len(file) - offset) : Store(t, offset, n)
    <3>1. PICK n \in 1 .. AtMost(LaneLength(t) - done[t], Len(file) - offset) : Store(t, offset, n)
      BY <2>1
    <3>2. offset \in Nat /\ LaneLength(t) - done[t] \in Int /\ Len(file) \in Nat
      <4>1. /\ first[t] \in Nat /\ lane[t] \in Nat /\ done[t] \in Nat
            /\ file \in Seq(Bytes) /\ file_size \in Nat /\ ChunkBytes \in Nat
        BY ChunkAssumption, ParameterAssumption DEF IInv, TypeOK
      <4>2. first[t] + lane[t] \in Nat
        BY <4>1
      <4>3. (first[t] + lane[t]) * ChunkBytes \in Nat
        BY <4>1, <4>2
      <4>4. LaneLength(t) \in 0 .. ChunkBytes
        BY <4>1, <4>2, ChunkLengthType DEF LaneLength, Length
      <4>5. LaneLength(t) - done[t] \in Int /\ Len(file) \in Nat
        BY <4>1, <4>4
      <4>6. PICK x \in Nat : x = (first[t] + lane[t]) * ChunkBytes
        BY <4>3
      <4> QED
        BY <4>1, <4>5, <4>6
    <3>3. PICK o \in Nat : o = offset /\ n <= Len(file) - o
      BY <3>1, <3>2 DEF AtMost
    <3>4. view' = [k \in 1 .. file_size |-> IF k \in o + 1 .. o + n THEN file[k] ELSE view[k]]
      BY <3>1, <3>3 DEF Store
    <3>5. ASSUME NEW k \in 1 .. file_size, view'[k] # Unset
          PROVE  \E c \in seen : k <= Len(c) /\ c[k] = view'[k]
      <4>1. CASE k \in o + 1 .. o + n
        BY <3>2, <3>3, <3>4, <4>1 DEF AnswerInv
      <4>2. CASE k \notin o + 1 .. o + n
        BY <3>4, <3>5, <4>2 DEF AnswerInv
      <4> QED
        BY <4>1, <4>2
    <3> QED
      BY <1>1, <1>2, <3>5 DEF AnswerInv
  <2> QED
    BY <1>3, <1>4, <2>1 DEF Pread
<1> QED
  BY <1>3, <1>4
  DEF Worker, WorkerStart, CheckError, Claim, NextLane, HashGroup, WorkerExit

LEMMA NextAnswer == IInv /\ IInv' /\ ContentsInv /\ AnswerInv /\ [Next]_vars => AnswerInv'
<1> SUFFICES ASSUME IInv, IInv', ContentsInv, AnswerInv, [Next]_vars PROVE AnswerInv'
  OBVIOUS
<1>1. CASE Edit \/ UNCHANGED vars
  <2>1. /\ UNCHANGED <<view, mpc, file_size, leaf_count, threads, root_count, level, nodes>>
        /\ UNCHANGED <<answer, result>>
        /\ seen' = seen \cup {file'} \/ (seen' = seen /\ file' = file)
    BY <1>1 DEF Edit, vars, mainVars, envVars
  <2>2. file' \in Seq(Bytes)
    BY DEF IInv, TypeOK
  <2>3. Reduced' <=> Reduced
    BY <2>1 DEF Reduced, TreeNodes
  <2>4. seen \subseteq seen' /\ file' \in seen' /\ seen' \subseteq Seq(Bytes)
    BY <2>1, <2>2 DEF AnswerInv
  <2> QED
    BY <2>1, <2>3, <2>4 DEF AnswerInv
<1>2. CASE Main
  BY <1>2, MainAnswer
<1>3. ASSUME NEW t \in Workers, Worker(t) PROVE AnswerInv'
  BY <1>3, WorkerAnswer
<1> QED
  BY <1>1, <1>2, <1>3 DEF Next, Returned

LEMMA AlwaysAnswer == Spec => []AnswerInv
  BY InitAnswer, NextAnswer, Invariance, Contents, PTL DEF Spec

-----------------------------------------------------------------------------
(* The refinement.                                                         *)

\* The instance's reference tree is the one proved about above.
LEMMA SameTree ==
    ASSUME NEW v
    PROVE  /\ Call!TreeDigest(v) = TreeDigest(v)
           /\ Call!LeafCount(Len(v)) = LeafCount(Len(v))
           /\ Call!TreeHeight(LeafCount(Len(v))) = TreeHeight(LeafCount(Len(v)))
<1>1. \A n : Call!LeafCount(n) = LeafCount(n)
  BY DEF Call!LeafCount, LeafCount
<1>2. \A n, l : Call!LevelWidth(n, l) = LevelWidth(n, l)
  BY DEF Call!LevelWidth, LevelWidth
<1>3. \A n : Call!TreeHeight(n) = TreeHeight(n)
  BY DEF Call!TreeHeight, TreeHeight, Call!LevelWidth, LevelWidth
<1>4. Call!TreeNodes(v) = TreeNodes(v)
  BY DEF Call!TreeNodes, TreeNodes, Call!NodePlaces, NodePlaces, Call!LeafDigest, LeafDigest,
         Call!ChunkLength, ChunkLength, Call!LeafMessage, LeafMessage,
         Call!ParentMessage, ParentMessage, Call!LeafCount, LeafCount,
         Call!TreeHeight, TreeHeight, Call!LevelWidth, LevelWidth
<1>5. \A a, b, c, d : Call!RootMessage(a, b, c, d) = RootMessage(a, b, c, d)
  BY DEF Call!RootMessage, RootMessage
<1>6. Call!TreeDigest(v) = TreeDigest(v)
  BY <1>1, <1>3, <1>4, <1>5 DEF Call!TreeDigest, TreeDigest
<1> QED
  BY <1>1, <1>3, <1>6

LEMMA InitCall == Init => Call!CallInit
<1> SUFFICES ASSUME Init PROVE Call!CallInit
  OBVIOUS
<1>1. file \in Seq(Bytes)
  BY ParameterAssumption DEF Init
<1> QED
  BY <1>1 DEF Init, Call!CallInit, Call!InCall, Call!NoAnswer, NoAnswer

\* Nothing the caller or the other processes can see.
LEMMA Stutters ==
    ASSUME UNCHANGED <<file, seen, answer, result>>, mpc # "done", mpc' # "done",
           view' = view \/ answer = NoAnswer
    PROVE  UNCHANGED Call!callVars
BY DEF Call!callVars

LEMMA Returns ==
    ASSUME AnswerInv, UNCHANGED <<file, seen, view, answer, result>>,
           mpc # "done", mpc' = "done"
    PROVE  Call!Return
BY DEF Call!Return, Call!InCall, Call!NoAnswer, NoAnswer, AnswerInv

\* The root: one node is left, so the level reached is the height of the tree and
\* the node is its top.
LEMMA RootDigest ==
    ASSUME IInv, ContentsInv, AnswerInv, mpc = "reduce", root_count <= 1
    PROVE  /\ Len(view) = file_size /\ leaf_count = LeafCount(Len(view))
           /\ level = TreeHeight(leaf_count)
           /\ Hash(RootMessage(file_size, leaf_count, level, nodes[0])) = TreeDigest(view)
<1>1. /\ Reduced /\ level \in Nat /\ file_size \in Nat /\ leaf_count \in Nat \ {0}
      /\ root_count = 1
  BY DEF AnswerInv, Reduced, IInv, TypeOK, ResourcesInv
<1>2. Len(view) = file_size /\ leaf_count = LeafCount(Len(view))
  BY <1>1 DEF ContentsInv
<1>3. LevelWidth(leaf_count, level) = 1 /\ \A l \in 0 .. level - 1 : LevelWidth(leaf_count, l) > 1
  BY <1>1 DEF Reduced
<1>4. level = TreeHeight(leaf_count)
  BY <1>1, <1>3, TreeHeights
<1>5. nodes[0] = TreeNodes(view)[<<level, 0>>]
  BY <1>1 DEF Reduced
<1> QED
  BY <1>2, <1>4, <1>5 DEF TreeDigest

LEMMA Publishes ==
    ASSUME IInv, ContentsInv, AnswerInv, FinishRoot
    PROVE  Call!Publish
<1>1. /\ mpc = "reduce" /\ root_count <= 1 /\ mpc' = "cleanup"
      /\ answer' = Answer(Hash(RootMessage(file_size, leaf_count, level, nodes[0])))
      /\ UNCHANGED <<file, seen, view, file_size>>
  BY DEF FinishRoot, envVars
<1>2. /\ Len(view) = file_size /\ leaf_count = LeafCount(Len(view))
      /\ level = TreeHeight(leaf_count)
      /\ Hash(RootMessage(file_size, leaf_count, level, nodes[0])) = TreeDigest(view)
  BY <1>1, RootDigest
<1>3. /\ answer = NoAnswer /\ Reduced /\ leaf_count > 0
      /\ \A k \in 1 .. file_size : view[k] # Unset
  BY <1>1 DEF AnswerInv, Reduced
<1>4. threads \in 1 .. MaxThreads
  BY <1>3, ParameterAssumption DEF Reduced, IInv, TypeOK
<1>5. answer' # NoAnswer
  BY <1>1, NoAnswerYet DEF Answer
<1>6. Call!IsView(view, seen)
  BY <1>2, <1>3 DEF AnswerInv, Call!IsView
<1>7. answer' = Call!Answer(Call!TreeDigest(view), Len(view), Call!LeafCount(Len(view)),
                            Call!TreeHeight(Call!LeafCount(Len(view))), threads)
  BY <1>1, <1>2, SameTree DEF Answer, Call!Answer
<1> QED
  BY <1>1, <1>3, <1>4, <1>5, <1>6, <1>7 DEF Call!Publish, Call!InCall, Call!NoAnswer, NoAnswer

LEMMA MainCall ==
    ASSUME IInv, ContentsInv, AnswerInv, Main
    PROVE  Call!CallNext \/ UNCHANGED Call!callVars
<1>1. CASE FinishRoot
  BY <1>1, Publishes DEF Call!CallNext
<1>2. CASE Cleanup
  <2>1. UNCHANGED <<file, seen, view, answer, result>> /\ mpc = "cleanup" /\ mpc' = "done"
    BY <1>2 DEF Cleanup, envVars
  <2> QED
    BY <2>1, Returns DEF Call!CallNext
<1>3. CASE Open
  <2>1. UNCHANGED <<file, seen, view, answer, result>> /\ mpc = "open" /\ mpc' \in {"fstat", "done"}
    BY <1>3 DEF Open, envVars
  <2> QED
    BY <2>1, Returns, Stutters DEF Call!CallNext
<1>4. CASE Fstat
  <2>1. UNCHANGED <<file, seen, answer, result>> /\ mpc = "fstat" /\ mpc' \in {"malloc", "cleanup"}
    BY <1>4 DEF Fstat, envVars
  <2>2. answer = NoAnswer
    BY <2>1 DEF AnswerInv
  <2> QED
    BY <2>1, <2>2, Stutters
<1>5. CASE AllocateLeaves \/ AllocateThreads \/ CreateWorker \/ AllCreated \/ Join
           \/ CheckWorkerError \/ ReduceLevel
  <2>1. /\ UNCHANGED <<file, seen, view, answer, result>>
        /\ mpc \notin {"done"} /\ mpc' \notin {"done"}
    BY <1>5 DEF AllocateLeaves, AllocateThreads, CreateWorker, AllCreated, Join,
                CheckWorkerError, ReduceLevel, envVars
  <2> QED
    BY <2>1, Stutters
<1> QED
  BY <1>1, <1>2, <1>3, <1>4, <1>5 DEF Main

LEMMA WorkerCall ==
    ASSUME IInv, AnswerInv, NEW t \in Workers, Worker(t)
    PROVE  UNCHANGED Call!callVars
<1>1. mpc \in Working
  BY WorkerRuns
<1>2. UNCHANGED <<file, seen, answer, result, mpc>>
  BY DEF Worker, WorkerStart, CheckError, Claim, Pread, NextLane, HashGroup, WorkerExit,
         mainVars, envVars
<1>3. answer = NoAnswer /\ mpc # "done"
  BY <1>1 DEF AnswerInv, Working
<1> QED
  BY <1>2, <1>3, Stutters

LEMMA NextCall ==
    IInv /\ IInv' /\ ContentsInv /\ AnswerInv /\ [Next]_vars => [Call!CallNext]_(Call!callVars)
<1> SUFFICES ASSUME IInv, IInv', ContentsInv, AnswerInv, [Next]_vars
             PROVE  Call!CallNext \/ UNCHANGED Call!callVars
  OBVIOUS
<1>1. CASE Edit
  <2>1. seen' = seen \cup {file'} /\ UNCHANGED <<view, mpc, answer, result>>
    BY <1>1 DEF Edit, mainVars
  <2>2. file' \in Seq(Bytes)
    BY DEF IInv, TypeOK
  <2> QED
    BY <2>1, <2>2 DEF Call!CallNext, Call!EditFile
<1>2. CASE UNCHANGED vars
  BY <1>2 DEF vars, envVars, mainVars, Call!callVars
<1>3. CASE Main
  BY <1>3, MainCall
<1>4. ASSUME NEW t \in Workers, Worker(t) PROVE UNCHANGED Call!callVars
  BY <1>4, WorkerCall
<1> QED
  BY <1>1, <1>2, <1>3, <1>4 DEF Next, Returned

\* Whatever the threads, the system and the other processes do, the call publishes
\* at most once the tree digest of one view of the file and returns 0, or publishes
\* nothing and returns -1.
THEOREM ImplementsItsCall == Spec => ImplementsCall
  BY InitCall, NextCall, Invariance, Contents, AlwaysAnswer, PTL
  DEF Spec, ImplementsCall, Call!CallSpec
-----------------------------------------------------------------------------
(* What the promise of TreeCall gives a caller.                            *)

\* What was published is the tree digest of a view of the file, with its size.
Published ==
    answer # NoAnswer =>
        /\ Call!IsView(view, seen)
        /\ answer.out = TreeDigest(view) /\ answer.file_size = Len(view)

\* No other content was ever seen if there were no edits.
Unedited == edits = 0 => seen = {file}

LEMMA CallPublished ==
    ASSUME Published, Call!CallNext \/ UNCHANGED Call!callVars
    PROVE  Published'
<1>1. CASE Call!EditFile
  <2>1. seen \subseteq seen' /\ answer' = answer /\ (answer # NoAnswer => view' = view)
    BY <1>1 DEF Call!EditFile
  <2> QED
    BY <2>1 DEF Published, Call!IsView
<1>2. CASE Call!Publish
  <2>1. answer = NoAnswer /\ seen' = seen
    BY <1>2 DEF Call!Publish, Call!NoAnswer, NoAnswer
  <2>2. SUFFICES ASSUME answer' # NoAnswer PROVE Published'
    BY DEF Published
  <2>3. Call!IsView(view', seen)
    BY <1>2, <2>2 DEF Call!Publish, NoAnswer
  <2>4. PICK t : answer' = Call!Answer(Call!TreeDigest(view'), Len(view'),
                    Call!LeafCount(Len(view')), Call!TreeHeight(Call!LeafCount(Len(view'))), t)
    BY <1>2, <2>2 DEF Call!Publish, NoAnswer
  <2>5. answer'.out = TreeDigest(view') /\ answer'.file_size = Len(view')
    BY <2>4, SameTree DEF Call!Answer
  <2> QED
    BY <2>1, <2>3, <2>5 DEF Published, Call!IsView
<1>3. CASE Call!Return \/ UNCHANGED Call!callVars
  <2>1. answer' = answer /\ seen' = seen /\ (answer # NoAnswer => view' = view)
    BY <1>3 DEF Call!Return, Call!callVars
  <2> QED
    BY <2>1 DEF Published, Call!IsView
<1> QED
  BY <1>1, <1>2, <1>3 DEF Call!CallNext

LEMMA AlwaysPublished == Spec => []Published
<1>1. Call!CallInit => Published
  BY DEF Call!CallInit, Call!NoAnswer, Published, NoAnswer
<1>2. Published /\ [Call!CallNext]_(Call!callVars) => Published'
  BY CallPublished
<1> QED
  BY <1>1, <1>2, ImplementsItsCall, PTL DEF ImplementsCall, Call!CallSpec

LEMMA AlwaysUnedited == Spec => []Unedited
<1>1. Init => Unedited
  BY DEF Init, Unedited
<1>2. IInv /\ Unedited /\ [Next]_vars => Unedited'
  <2> SUFFICES ASSUME IInv, Unedited, [Next]_vars PROVE Unedited'
    OBVIOUS
  <2>1. CASE Edit
    <3>1. edits \in Nat /\ edits' = edits + 1
      BY <2>1 DEF Edit, IInv, TypeOK
    <3>2. edits' # 0
      BY <3>1
    <3> QED
      BY <3>2 DEF Unedited
  <2>2. CASE Main \/ (\E t \in Workers : Worker(t)) \/ Returned \/ UNCHANGED vars
    <3>1. UNCHANGED envVars
      BY <2>2 DEF vars, Returned, Main, Open, Fstat, AllocateLeaves, AllocateThreads, CreateWorker,
           AllCreated, Join, CheckWorkerError, ReduceLevel, FinishRoot, Cleanup, Worker,
           WorkerStart, CheckError, Claim, Pread, NextLane, HashGroup, WorkerExit
    <3> QED
      BY <3>1 DEF Unedited, envVars
  <2> QED
    BY <2>1, <2>2 DEF Next
<1> QED
  BY <1>1, <1>2, Invariance, PTL DEF Spec

\* When nobody edits the file, a call that returns 0 has stored the digest of the file and
\* its size (frogbard_tree.c:337-357), whatever its threads did.
UneditedFile ==
    edits = 0 /\ mpc = "done" /\ result = 0 =>
        answer.out = TreeDigest(file) /\ answer.file_size = Len(file)

THEOREM UneditedFileIsHashed == Spec => []UneditedFile
<1>1. TypeOK /\ AnswerInv /\ Published /\ Unedited /\ ContentsInv => UneditedFile
  <2> SUFFICES ASSUME TypeOK, AnswerInv, Published, Unedited, ContentsInv,
                      edits = 0, mpc = "done", result = 0
               PROVE  answer.out = TreeDigest(file) /\ answer.file_size = Len(file)
    BY DEF UneditedFile
  <2>1. answer # NoAnswer /\ seen = {file}
    BY DEF AnswerInv, Unedited
  <2>2. Len(view) = Len(file) /\ \A k \in 1 .. Len(view) : view[k] = file[k]
    BY <2>1 DEF Published, Call!IsView
  <2>3. view = file
    <3>1. file \in Seq(Bytes) /\ view \in [1 .. file_size -> Bytes \cup {Unset}] /\ file_size \in Nat
      BY DEF TypeOK, ContentsInv
    <3>2. Len(view) = file_size /\ view = [k \in 1 .. file_size |-> view[k]]
      BY <3>1
    <3>3. file = [k \in 1 .. Len(file) |-> file[k]]
      BY <3>1
    <3> QED
      BY <2>2, <3>2, <3>3
  <2> QED
    BY <2>1, <2>3 DEF Published
<1> QED
  BY <1>1, TypeCorrect, AlwaysAnswer, AlwaysPublished, AlwaysUnedited, Contents, PTL

-----------------------------------------------------------------------------
(* What the digest says about the file.                                    *)

\* The message hashed for the node at a place of the tree over v, and for the root.
NodeMessage(v, p) ==
    LET below(i) == TreeNodes(v)[<<p[1] - 1, i>>]
        length   == ChunkLength(Len(v), p[2])
    IN  IF p[1] = 0
        THEN LeafMessage(p[2], length, [k \in 1 .. length |-> v[p[2] * ChunkBytes + k]])
        ELSE IF 2 * p[2] + 1 < LevelWidth(LeafCount(Len(v)), p[1] - 1)
             THEN ParentMessage(p[1] - 1, 2, below(2 * p[2]), below(2 * p[2] + 1))
             ELSE ParentMessage(p[1] - 1, 1, below(2 * p[2]), ZeroDigest)

TopMessage(v) ==
    LET n == LeafCount(Len(v))
        h == TreeHeight(n)
    IN  RootMessage(Len(v), n, h, TreeNodes(v)[<<h, 0>>])

\* All that is hashed for v.
Hashed(v) == {NodeMessage(v, p) : p \in NodePlaces(LeafCount(Len(v)))} \cup {TopMessage(v)}

\* Among what is hashed for v and for w there are two messages with one digest.
Collision(v, w) == \E x \in Hashed(v), y \in Hashed(w) : x # y /\ Hash(x) = Hash(y)

LEMMA NodesHashed ==
    ASSUME NEW v, Len(v) \in Nat, NEW p \in NodePlaces(LeafCount(Len(v)))
    PROVE  TreeNodes(v)[p] = Hash(NodeMessage(v, p)) /\ NodeMessage(v, p) \in Hashed(v)
<1>1. TreeNodes(v)[p] = NodeBody(v, TreeNodes(v), p)
  BY NodesFollow
<1>2. NodeBody(v, TreeNodes(v), p) = Hash(NodeMessage(v, p))
  BY DEF NodeBody, NodeMessage, LeafDigest
<1> QED
  BY <1>1, <1>2 DEF Hashed

\* Every node but the top has a parent, which hashes it on its left or on its right.
LEMMA ParentPlace ==
    ASSUME NEW n \in Nat \ {0}, NEW l \in Nat, l + 1 <= TreeHeight(n),
           NEW a \in Nat, <<l, a>> \in NodePlaces(n)
    PROVE  \E p \in Nat :
              /\ <<l + 1, p>> \in NodePlaces(n)
              /\ a = 2 * p \/ (a = 2 * p + 1 /\ 2 * p + 1 < LevelWidth(n, l))
<1>1. PICK h \in Nat : h = TreeHeight(n)
  BY TreeHeights
<1>2. PICK w \in Nat : w = LevelWidth(n, l) /\ w <= n
  BY LevelWidths
<1>3. a < w /\ a \in 0 .. n - 1
  BY <1>2 DEF NodePlaces
<1>4. LevelWidth(n, l + 1) = (w + 1) \div 2
  BY <1>2, LevelWidths DEF ParentCount
<1>5. PICK p \in Nat : a = 2 * p \/ a = 2 * p + 1
  <2>1. a \div 2 \in Nat /\ (a = 2 * (a \div 2) \/ a = 2 * (a \div 2) + 1)
    OBVIOUS
  <2> QED
    BY <2>1
<1>6. p < (w + 1) \div 2 /\ p \in 0 .. n - 1
  BY <1>2, <1>3, <1>5
<1>7. <<l + 1, p>> \in NodePlaces(n)
  BY <1>1, <1>4, <1>6 DEF NodePlaces
<1> QED
  BY <1>2, <1>3, <1>5, <1>7

\* Two files with one tree digest are one file, or the hash collides on two of the
\* messages that are hashed for them: the size, the counts, the levels and the domains
\* in the messages (frogbard_tree.c:63-70, 159-168, 338-347) leave no other way, whatever
\* the sizes of the two files and for any hash.
THEOREM DigestTellsFiles ==
    ASSUME NEW f \in Seq(Bytes), NEW g \in Seq(Bytes), TreeDigest(f) = TreeDigest(g)
    PROVE  f = g \/ Collision(f, g)
<1> SUFFICES ASSUME ~Collision(f, g) PROVE f = g
  OBVIOUS
<1>0. Len(f) \in Nat /\ Len(g) \in Nat
  OBVIOUS
<1>1. TopMessage(f) = TopMessage(g)
  <2>1. TreeDigest(f) = Hash(TopMessage(f)) /\ TreeDigest(g) = Hash(TopMessage(g))
    BY DEF TreeDigest, TopMessage
  <2> QED
    BY <2>1 DEF Collision, Hashed
<1>2. PICK n \in Nat \ {0} : n = LeafCount(Len(f)) /\ n = LeafCount(Len(g)) /\ Len(f) = Len(g)
  <2>1. Len(f) = Len(g)
    BY <1>1 DEF TopMessage, RootMessage
  <2> QED
    BY <1>0, <2>1, LeafCountPositive
<1>3. PICK h \in Nat : h = TreeHeight(n) /\ LevelWidth(n, h) = 1
  BY TreeHeights
<1>4. TreeNodes(f)[<<h, 0>>] = TreeNodes(g)[<<h, 0>>]
  BY <1>1, <1>2, <1>3 DEF TopMessage, RootMessage
<1>5. \A p \in NodePlaces(n) :
         TreeNodes(f)[p] = TreeNodes(g)[p] => NodeMessage(f, p) = NodeMessage(g, p)
  BY <1>0, <1>2, NodesHashed DEF Collision
<1> DEFINE Same(l) == \A p \in NodePlaces(n) : p[1] = l => TreeNodes(f)[p] = TreeNodes(g)[p]
           T == {k \in Nat : k <= h /\ ~Same(h - k)}
<1>6. Same(h)
  <2>1. ASSUME NEW p \in NodePlaces(n), p[1] = h PROVE p = <<h, 0>>
    BY <1>3, <2>1 DEF NodePlaces
  <2> QED
    BY <1>4, <2>1
<1>7. ASSUME NEW l \in Nat, l + 1 <= h, Same(l + 1) PROVE Same(l)
  <2> SUFFICES ASSUME NEW a \in Nat, <<l, a>> \in NodePlaces(n)
               PROVE  TreeNodes(f)[<<l, a>>] = TreeNodes(g)[<<l, a>>]
    BY DEF NodePlaces
  <2>1. PICK p \in Nat : /\ <<l + 1, p>> \in NodePlaces(n)
                         /\ a = 2 * p \/ (a = 2 * p + 1 /\ 2 * p + 1 < LevelWidth(n, l))
    BY <1>3, <1>7, ParentPlace
  <2>2. NodeMessage(f, <<l + 1, p>>) = NodeMessage(g, <<l + 1, p>>)
    BY <1>5, <1>7, <2>1
  <2>3. (l + 1) - 1 = l /\ l + 1 # 0
    OBVIOUS
  <2>4. CASE 2 * p + 1 < LevelWidth(n, l)
    BY <1>2, <2>1, <2>2, <2>3, <2>4 DEF NodeMessage, ParentMessage
  <2>5. CASE ~(2 * p + 1 < LevelWidth(n, l))
    BY <1>2, <2>1, <2>2, <2>3, <2>5 DEF NodeMessage, ParentMessage
  <2> QED
    BY <2>4, <2>5
<1> HIDE DEF Same
<1>8. Same(0)
  <2>1. ASSUME T # {} PROVE FALSE
    <3>1. PICK k \in T : \A m \in T : k <= m
      BY <2>1, Smallest
    <3>2. k \in Nat /\ k <= h /\ ~Same(h - k)
      BY <3>1
    <3>3. k # 0
      BY <1>6, <3>2
    <3>4. PICK l \in Nat : l = h - k /\ l + 1 <= h /\ l + 1 = h - (k - 1) /\ k - 1 \in Nat
      BY <3>2, <3>3
    <3>5. k - 1 \notin T
      BY <3>1, <3>2, <3>4
    <3>6. Same(l + 1)
      BY <3>2, <3>4, <3>5
    <3> QED
      BY <1>7, <3>2, <3>4, <3>6
  <2>2. h \notin T
    BY <2>1
  <2>3. h - h = 0 /\ h <= h
    OBVIOUS
  <2>4. Same(h - h)
    BY <2>2, <2>3
  <2> QED
    BY <2>3, <2>4
<1>9. ASSUME NEW q \in 1 .. Len(f) PROVE f[q] = g[q]
  <2>1. PICK i \in 0 .. n - 1 : \E k \in 1 .. ChunkLength(Len(f), i) : q = Position(i, k)
    BY <1>0, <1>2, LeavesCoverFile
  <2> PICK k \in 1 .. ChunkLength(Len(f), i) : q = Position(i, k)
    BY <2>1
  <2>2. <<0, i>> \in NodePlaces(n)
    <3>1. LevelWidth(n, 0) = n /\ 0 \in 0 .. TreeHeight(n)
      BY <1>3, LevelWidths
    <3> QED
      BY <3>1 DEF NodePlaces
  <2>3. NodeMessage(f, <<0, i>>) = NodeMessage(g, <<0, i>>)
    BY <1>5, <1>8, <2>2 DEF Same
  <2>4. PICK c : c = ChunkLength(Len(f), i)
    OBVIOUS
  <2>5. [x \in 1 .. c |-> f[i * ChunkBytes + x]] = [x \in 1 .. c |-> g[i * ChunkBytes + x]]
    BY <1>2, <2>3, <2>4 DEF NodeMessage, LeafMessage
  <2>6. f[i * ChunkBytes + k] = g[i * ChunkBytes + k]
    BY <2>1, <2>4, <2>5
  <2> QED
    BY <2>1, <2>6 DEF Position
<1> QED
  BY <1>2, <1>9

-----------------------------------------------------------------------------
(* The work that is left.                                                  *)

\* Two numbers, and four, in lexicographic order.
LEMMA PairBelow ==
    ASSUME NEW a \in Nat, NEW b \in Nat, NEW c \in Nat, NEW d \in Nat,
           c < a \/ (c = a /\ d < b)
    PROVE  Below(<<c, d>>, <<a, b>>)
<1>1. \A k \in 1 .. 2 : k = 1 \/ k = 2
  OBVIOUS
<1>2. CASE c < a
  <2>1. \A j \in 1 .. 1 - 1 : <<c, d>>[j] = <<a, b>>[j]
    OBVIOUS
  <2> QED
    BY <1>1, <1>2, <2>1 DEF Below
<1>3. CASE c = a /\ d < b
  <2>1. \A j \in 1 .. 2 - 1 : <<c, d>>[j] = <<a, b>>[j]
    BY <1>3
  <2> QED
    BY <1>1, <1>3, <2>1 DEF Below
<1> QED
  BY <1>2, <1>3

LEMMA WorkBelow ==
    ASSUME NEW a \in Nat, NEW b \in Nat, NEW c \in Nat, NEW d \in Nat,
           NEW p \in Nat, NEW q \in Nat, NEW r \in Nat, NEW s \in Nat,
           \/ p < a
           \/ p = a /\ q < b
           \/ p = a /\ q = b /\ r < c
           \/ p = a /\ q = b /\ r = c /\ s < d
    PROVE  Below(<<p, q, r, s>>, <<a, b, c, d>>)
<1> DEFINE old == <<a, b, c, d>>
           new == <<p, q, r, s>>
<1>0. /\ DOMAIN old = 1 .. 4
      /\ old[1] = a /\ old[2] = b /\ old[3] = c /\ old[4] = d
      /\ new[1] = p /\ new[2] = q /\ new[3] = r /\ new[4] = s
  OBVIOUS
<1> HIDE DEF old, new
<1>1. \A k \in DOMAIN old : old[k] \in Nat /\ new[k] \in Nat
  <2>1. \A k \in 1 .. 4 : k = 1 \/ k = 2 \/ k = 3 \/ k = 4
    OBVIOUS
  <2> QED
    BY <1>0, <2>1
<1>2. \E k \in DOMAIN old : new[k] < old[k] /\ \A j \in 1 .. k - 1 : new[j] = old[j]
  <2>1. CASE p < a
    <3>1. \A j \in 1 .. 1 - 1 : new[j] = old[j]
      OBVIOUS
    <3> QED
      BY <1>0, <2>1, <3>1
  <2>2. CASE p = a /\ q < b
    <3>1. \A j \in 1 .. 2 - 1 : new[j] = old[j]
      BY <1>0, <2>2
    <3> QED
      BY <1>0, <2>2, <3>1
  <2>3. CASE p = a /\ q = b /\ r < c
    <3>1. \A j \in 1 .. 3 - 1 : j = 1 \/ j = 2
      OBVIOUS
    <3> QED
      BY <1>0, <2>3, <3>1
  <2>4. CASE p = a /\ q = b /\ r = c /\ s < d
    <3>1. \A j \in 1 .. 4 - 1 : j = 1 \/ j = 2 \/ j = 3
      OBVIOUS
    <3> QED
      BY <1>0, <2>4, <3>1
  <2> QED
    BY <2>1, <2>2, <2>3, <2>4
<1> QED
  BY <1>1, <1>2 DEF Below, old, new

\* The work is counted in natural numbers.
LEMMA MainWorkType == IInv => Stages[mpc] \in Nat /\ Tasks \in Nat
<1> SUFFICES ASSUME IInv PROVE Stages[mpc] \in Nat /\ Tasks \in Nat
  OBVIOUS
<1>0. /\ threads \in Nat /\ created \in Nat /\ joined \in Nat /\ root_count \in Nat
      /\ mpc \in MainPoints
  BY ParameterAssumption DEF IInv, TypeOK
<1>1. Stages[mpc] \in Nat
  BY <1>0 DEF Stages, MainPoints
<1>2. joined <= created /\ (mpc = "create" => created <= threads)
  BY DEF IInv, ThreadsInv, Working
<1> QED
  BY <1>0, <1>1, <1>2 DEF Tasks

\* The parts of a worker's work are natural numbers.
Counted(t) == /\ Ahead(t) \in Nat /\ Phases[wpc[t]] \in Nat
              /\ Lanes - lane[t] \in Nat /\ ChunkBytes - done[t] \in Nat

AllCounted == \A t \in Workers : Counted(t)

LEMMA WorkerWorkType == IInv => AllCounted
<1> SUFFICES ASSUME IInv, NEW t \in Workers PROVE Counted(t)
  BY DEF AllCounted
<1>0. /\ lane[t] \in 0 .. Lanes - 1 /\ done[t] \in 0 .. ChunkBytes /\ first[t] \in Nat
      /\ next_group \in Nat /\ leaf_count \in Nat /\ wpc[t] \in WorkerPoints
  BY ParameterAssumption DEF IInv, TypeOK
<1>1. Phases[wpc[t]] \in Nat
  BY <1>0 DEF Phases, WorkerPoints
<1>2. Lanes - lane[t] \in Nat /\ ChunkBytes - done[t] \in Nat
  BY <1>0, ParameterAssumption, ChunkAssumption
<1>3. Owns(t) => first[t] < leaf_count
  BY DEF IInv, ClaimsInv
<1>4. Ahead(t) \in Nat
  BY <1>0, <1>3 DEF Ahead
<1> QED
  BY <1>1, <1>2, <1>4 DEF Counted

\* Every step of the calling thread brings it to a later stage, or has one worker less to
\* create or to join, or a smaller level.
LEMMA MainShrinks ==
    ASSUME IInv, IInv', Main
    PROVE  Below(MainWork', MainWork)
<1>0. /\ Stages[mpc] \in Nat /\ Tasks \in Nat
      /\ Stages[mpc'] \in Nat /\ Tasks' \in Nat
  <2>1. Stages[mpc] \in Nat /\ Tasks \in Nat
    BY MainWorkType
  <2>2. (Stages[mpc] \in Nat /\ Tasks \in Nat)'
    BY MainWorkType, PTL
  <2> QED
    BY <2>1, <2>2 DEF Stages
<1>1. SUFFICES \/ Stages[mpc'] < Stages[mpc]
               \/ mpc' = mpc /\ Tasks' < Tasks
  BY <1>0, PairBelow DEF MainWork, Stages
<1>2. CASE Open \/ Fstat \/ AllocateLeaves \/ AllocateThreads \/ AllCreated
           \/ CheckWorkerError \/ FinishRoot \/ Cleanup
  <2>1. \/ mpc = "open" /\ mpc' \in {"fstat", "done"}
        \/ mpc = "fstat" /\ mpc' \in {"malloc", "cleanup"}
        \/ mpc = "malloc" /\ mpc' \in {"calloc", "cleanup"}
        \/ mpc = "calloc" /\ mpc' \in {"create", "cleanup"}
        \/ mpc = "create" /\ mpc' = "join"
        \/ mpc = "join" /\ mpc' \in {"reduce", "cleanup"}
        \/ mpc = "reduce" /\ mpc' = "cleanup"
        \/ mpc = "cleanup" /\ mpc' = "done"
    BY <1>2 DEF Open, Fstat, AllocateLeaves, AllocateThreads, AllCreated,
                CheckWorkerError, FinishRoot, Cleanup
  <2> QED
    BY <2>1 DEF Stages
<1>3. CASE CreateWorker
  <2>1. CASE mpc' = "join"
    BY <1>3, <2>1 DEF CreateWorker, Stages
  <2>2. CASE mpc' = mpc /\ created' = created + 1
    <3>1. created \in Nat /\ threads \in Nat
      BY ParameterAssumption DEF IInv, TypeOK
    <3> QED
      BY <1>3, <2>2, <3>1 DEF CreateWorker, Tasks
  <2> QED
    BY <1>3, <2>1, <2>2 DEF CreateWorker
<1>4. CASE Join
  <2>1. created \in Nat /\ joined \in Nat
    BY ParameterAssumption DEF IInv, TypeOK
  <2> QED
    BY <1>4, <2>1 DEF Join, Tasks
<1>5. CASE ReduceLevel
  <2>1. CASE mpc' = "cleanup"
    BY <1>5, <2>1 DEF ReduceLevel, Stages
  <2>2. CASE mpc' = mpc /\ root_count' = ParentCount(root_count)
    <3>1. root_count \in Nat /\ root_count > 1 /\ mpc = "reduce"
      BY <1>5 DEF ReduceLevel, IInv, TypeOK
    <3>2. ParentCount(root_count) < root_count
      BY <3>1, ParentCountBounds
    <3> QED
      BY <2>2, <3>1, <3>2 DEF Tasks
  <2> QED
    BY <1>5, <2>1, <2>2 DEF ReduceLevel
<1> QED
  BY <1>2, <1>3, <1>4, <1>5 DEF Main

\* A step of a worker diminishes its work, unless it is a pread to be tried again.
LEMMA WorkerShrinks ==
    ASSUME IInv, IInv', NEW t \in Workers, Worker(t)
    PROVE  \/ Below(WorkerWork(t)', WorkerWork(t))
           \/ UNCHANGED vars
<1>0. /\ Ahead(t) \in Nat /\ Phases[wpc[t]] \in Nat
      /\ Lanes - lane[t] \in Nat /\ ChunkBytes - done[t] \in Nat
  BY WorkerWorkType DEF AllCounted, Counted
<1>a. /\ Ahead(t)' \in Nat /\ Phases[wpc'[t]] \in Nat
      /\ Lanes - lane'[t] \in Nat /\ ChunkBytes - done'[t] \in Nat
  <2>1. AllCounted'
    BY WorkerWorkType, PTL
  <2>2. Counted(t)'
    BY <2>1 DEF AllCounted
  <2> QED
    BY <2>2 DEF Counted, Phases
<1>b. SUFFICES \/ Ahead(t)' < Ahead(t)
               \/ Ahead(t)' = Ahead(t) /\ Phases[wpc'[t]] < Phases[wpc[t]]
               \/ /\ Ahead(t)' = Ahead(t) /\ wpc'[t] = wpc[t]
                  /\ \/ Lanes - lane'[t] < Lanes - lane[t]
                     \/ lane'[t] = lane[t] /\ ChunkBytes - done'[t] < ChunkBytes - done[t]
               \/ UNCHANGED vars
  BY <1>0, <1>a, WorkBelow DEF WorkerWork, Phases
<1>c. /\ wpc \in [Workers -> WorkerPoints] /\ lane \in [Workers -> 0 .. Lanes - 1]
      /\ first \in [Workers -> Nat] /\ next_group \in Nat /\ leaf_count \in Nat
      /\ done \in [Workers -> 0 .. ChunkBytes]
      /\ Lanes \in Nat /\ Lanes > 0 /\ ChunkBytes \in Nat
  <2>1. TypeOK
    BY DEF IInv
  <2> QED
    BY <2>1, ParameterAssumption, ChunkAssumption DEF TypeOK
<1>1. CASE WorkerStart(t)
  <2>1. wpc[t] = "start" /\ UNCHANGED <<next_group, leaf_count>>
    BY <1>1 DEF WorkerStart, mainVars
  <2>2. wpc'[t] = "check" \/ wpc'[t] = "exited"
    BY <1>c, <1>1 DEF WorkerStart, WorkerFails
  <2>3. Ahead(t)' <= Ahead(t)
    BY <1>c, <2>1, <2>2 DEF Ahead, Owns
  <2>4. Phases[wpc'[t]] < Phases[wpc[t]]
    BY <2>1, <2>2 DEF Phases
  <2> QED
    BY <1>0, <1>a, <2>3, <2>4
<1>2. CASE CheckError(t)
  <2>1. wpc[t] = "check" /\ UNCHANGED <<next_group, leaf_count>>
    BY <1>2 DEF CheckError, mainVars
  <2>2. wpc'[t] = "claim" \/ wpc'[t] = "exit"
    BY <1>c, <1>2 DEF CheckError
  <2>3. Ahead(t)' <= Ahead(t)
    BY <1>c, <2>1, <2>2 DEF Ahead, Owns
  <2>4. Phases[wpc'[t]] < Phases[wpc[t]]
    BY <2>1, <2>2 DEF Phases
  <2> QED
    BY <1>0, <1>a, <2>3, <2>4
<1>3. CASE Claim(t)
  <2>1. wpc[t] = "claim" /\ first'[t] = next_group /\ leaf_count' = leaf_count
    BY <1>c, <1>3 DEF Claim, mainVars
  <2>2. wpc'[t] = IF next_group >= leaf_count THEN "exit" ELSE "read"
    BY <1>c, <1>3 DEF Claim
  <2>3. Ahead(t)' = Ahead(t)
    BY <1>c, <2>1, <2>2 DEF Ahead, Owns
  <2>4. Phases[wpc'[t]] < Phases[wpc[t]]
    BY <2>1, <2>2 DEF Phases
  <2> QED
    BY <2>3, <2>4
<1>4. CASE Pread(t)
  <2>0. wpc[t] = "read" /\ UNCHANGED <<first, lane, leaf_count, next_group>>
    BY <1>4 DEF Pread, mainVars
  <2>1. CASE UNCHANGED <<scratch, view, done, wpc, error_code, faults>>
    BY <1>4, <2>1 DEF Pread, vars, mainVars, workerVars
  <2>2. CASE WorkerFails(t, "EIO")
    <3>1. wpc'[t] = "exited"
      BY <1>c, <2>2 DEF WorkerFails
    <3>2. Ahead(t)' = 0
      BY <3>1 DEF Ahead, Owns
    <3>3. Phases[wpc'[t]] < Phases[wpc[t]]
      BY <2>0, <3>1 DEF Phases
    <3> QED
      BY <1>0, <3>2, <3>3
  <2>3. ASSUME NEW n \in 1 .. AtMost(LaneLength(t) - done[t],
                      Len(file) - ((first[t] + lane[t]) * ChunkBytes + done[t])),
               done' = [done EXCEPT ![t] = done[t] + n], wpc' = wpc
        PROVE  Ahead(t)' = Ahead(t) /\ ChunkBytes - done'[t] < ChunkBytes - done[t]
    <3>1. Ahead(t)' = Ahead(t)
      BY <2>0, <2>3 DEF Ahead, Owns
    <3>2. n \in Int /\ n >= 1
      OBVIOUS
    <3>3. done'[t] = done[t] + n /\ done[t] \in Nat
      BY <1>c, <2>3
    <3> QED
      BY <1>c, <3>1, <3>2, <3>3
  <2> QED
    BY <1>4, <2>0, <2>1, <2>2, <2>3 DEF Pread
<1>5. CASE NextLane(t)
  <2>0. wpc[t] = "read" /\ UNCHANGED <<first, leaf_count, next_group>>
    BY <1>5 DEF NextLane, mainVars
  <2>1. CASE wpc' = wpc /\ lane' = [lane EXCEPT ![t] = lane[t] + 1]
    <3>1. Ahead(t)' = Ahead(t)
      BY <2>0, <2>1 DEF Ahead, Owns
    <3>2. lane'[t] = lane[t] + 1 /\ lane[t] \in Nat
      BY <1>c, <2>1
    <3> QED
      BY <1>c, <2>1, <3>1, <3>2
  <2>2. CASE wpc' = [wpc EXCEPT ![t] = "hash"]
    <3>1. wpc'[t] = "hash"
      BY <1>c, <2>2
    <3>2. Ahead(t)' = Ahead(t)
      BY <2>0, <3>1 DEF Ahead, Owns
    <3> QED
      BY <2>0, <3>1, <3>2 DEF Phases
  <2> QED
    BY <1>5, <2>1, <2>2 DEF NextLane
<1>6. CASE HashGroup(t)
  <2>1. /\ wpc[t] = "hash" /\ wpc'[t] = "check" /\ Owns(t)
        /\ UNCHANGED <<leaf_count, next_group>>
    BY <1>c, <1>6 DEF HashGroup, Owns, mainVars
  <2>2. first[t] < leaf_count /\ first[t] + Lanes <= next_group
    BY <2>1 DEF IInv, ClaimsInv
  <2>3. Ahead(t) = leaf_count - first[t]
    BY <2>1 DEF Ahead
  <2>4. Ahead(t)' = IF next_group < leaf_count THEN leaf_count - next_group ELSE 0
    BY <2>1 DEF Ahead, Owns
  <2> QED
    BY <1>c, <2>2, <2>3, <2>4
<1>7. CASE WorkerExit(t)
  <2>1. wpc[t] = "exit" /\ wpc'[t] = "exited"
    BY <1>c, <1>7 DEF WorkerExit
  <2>2. Ahead(t)' = Ahead(t)
    BY <2>1 DEF Ahead, Owns
  <2> QED
    BY <2>1, <2>2 DEF Phases
<1> QED
  BY <1>1, <1>2, <1>3, <1>4, <1>5, <1>6, <1>7 DEF Worker

\* It adds nothing to the work of another: only a claim touches that, and leaves less.
LEMMA OthersKept ==
    ASSUME IInv, IInv', NEW t \in Workers, Worker(t), NEW u \in Workers, u # t
    PROVE  Kept(u)
<1>0. /\ Ahead(u) \in Nat /\ Phases[wpc[u]] \in Nat
      /\ Lanes - lane[u] \in Nat /\ ChunkBytes - done[u] \in Nat
      /\ Ahead(u)' \in Nat
  <2>1. AllCounted'
    BY WorkerWorkType, PTL
  <2>2. Counted(u) /\ Counted(u)'
    BY <2>1, WorkerWorkType DEF AllCounted
  <2> QED
    BY <2>2 DEF Counted
<1>1. UNCHANGED <<wpc[u], first[u], lane[u], done[u], leaf_count>>
  <2>0. /\ DOMAIN wpc = Workers /\ DOMAIN first = Workers
        /\ DOMAIN lane = Workers /\ DOMAIN done = Workers
    BY DEF IInv, TypeOK
  <2>1. CASE WorkerStart(t)
    BY <2>0, <2>1 DEF WorkerStart, WorkerFails, mainVars
  <2>2. CASE CheckError(t)
    BY <2>0, <2>2 DEF CheckError, mainVars
  <2>3. CASE Claim(t)
    BY <2>0, <2>3 DEF Claim, mainVars
  <2>4. CASE Pread(t)
    BY <2>0, <2>4 DEF Pread, WorkerFails, mainVars
  <2>5. CASE NextLane(t)
    BY <2>0, <2>5 DEF NextLane, mainVars
  <2>6. CASE HashGroup(t)
    BY <2>0, <2>6 DEF HashGroup, mainVars
  <2>7. CASE WorkerExit(t)
    BY <2>0, <2>7 DEF WorkerExit, mainVars
  <2> QED
    BY <2>1, <2>2, <2>3, <2>4, <2>5, <2>6, <2>7 DEF Worker
<1>2. next_group' >= next_group /\ next_group \in Nat /\ next_group' \in Nat /\ leaf_count \in Nat
  <2>1. next_group \in Nat /\ Lanes \in Nat /\ leaf_count \in Nat
    BY ParameterAssumption DEF IInv, TypeOK
  <2>2. next_group' = next_group \/ next_group' = next_group + Lanes
    BY DEF Worker, WorkerStart, CheckError, Claim, Pread, NextLane, HashGroup, WorkerExit
  <2> QED
    BY <2>1, <2>2
<1>3. Ahead(u)' <= Ahead(u)
  BY <1>0, <1>1, <1>2 DEF Ahead, Owns
<1>4. CASE Ahead(u)' = Ahead(u)
  BY <1>1, <1>4 DEF Kept, WorkerWork
<1>5. CASE Ahead(u)' < Ahead(u)
  BY <1>0, <1>1, <1>5, WorkBelow DEF Kept, WorkerWork
<1> QED
  BY <1>0, <1>3, <1>4, <1>5

\* Every step but an edit diminishes the work that is left, so that a call whose preads
\* are not interrupted for ever takes finitely many steps, with any number of workers,
\* leaves and failures.
THEOREM WorkDiminishes == Spec => WorkShrinks
<1>1. IInv /\ IInv' /\ [Next]_vars => [Shrinks]_vars
  <2> SUFFICES ASSUME IInv, IInv', [Next]_vars, ~UNCHANGED vars PROVE Shrinks
    OBVIOUS
  <2>1. ASSUME Main PROVE Shrinks
    BY <2>1, MainShrinks DEF Shrinks
  <2>2. ASSUME NEW t \in Workers, Worker(t) PROVE Shrinks
    <3>1. Below(WorkerWork(t)', WorkerWork(t))
      BY <2>2, WorkerShrinks
    <3>2. \A u \in Workers : Kept(u)
      BY <2>2, <3>1, OthersKept DEF Kept
    <3>3. MainWork' = MainWork
      <4>1. UNCHANGED mainVars
        BY <2>2 DEF Worker, WorkerStart, CheckError, Claim, Pread, NextLane, HashGroup, WorkerExit
      <4> QED
        BY <4>1 DEF mainVars, MainWork, Tasks
    <3> QED
      BY <3>1, <3>2, <3>3 DEF Shrinks
  <2>3. ASSUME Edit PROVE Shrinks
    <3>1. UNCHANGED <<mainVars, workerVars, next_group>> /\ edits' = edits + 1
      BY <2>3 DEF Edit
    <3>2. MainWork' = MainWork
      BY <3>1 DEF mainVars, MainWork, Tasks
    <3>3. \A t \in Workers : WorkerWork(t)' = WorkerWork(t)
      BY <3>1 DEF mainVars, workerVars, WorkerWork, Ahead, Owns
    <3> QED
      BY <3>1, <3>2, <3>3 DEF Shrinks, Kept
  <2> QED
    BY <2>1, <2>2, <2>3 DEF Next, Returned
<1> QED
  BY <1>1, Invariance, PTL DEF Spec, WorkShrinks
=============================================================================
