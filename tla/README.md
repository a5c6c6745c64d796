# FrogBard, modelled and proved in TLA+

FrogBard-512 is an experimental 512-bit hash written in C: a sponge over a permutation of
32 words of 64 bits, a four-way AVX2 hash, and a *tree mode* in which several threads hash a
file's 1 MiB leaves and one thread reduces the leaf digests to a root. This directory holds
TLA+ models of it, TLC configurations that check them, and TLAPS proofs about them. Paths
below are relative to the repository (`src/frogbard.c` is the library's source).

Contents: [1 The system](#1-the-system), [2 The models](#2-the-models),
[3 What the runs check](#3-what-the-runs-check), [4 What is proved](#4-what-is-proved),
[5 A finding](#5-a-finding), [6 What is not modelled](#6-what-is-not-modelled),
[7 Plan](#7-plan).

## 1 The system

| Component | State it keeps | Operations | Talks to |
|---|---|---|---|
| **Tree mode**, `src/frogbard_tree.c` | the caller's: descriptor, size, digest table (`leaves`, replaced at each level), thread table, counts, `result`; shared by the threads: `next_group`, `error_code`; each worker's: a group of leaves, four buffers | `frogbard_tree_hash_file`, `tree_worker`, `pread_exact`, `reduce_tree` | the file, which others may edit; pthreads; the hash calls |
| **Streaming hash**, `src/frogbard.c` | `frogbard_ctx`: sponge state, buffer, `buffer_len`, `total_lo`, `total_hi` | `frogbard_init`, `frogbard_update`, `frogbard_final` | the permutation |
| **One-shot and four-way hash**, `src/frogbard.c`, `src/frogbard_avx2.c` | none that outlives a call | `frogbard_hash`, `frogbard_hash_reduced`, `frogbard_hash4_equal` (portable and AVX2) | streaming hash, permutation |
| **Permutation**, `src/frogbard.c`, `src/frogbard_avx2.c` | none | 16 rounds, a reduced number of them, and the inverse | S-boxes |
| **S-boxes**, `src/frogbard_tables.h`, `tools/gen_tables.py` | constant tables, and a bitsliced circuit for the same functions | derivation, lookup, the bitsliced form | - |
| **Self-test**, `src/frogbard.c` | none | `frogbard_self_test` | everything above |
| **Command line**, `src/frogbard_cli.c` | a stream and a context | `-s`, `-f`, `-T`, `--self-test` | streaming hash, tree mode |
| **Analyzer**, `tools/frogbard_analyze.c` | counters; the strongest bias so far; an open-addressing table | `--linear-scan`, `--differential-scan`, `--all`, `collision_smoke` | one-shot hash, reduced permutation |
| **Fuzz harness**, `tools/fuzz_frogbard.c` | none | compares the calls on one input | streaming and one-shot hash |
| **Test script and build**, `tools/frogbard_absurd_test.sh`, `Makefile` | counts of results, a report directory | the phases of `main` | the binaries |

What makes each of them correct, and what is hard about it:

* **Tree mode** is the concurrent part. Workers claim groups of four leaves with a relaxed
  `fetch_add` and store digests in the shared table without a lock; `error_code` is read
  with a relaxed load, so a worker may carry on after another one failed; every system call
  may fail part-way (a `pthread_create` after some workers run, a `malloc` at a middle level
  of the reduction); the size is taken once by `fstat`, the bytes later by `pread`, which
  may be short, interrupted, or find the file truncated. Correct means: each leaf is claimed
  by exactly one worker and its digest stored once, in its slot; no worker outlives the
  caller's stack frame, table and descriptor; a return of 0 means that nothing failed and that
  the digest is that of one view of the file; a return of -1 leaves the caller's output alone
  and comes with the `errno` of something that did fail, or of closing the file after that;
  everything acquired is released, the wipe of the table exactly as long as the table; the call
  returns.
* **Streaming hash**: the cutting of a message into updates must not show in the digest,
  whatever lands on a block boundary; bytes of earlier blocks must not reach the last one;
  the two words of the byte count must carry.
* **One-shot and four-way hash**: three code paths pad and count on their own and must agree
  with the specification (`analyzes/SPEC.md` section 7) at every length; the two pad bytes
  share a byte when a message is one byte short of a block and must be XORed in.
* **Permutation, S-boxes**: the inverse must undo every layer of every round in the opposite
  order, from lane orders and tables that the code has twice; both calls clamp the number of
  rounds; table and circuit agree; the four messages of a vector state never mix.
* **S-boxes and self-test**: a box is the AES box between two bit permutations and two masks,
  written out as a table and applied as a circuit on bit planes; header, table and circuit can
  come apart, and the self-test is what would notice. What its pass is worth depends on which
  cuts, lengths, rounds and bytes it happens to use. The loops of the self-test and of the
  fuzzer advance by a piece computed from the data's length, which must not be 0.
* **Hash calls in one memory**: the header says that the messages are read, not that they lie
  apart from the output, and the two builds read and store in different orders.
* **Command line**: a read error after some bytes must not print a digest, and must not leave
  the file open; `strtoul` wraps, and 0 threads means something else than no number.
* **Analyzer**: the probe loop needs a free slot; a key inserted behind the end of the table
  must be found again; counters of one turn must not leak into the next, and a bit must have
  the same number where it is flipped, read and reported.
* **Test script**: it promises to continue through failures and to write its report.

The full list of hazards, each at its line and with the properties that cover it, is in
`PROJECT.json`.

## 2 The models

```
TreeEncoding  leaves, messages, one level; the reference tree     HashEncoding  reference padding and digest
   |      \                                                          |       \
TreeCall   TreeHash ----- implements TreeCall                   SpongeCtx     StreamHash
 (abstract)   |                                                  |  |  \  \     |
           TreeHashInv   inductive invariants                    |  |   \  Sponge -- implements StreamHash
              |      \                                           |  |    \
        MCTreeHash  TreeHashProofs                       HashCalls  Cli   SelfTest  (and the fuzz
                                                            (the program)            harness)

Permutation   layers and rounds, over an abstract word        CroackBox   S-box: generator, header, circuit
   |       \                                                  Hash4       four messages, one memory
PermuteCalls  FourWay   scalar and vector sponge              Analyzer    Scans and CollisionSmoke
                                                              Harness     the test script
                                                              MachineWords  uint64_t at any width
                                                              SmallWords  words for TLC
```

A module `MCX` holds the definitions that the `.cfg` files of `X` refer to. The theorems are in
`TreeHashProofs`; `SpongeProofs` (of `Sponge`, `HashCalls`, `SelfTest` and `Hash4`); `CliProofs`;
`PermutationProofs` (of `PermuteCalls` and `CroackBox`); `FourWayProofs`; and `AnalyzerProofs`.
`SpongeCtxProofs` holds the lemmas that `SpongeProofs` and `CliProofs` share, `NaturalLemmas` those
about division, powers of two, words and least elements that all of them cite.

### TreeEncoding

The pure part of tree mode: `LeafCount`, `ChunkLength`, the three messages (leaf, parent,
root) as records of the fields the code encodes, and `Parents`, one pass of `reduce_tree`'s
outer loop (its four-way and one-way inner loops compute the same function, parent by
parent). Beside it stands the reference of `analyzes/SPEC.md` section 8, `TreeDigest`, the root
over `TreeNodes`, a recursive function on the places (level, index) of a tree whose level `l` is
`ceiling(n / 2^l)` wide; it shares no operator with the code's reduction but the message formats. `frogbard_hash` is the constant operator `Hash`. In the
runs it is ideal: the message is its own digest, so equal digests mean equal inputs. Hence a
model's digest shows which bytes, counts and levels went where.

### TreeCall and TreeHash

`TreeCall` is what a caller is promised: while the file is edited by others, the call
publishes at most once, and what it publishes is the tree digest of a *view* of the file, with
the size, leaf count and levels of that view; it returns 0 if it has published, -1 if not.
A view has a length the file had, and at each position a byte the file had there, at moments
of the call; nothing stronger can hold, since nothing locks the file.

`TreeHash` is the call in the code's own steps. A step is what one thread does between two
points where another thread or the file matters: a system call, or an access to a shared
atomic.

| Code | TreeHash |
|---|---|
| `open`, `fstat` and its checks, `malloc` of the table, `choose_thread_count` and `calloc` | `Open`, `Fstat`, `AllocateLeaves`, `AllocateThreads`, each with its failures |
| one turn of the `pthread_create` loop, and its end | `CreateWorker` (a failure goes to `error_code` and to the joins), `AllCreated` |
| `pthread_join`; `worker_error` | `Join`; `CheckWorkerError` |
| one level of `reduce_tree`; the root, `out` and `*stats` | `ReduceLevel`; `FinishRoot` |
| the `cleanup` label | `Cleanup` |
| `posix_memalign`; the load of `error_code`; `fetch_add` | `WorkerStart`; `CheckError`; `Claim` |
| one `pread` of `pread_exact`; the end of a leaf; the two hashing branches; leaving the loop | `Pread`; `NextLane`; `HashGroup`; `WorkerExit` |
| a failing worker stores `errno` and returns | `WorkerFails` |
| other processes | `Edit`: overwrite a byte, truncate, append |

Variables have the code's names. `block` is the number of digests in the block `leaves`
points to (0: NULL) and `nodes` its contents; `mpc`, `wpc` are program counters; `first`,
`lane`, `done`, `scratch` are a worker's locals. `seen`, `faults` and `view` are ghosts: the
contents the file has had, the `errno` values failures have carried, the bytes the preads
returned. Points worth knowing:

* *Relaxed memory.* `CheckError` may read 0 although another worker has stored an error,
  for any length of time. `next_group` is an atomic read-modify-write, which has one total
  order in every C11 execution. Digests are read by the caller only after `pthread_join`,
  which synchronises; hence plain variables are sound for them, and that they are written
  by one thread each is what `ExclusiveClaims` says.
* *Short reads.* `Pread` returns any number of bytes from 1 to what is asked and there.
* *Reused buffers.* A lane's buffer keeps what an earlier leaf left in it; a new one holds
  `Unset`, as does a slot of the table nobody wrote. Hashing memory nobody wrote would
  be visible in the digest.
* *Errno.* A value of `Faults` stands for every reason a call can fail with there; one name
  per call is enough to see whose failure is reported. The first branch of the code's
  `errno == 0 ? EIO : errno` is end of file. `close` in the cleanup is the exception: the code
  ignores that it failed, so it is no failure of the call and `faults` does not have it, but
  `errno` is `CloseError` then, also behind a -1, whose cause is lost to the caller. No text of
  the repository promises otherwise; the result must not change.

`TreeHashInv` holds the inductive invariants (section 4): `IInv` and `ContentsInv`, which TLC
checks too, and `AnswerInv`, on which the refinement rests. `WorkShrinks` is the safety half of
termination, a measure of the work that is left: the caller's stage and the turns of its loop, and for each
worker the leaves it can still get, where it stands in a group, the lane and its bytes. A worker's
step makes its own part smaller and adds to nobody's; a step of the caller makes the caller's part
smaller, and may hand work to a new worker; an edit of the file adds nothing.

### HashEncoding, SpongeCtx, Sponge, StreamHash, HashCalls

A byte is the set of its one bits, so XOR is symmetric difference. The permutation is ideal:
the state of the sponge is kept as what determines it, the number of rounds and the blocks
absorbed so far. `MessageDigest` is the reference: pad the whole message, cut it, count it.
`SpongeCtx` has the context and what `init_rounds`, `update_rounds` (top up the buffer, absorb
whole blocks straight from the input, keep the tail), `add_total_bytes` and `final_rounds`
compute. `Sponge` is a caller of them, in every order of calls and cut of the message, with an
initialisation at any time; `StreamHash` is what the caller is promised. Its one obligation
outside the model is that a context is opened before use, as `frogbard.h` and the wipe in
`final_rounds` require. `HashCalls` has the calls that take a whole message,
`frogbard_hash`, `frogbard_hash_reduced` and the AVX2 sponge, lane by lane.

`HashCalls` and `Sponge` take the permutation as ideal; the next modules open it.

### Permutation, PermuteCalls, FourWay

`Permutation` is `apply_round` and `apply_inverse_round` with every layer in them: the round
constants and S-boxes, the quarter rounds of `mix_voice` with their rotation amounts, the braid
across voices, the lane orders, once as the macros have them and once as the tables
(`EvenOrder`, `even`). What a word is, how words are added, XORed, rotated and substituted are
constants with assumptions: the module is about which words meet, in which order. `MachineWords`
has the operations of the code at any width: sums that wrap, XOR by bits, `rotl64`, `rotr64`.
`SmallWords` gives TLC those of a few bits, with tables. `PermuteCalls`
is a caller of `frogbard_permute_reduced` and `frogbard_permute_inverse_reduced` in either
order; a step is a round, and the ghost `trace` keeps the states of the first call by round.

The layers of `frogbard_avx2.c` are written letter for letter like the scalar ones, over vectors
of four words instead of words. `FourWay` therefore instantiates `Permutation` twice, with scalar
words (`S`) and with vectors (`V`), and runs the AVX2 `frogbard_hash4_equal` and four scalar
hashes in lockstep, from the bytes to the bytes: loads, splats, padding, length, finalisation and
stores. The bitsliced circuit of the AVX2 S-box and the scalar table are both the operator `Box`.

### CroackBox

One S-box from its draw to its use. `Derive` is `derive_sbox` of `gen_tables.py`: the AES box
between two bit permutations and two masks, drawn again while the result maps a byte to itself
or to its complement. `Damage` changes or swaps entries of the header
that was written, or changes a permutation or a mask. `SelfTest` is the table part of
`frogbard_self_test`. Beside them stand the two ways `frogbard.c` applies a box to a voice:
`ByTable`, byte by byte, and `Bitsliced`, the transposition to bit planes, the circuit and the
transposition back. The AES box and the circuit `frogbard_aes_sbox.inc` are the same constant
function `Aes`: that the circuit is the AES box is a matter of 256 inputs, which the self-test
compares; what is modelled is how its bits are permuted, masked and gathered. `AesAssumption`
says that the AES box is as uniform as the self-test asks: that the boxes made from it then are
too is what `DerivedTablesFit` proves.

### Hash4

`frogbard_hash4_equal` as stores into its caller's memory. The portable build makes four
calls, and stores a digest before it reads the next message; the AVX2 build reads all and then
stores. `RightUnlessOverwritten` says when both are right. Otherwise, in the portable build, a
message that an *earlier* output slot overlaps is hashed as the earlier digests left it; nothing in
the repository asks for that, and no property demands it.
No caller in the repository is exposed: tree mode, the self-test and the fuzzer keep messages
and output in separate arrays.

### SelfTest

`frogbard_self_test` behind the tables, and the fuzz harness, stage by stage and at the code's
own sizes (blocks of 128 bytes, messages of 257). The subject is the test itself: it runs
against the right code or against one of eight faulty builds, operators of this module that
change one thing in the update, the last block, a lane of the four-way hash or the inverse. The
properties say what a pass rules out. `ReachAssumption` has the sizes that the verdict rests on:
no piece of the cuts is as long as a block, and a block is no longer than the longest message; the
lengths the properties look at are within the data. What came to light on the way:

* Behind a part that fills the buffer, the self-test's pieces of at most 31 bytes never
  hold a whole block. A build that takes such blocks from the start of the data passes it;
  every fuzz input of 1778 to 2034 bytes tells (`LongInputTells`), and shorter ones may not.
  These are 257 lengths, one for each remainder; since a cut depends on its place and on the
  length modulo 257, a longer input is cut as one of them up to the last piece of that one.
  That it then tells as well is a matter of a few lines by hand, and not checked.
* An input of 257 k + 256 bytes is fed in pieces of 257 bytes only.
* A portable build whose *shared* padding is wrong is caught by the two known answers alone, since the
  portable batch compares the scalar code with itself; with the AVX2 batch it is caught at
  every length (`PassMeansDigests`).

### Analyzer: Scans and CollisionSmoke

`Analyzer` is the program: `main` parses its arguments and gives the command to the steps of one
of two modules.

`Scans` has the two sampled scans, the rounds of `--all`, the arguments of `main` and how it
ends its other commands. A step is one sample; states, masks, differences and bits are drawn by
the environment. A bias is kept as twice the distance of its count from half of the samples,
which orders counts as the quotient does; where two counts that lie equally far on both sides of
the half could compare either way after rounding, the model takes either.

`CollisionSmoke` is `collision_smoke`, a step being one digest or one turn of the probe loop.
The digest of a new message is arbitrary. `tried` is a ghost: the prefixes of all attempts.

### Cli

`main`, `hash_file_stream` and `parse_threads` of `frogbard_cli.c`. A step of the loop is one
`fread`, which returns the whole buffer, or less at the end of the stream or at an error; the
context is that of `SpongeCtx`. `fopen`, `fread`, `fclose`, the self-test and the tree call may
fail. An argument of `-j` is a sign, a number and whether other characters are there; `Strtoul`
saturates with `ERANGE` and negates modulo the word, as C's does. `stdout` is what the program
handed to `puts`, whose result it ignores.

### Harness

The phases of `main` in `tools/frogbard_absurd_test.sh` under `set -Eeuo pipefail`; see 5.

## 3 What the runs check

| Run | Instance | Properties |
|---|---|---|
| `tree_threads` | chunk 2, the code's groups of 4, at most 3 threads and 9 leaves, eleven files of 0 to 19 bytes (the last has a leaf too many and is refused), all failures; 278 k states | `IInv` (with `TypeOK`), `ExclusiveClaims`, `SharedOutlivesWorkers`, `ReturnedClean`, `ErrorAccounting`, `ClaimsBounded`, `WipeFitsBlock`, `WriteOnce`, `WorkShrinks`, `ImplementsCall` |
| `tree_edits` | chunk 2, groups of 2, 2 threads, files of 0, 3, 5 bytes over two values, two edits, short reads, all failures; 449 k states | `ContentsInv`, `LeavesComplete`, `ImplementsCall`, `Termination` |
| `sponge` | blocks of 3 bytes, words of three bits, up to 11 bytes in updates of 0 to 7, over {0x00, 0x0b}; 13 k states | `TypeOK`, `ContextHoldsMessage`, `LengthAccounting`, `ImplementsStream` |
| `hash_calls` | blocks of 2, every message of up to 4 bytes over {0x00, 0x0b, 0x80, 0x8b}, 0 to 3 rounds asked of 2; 1365 states | `AnswersAreDigests`, `PaddingTellsApart` |
| `permute` | words of 5 bits, 16 rounds, calls with 0, 1, 2, 7, 16 and 20 rounds from four states; 792 states | `TypeOK`, `Retraces` |
| `four_way` | 8-bit words of two 4-bit bytes, 2 rounds, messages of 0, 1, 16, 17, 31, 32, 33 and 64 bytes; 111 states | `ColumnsAreScalar`, `SameDigests` |
| `cli` | every command, a buffer of 4 over blocks of 3, streams of up to 9 bytes, every failure; `unsigned long` of 3 bits, at most 3 jobs, numbers up to 9; 11 k states | `ResultTrue`, `StreamsGivenBack`, `ThreadsAsked` |
| `hash4` | a memory of 9 bytes, digests of 2, messages of 0 to 2, every placement of the four messages and the output in it; 331 k states | `RightUnlessOverwritten` |
| `croack_box` | boxes of four bits out of a 4-uniform one, two permutations and two masks on either side, then any one entry of any table changed; 20 k states | `DerivedFit`, `PassMeansInverts`, `PassMeansSliced` |
| `self_test` | the code's sizes, eight faults and none, both four-way hashes, 263 lengths of fuzz inputs; 154 k states | `RightPasses`, `PassVouches` (pieces, digests, inverse), `LongInputTells` |
| `analyzer` | every command; scans of states of two voices of two lanes of two bits, two permutations, up to 3 samples; prefixes of 1 to 4 bits, up to 5 attempts, tables of 1 to 16 slots, every sequence of five digests; 81 k states | `ReportTrue`, `MeasuresTrue` (rotations, relations, distances), `AnswerTrue`, `Findable`, `Termination` |
| `harness_report` | up to 2 failures | `CompletePicture` is violated (section 5) |

Why these bounds suffice to see the interesting cases:

* *Threads.* The properties relate at most two workers, one that fails and one that does not
  know, or one that stores and one that claims; three threads add one that was never created.
  Nine leaves in groups of four give three groups, a short last group and a worker that finds
  nothing left; the proofs of section 4 remove the bound.
* *Edits.* Two edits can do what no single one can, change a byte and change it back or cut the
  file and let it grow again, so that a view need not be a content the file ever had.
* *Batches.* 1 to 9 leaves contain every remainder of a group, with a last leaf that is full
  and one that is short (the two branches of the hashing), and trees of 0 to 4 levels with an
  odd node at every level.
* *Sponge.* An update of 7 bytes over blocks of 3 can top up the buffer, absorb two blocks and
  leave a tail; eleven bytes give every buffer length before every kind of update.
* *Count.* Words of three bits carry at eight bytes; that the pair of words wraps as a whole is left to
  the theorem `CountHeld`, which is about every word.
* *Padding.* The four bytes are those that look like a first pad byte, a last one, both, or
  none; four bytes of two-byte blocks end everywhere in a block.
* *Permutation.* Sixteen rounds go four times through the S-boxes of a voice and eight through
  each lane order; 20 is clamped. Rotations by 11 to 61 act by their residues modulo 5
  only; the theorem of section 4 holds for any word and any amounts.
* *Four ways.* A block of the instance has 32 bytes. The lengths are those around the end of a
  voice's share, of a block and of two, where padding, tail and block loop change. Any word
  whose message index were wrong would show at once, since the four messages differ.
* *Command line.* Nine bytes are two full buffers and a rest, eight two and an empty read. With
  3 bits, negative numbers wrap into the accepted range and 8 and 9 are out of range.
* *Analyzer.* Two of the digests share the last slot of a table of eight as home and two the first, so
  probing goes round the end; a limit of 4 fills half of the table, as every power of two does.
* *One memory.* Nine bytes hold the four slots and one byte beside them, so a message can lie before,
  across, inside or behind any slot, and all of them anywhere over each other.
* *S-boxes.* Four bits are the least with boxes that are 4-uniform; a word then has two bytes and a voice
  four words, so that a plane mixes bytes of different words as the code's does. The voices are the
  self-test's and three more. A header with two wrong entries is two headers with one, but for
  `PassMeansInverts`; section 4 proves all three properties for any header.
* *Self-test.* The only reduced size is the word of the counter. The second pieces tried are those around
  31 bytes, a block and two; the fuzz sizes those around 0 and a block, 1777, and the 257 behind it.
* *Scans.* Two rounds of the instance's permutation move, rotate and mix; the three states and three masks
  include a pair that the first one maps onto each other, so a relation that always holds is drawn.

`TreeHash` disables nothing and stutters once the call has returned, so deadlock is checked in
all of its runs, as it is for the other modules: a `join` that waited for ever with no worker
able to step would be reported. The test programs and the test script stop when they are done:
their runs have the deadlock check off.

**Fairness.** `Termination` assumes weak fairness of the calling thread and of each worker:
they are kernel threads, none waits for anything but the join, and a preemptive scheduler runs
a thread that stays runnable. Weak fairness of a worker's whole step also excludes a `pread`
that is interrupted for ever; EINTR comes from signals, and the code's loop relies on
their ending as well. No fairness is assumed of edits, failures or short reads. End
of file is not retried, which is what the property is about: a truncated file ends the worker.
The `Termination` of `analyzer` assumes only that the program's one thread goes on.

Each property of a passing run has been shown able to fail: for each there is a plausible bug,
an operator marked `Faulty:` beside the definition it changes, with which TLC finds the property
violated (a claim of one leaf instead of a group, a failed `pthread_create` that skips the
joins, a count not passed back by a failing level, a stale buffer in the last block, ...).
`PROJECT.json` pairs them.

## 4 What is proved

TLAPS proves the following: on tree mode for every number of threads, lanes, leaves and edits,
every chunk size, file and set of failures; on the permutation for every word, S-box, table of
round constants, state and number of rounds; on the sponge, the hash calls, the test programs and
the command line for every block size, counter width, message and cut; on the four-way sponge
for every word, table and list of messages; on the S-boxes for every width, draw and header; on
the analyzer for every size of a state, permutation, table and sample.

| Theorem | Statement |
|---|---|
| `Invariance` (TreeHashProofs) | `Spec => []IInv` |
| `TypeCorrect` | `Spec => []TypeOK`, the table's size and the buffers' lifetimes included |
| `ClaimsAreExclusive` | claimed groups are disjoint, inside the table, and empty |
| `SharedStateOutlivesWorkers` | while a worker runs, the caller is creating or joining and holds what it uses |
| `WipeCoversBlock` | `cleanup` wipes exactly the live block |
| `NothingLeftBehind` | a call that returned holds nothing and has no worker |
| `ErrorsAccounted` | 0 means nothing failed; -1 means something did, with its `errno` or that of a later `close` |
| `ClaimsAreBounded`, `DigestsAreFinal` | the counter's overshoot is bounded; no stored digest changes while workers run |
| `WorkDiminishes` | `Spec => WorkShrinks`: every step of the caller or a worker takes from the work it has left, and only the caller, who has less left then, hands any to another |
| `Contents`, `LeavesAreComplete` | buffers and table hold what the preads returned; when the reduction starts, every leaf is hashed, over bytes read from the file |
| `ImplementsItsCall` | `Spec => Call!CallSpec`: what is published is the tree digest of one view of the file, once, with its size, leaves and levels, and 0 is returned then only |
| `UneditedFileIsHashed` | if nobody edits the file and the call returns 0, it has published the tree digest of that file |
| `DigestTellsFiles` | two files with the same tree digest are one file, for any hash whose tree messages do not collide |
| `PermuteTypes` (PermutationProofs) | `Spec => []TypeOK`: every round run has constants, every state is one |
| `PermuteRetraces` | inverse after permutation, and permutation after inverse, pass through the first call's states backwards and end where it began |
| `PermutedOneToOne` | at every number of rounds the permutation is one: no two states become one, every state is reached |
| `CallsPermute` | at every round of either function the caller holds the state that so many rounds make of the first |
| `WordsOfTheCode` | the operations on `uint64_t` are what `WordAssumption` asks of words |
| `BitsOneToOne` | over words of bits the permutation is what `PermuteAssumption` asks of it |
| `DerivedTablesFit` | for any draw, the generator's box and inverse undo each other, no byte goes to itself or its complement, and the self-test does not object |
| `PassedTablesInvert` | tables that pass the self-test undo each other, for any header |
| `PassedTablesSliced` | a pass means that circuit and table agree on every voice |
| `WordTablesInvert` | then so do the word-wise lookups, which is what `TableAssumption` asks of an S-box |
| `MessagesNeverMix` (FourWayProofs) | at every point of the vector call, column `j` is the state of a scalar call on message `j` |
| `BuildsAgree` | both builds return the same four digests |
| `ScalarsOfTheCode` | `uint64_t` and its bytes are what `ScalarAssumption` asks of scalars, given S-boxes on them |
| `ContextTyped`, `CountHeld` (SpongeProofs) | the buffer is never full between calls; the two words hold the bytes fed, modulo the square of the word |
| `MessageHeld` | however a message is cut, the context holds each of its bytes once, in its place |
| `StreamRefined` | `Spec => StreamSpec`: closing a context gives the digest the specification defines for the whole message |
| `CallsAnswerDigests`, `CallsTellApart` | the one-shot, the reduced-round and the four-way code answer with the specification's digest, at the number of rounds nearest to the one asked for; no two messages pad to one list of blocks |
| `RightCodePasses` | neither test program complains of right code |
| `PassedTestVouches` | a pass of the self-test vouches for short pieces behind any others, the inverse, and with the AVX2 batch for the digests, against each of the faulty builds |
| `DigestsUnlessOverwritten` | each digest is right unless an earlier slot overlaps its message; nothing else is written |
| `PaddingInjective` (SpongeCtxProofs) | messages that pad to the same blocks are equal |
| `ExitsAreTrue`, `FilesAreClosed`, `ThreadsAreAsked` (CliProofs) | the three properties of the run `cli` |
| `CollisionsAreTrue`, `KeysAreFindable` (AnalyzerProofs) | the reported attempt is the first that collides; between a key's home and its slot no slot is free |
| `ReportsAreTrue` | a scan reports the strongest bias of its turns and the pair that had it |
| `MeasuresAreTrue` | what a round of `--all` prints is true of the permutation |

**Assumptions.** They are of three kinds, and TLC evaluates all of them on the instances.

*Types and sizes.* `ChunkAssumption`: a chunk has at least one byte. `ParameterAssumption`: lanes,
threads and leaves are at least one, `Unset` is not a byte. `BlockAssumption`, `SpongeAssumption`,
`CallsAssumption`, `CliAssumption`: sizes are positive, and one call gets less than a word of bytes
(`len` is a `size_t`). `TestAssumption`: the messages are of bytes, and fit a word.
`ReachAssumption`: see SelfTest above. `SizesAssumption` and `ListsAssumption`: a word of
`FourWay` is `WordBytes` bytes, and the four messages are equally long. `ScanAssumption`,
`SmokeAssumption`, `CollisionAssumption`: a state has a voice, a lane and two bits, and arguments are
texts of numbers. `RoundsAssumption`, `CallerAssumption`, `MemoryAssumption` give types.

*Arithmetic and tables of the code.* `WordAssumption`: addition and subtraction, XOR with itself,
and the two rotations cancel, as `WordsOfTheCode` proves of 64-bit words. `ScalarAssumption`: the operations stay in
a word, and XOR with 0 changes nothing (`ScalarsOfTheCode`). `TableAssumption`: each inverse S-box inverts its box
(which `PassedTablesInvert` and `WordTablesInvert` derive from a passed self-test), and the round
constants are words, as `TablesAssumption` says of the other constants. `BoxAssumption`: the
shuffles are permutations and the AES box is one-to-one; `AesAssumption`: it is 4-uniform.
`PermuteAssumption`: at every number of rounds the analyzer's permutation is one-to-one, as
`PermutedOneToOne` and `BitsOneToOne` show the code's to be.

*The model.* `DigestAssumption`: no leaf's digest equals the mark `Unset` of an unwritten slot. The
mark exists in the model only, so this restricts nothing in the code. No assumption says that the
hash is collision-free: the theorems hold for any `Hash`.

**The argument.** The safety properties are not inductive. That a claimed slot is empty rests
on every slot beyond the counter being empty; that nothing is missing at the reduction rests on
every claimed slot being filled or in somebody's hands, *and* on no worker having left early
unless an error is stored. `IInv` is the conjunction of named parts:

* `ThreadsInv`: workers exist in creation order, `joined <= created <= threads`, and after the
  joins none runs; fewer created than wanted means an error is stored.
* `ResourcesInv`: what is held at each point; `block` against `leaf_count`, `root_count` and
  `leaf_alloc_count`.
* `ClaimsInv`: owned groups lie below the counter and a whole group apart from each other;
  owned slots and those beyond the counter are empty.
* `ErrorsInv`: before cleanup, nothing has failed unless `error_code` says so; it names
  a failure that happened. Cleanup leaves the result as it was decided.
* `CoverageInv`: while no error is stored, a worker has left only if leaves ran out, and each
  leaf below the counter is hashed or owned.

Each part of `IInv` is proved in one lemma for the calling thread and one for a worker, by cases on the
action. `WriteOnce` then follows because only `HashGroup` writes while workers run, to owned
slots, which are empty. `ContentsInv` rests on `IInv` and adds arithmetic: leaves have no byte
in common and together are the file (`LeavesApart`, `LeavesCoverFile`), so a pread of one
worker disturbs nothing another has read or hashed (`StoreContents`), and the equal lengths
that the four-way call takes for granted are equal (`GroupDigested`). `ClaimsBounded` rests on
`OvershootInv`: the counter exceeds the table by at most a group per worker that has left;
the counting uses cardinalities of the set `Left`.

*The refinement of `TreeCall`* needs a third invariant, `AnswerInv`: each byte of the ghost `view` was in
some content of the file, at that place; the size is the length of one; and during the reduction
the table holds a level of the reference tree. The last is where the code's bottom-up loop meets
the recursive reference: `LevelWidths` and `TreeHeights` are the arithmetic (halving `n` rounded up,
`l` times, is `ceiling(n / 2^l)`, and 1 is reached), `ChildPlaces` that the children of a node are nodes,
`NodesExist` that the recursive function is defined at every place, by taking the lowest level where
it would not be. Then `LevelReduced` is one level of the loop, `RootDigest` the root, and `NextCall` maps
every step: `FinishRoot` publishes, `Cleanup` or a failed `open` returns, an edit is an edit, and
every other step stutters (`Stutters`). `UneditedFileIsHashed` takes what was published from there: with
no edit the only content is the file, and the view is it. `DigestTellsFiles` goes down the trees of two files
with one digest: as no two messages collide, the root's give size, leaves and levels, each node's its two
children, and each leaf's its bytes.

*The work left* (`WorkDiminishes`) is a pair for the caller and a quadruple for each worker, in
lexicographic order. A claim leaves its worker as many leaves ahead as before but takes it on, to read or
out; after a hashed group fewer are ahead, because the group lies below the counter. A load of
`error_code`, stale or not, takes the worker on as well. `MainShrinks`,
`WorkerShrinks` and `OthersKept` are the cases; the parts are natural numbers by `IInv`.

*Induction.* The library's induction theorems take an operator and cannot be instantiated here, but that a
non-empty set of numbers has a least element (`Smallest`) follows from one about sets (`WFMin`), and
serves as well: an induction takes the least number of rounds, bytes or levels at which the claim
would fail.

For the permutation, each assignment to a lane and its inverse cancel in both orders, because it
reads a word it does not write (`AddSub`, `TurnUnturn`, and the same across voices); hence halves,
quarter rounds, voices, the braid and the lane orders cancel, and so does a round (`Rounds`).
The invariant adds to `TypeOK` what the ghost `trace` holds: the rounds between where the first call
began and where it is, each state one `ApplyRound` from the next. That the call is a function of its state,
and one-to-one, is about sequences of such states: one exists for every number of rounds and ends where any
other from there does, since a first round where they part would be a round with two results
(`RunsExist`, `RunsTell`). For the code's words, a number is told by its one bits (`OnesTell`), every set
of places is some number's (`Numbers`), and a rotation exchanges quotient and remainder (`TurnBack`).

For the sponge, the invariant is that the context holds the message (`Holds`) and counts it (`Counts`).
An update either stays within the buffer or fills it to a block (or finds it empty), takes whole
blocks and keeps a rest shorter than one: `Parts`. Where a byte lands is then division with
remainder, `BlocksHeld` for the blocks and `TailHeld` for the buffer; `Carry` is the
arithmetic of `add_total_bytes`. On closing, the padded buffer is the last block of the padded
message (`LastBlock`) and the two words are the two digits of its length (`Digits`). `CliProofs`
reuses these lemmas: the read loop keeps `Holds` between the context and what the stream
delivered. In `PaddingInjective` the longer of two messages has its first pad byte where the
shorter has a zero.

`LaneHolds` builds the context that a lane of the four-way code stands for, whose last block is then
`Finished`'s; from it follow the answers of `HashCalls`. `RightCodePasses` keeps `Holds` between the
context and the prefix fed so far, so both sides of each comparison are the specification's digest.
`PassedTestVouches` goes the other way round: its invariant says which faults each stage has
excluded, and for each fault a lemma shows the comparison that fails. A build that forgets the
buffer, or does not count what tops it up, differs on "abc" in three updates (`ForgetsShows`,
`UncountedShows`); one that pads with stale bytes differs on the first message of a whole block, of
which the second byte, not zero, is left behind (`Remains`, `StaleShows`); replaced pad bytes show in the
AVX2 batch one byte short of a block (`ReplacedShows`), a missing last block at a block
(`NoPadShows`). What is left closes contexts alike (`ClosedAlike`), and a short piece never meets
the last fault, which the self-test cannot see (`PlainUpdate`).

For `CroackBox`, a finite box with a left inverse has it on both sides (`Pigeonhole`), which is
why it is enough that the self-test compares one direction. Permuting bits and adding masks only
renames differences, hence the generator's box counts as the AES box does (`RenamedCount`).
`ortho_u64` swaps bits in `Log` rounds: each exchanges one binary digit of a word's number with the
same digit of the place in it (`Swapped`), so all together exchange words and places (`OrthoExchanges`), and
the circuit acts on every byte (`CircuitApplies`); the voices of the self-test hold every byte
(`BatchesHaveAll`), so agreement there is agreement everywhere (`TablesAgree`).

For `FourWay`, an operation on vectors acts on each column (`VectorOps`); then so does every layer, one
after the other, a round (`RoundApplied`), and any number of them (`Permuted`). Loads are
little-endian numbers (`Loaded`), so blocks, padding, length and stores agree as well. The
invariant adds types to the two properties.

For the analyzer, `SmokeInv` says that the table holds the keys of all attempts, each behind a run of full
slots from its home, round the end (`NotPassed` then lets a search conclude from a free slot).
`ScanInv` relates counts to the states drawn in the turn and the best pair to the turns before;
`MeasureInv` relates the sums of a round of `--all` to the permutation, if it commutes with rotations or
obeys a linear relation.

For `Hash4`, the bytes of a message that no earlier slot overlaps are those passed when its turn
comes, and the slots done so far hold their digests. No property of the hash is needed.

**Only model-checked.** `Termination` of tree mode and of the analyzer: liveness under fairness is out
of the prover's reach. Of tree mode's, `WorkDiminishes` is the half that is not about fairness; that some
thread can step until the call has returned, and that preads are not interrupted for ever, is what the
run adds. `LongInputTells`, at one length of every remainder modulo 257: why 1777 bytes suffice is a coincidence
of the harness's 17, 257 and 128. `CompletePicture` is violated (section 5).

## 5 A finding

The usage text of `tools/frogbard_absurd_test.sh` (lines 73-74) says the script "continues
through independent failures so you get a complete diagnostic picture". A few tests stand before
a bare `|| return`, which passes their status on; under `set -e` the phase's failure then ends
`main`, with the later phases not run and no summary written. The run `harness_report` shows it:
the coverage build fails, and the script stops before `report_summary`.

## 6 What is not modelled

* **The circuit** `frogbard_aes_sbox.inc` gate by gate, and the generation of round constants and the
  initial state by SHAKE in `gen_tables.py`: constants of the models. Nothing here is about the
  quality of the hash.
* **Analyzer.** `invariant_smoke`, which prints whether four fixed states stay symmetric, and the
  loop of `inverse_test`, which is what `permute` and `PermuteRetraces` are about; the printing of
  quotients.
* **Printing.** `puts` failing in the command line: the code ignores it.
* **Makefile, the commands the test script runs, the generated assembly.** Nothing to check by
  state exploration.
* In tree mode: `FD_CLOEXEC`, alignment and strides of buffers, wiping of digests on the stack
  (line 141) and of a worker's buffers (line 150, which the failing worker's return at line 126
  goes past), the test for a null `stats`, and the tests that cannot fire for the sizes a file has
  (an offset beyond `INT64_MAX`, a level larger than the address space).

## 7 Plan

Done, in this order, the most important behaviour first: tree mode with its abstract call, its
invariant and its proofs; streaming; the one-shot and four-way calls; the test script; the
permutation with its proof; the vector sponge; the command line; the analyzer's table; the
output overlapping its inputs; the S-boxes and their generator; the self-test and the fuzzer; the
analyzer's scans; the proofs about the sponge, the padding and the command line; those about the
four-way sponge, the S-boxes, the analyzer and the test programs; the refinement of `TreeCall`; the
work tree mode has left, what its digest tells, the permutation as a function, and the code's words.

Next: `TreeCall` under `Cli`, that is, `-T` composed with the tree call itself instead of a success or a
failure.
