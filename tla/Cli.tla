-------------------------------- MODULE Cli --------------------------------
(***************************************************************************)
(* The program frogbard (src/src/frogbard_cli.c): what its arguments ask   *)
(* for, the read loop of -f over a stream that may come in pieces and      *)
(* fail, the thread count of -T, and the digest and the exit status the    *)
(* caller sees.                                                            *)
(***************************************************************************)
EXTENDS SpongeCtx

CONSTANTS
    IoBytes,       \* sizeof(io_buffer)
    MaxData,       \* bound: bytes a stream delivers, or a string has
    UlongRadix,    \* ULONG_MAX + 1
    MaxJobs,       \* 1024, the largest argument of -j
    MaxWritten,    \* bound: numbers written as an argument of -j
    TreeAnswer     \* the digest frogbard_tree_hash_file stores

ASSUME CliAssumption ==
    /\ IoBytes \in Nat \ {0} /\ MaxData \in Nat /\ MaxData < WordRadix
    /\ UlongRadix \in Nat /\ MaxJobs \in Nat \ {0} /\ MaxJobs < UlongRadix
    /\ MaxWritten \in Nat

VARIABLES
    command,       \* what argv asks for
    pc,            \* "main", "read", "close", "final" or "exited"
    ctx,           \* hash_file_stream's context
    opened, closed,\* streams fopen gave and fclose took
    threads,       \* the thread count the tree call was given; -1 before
    stdout,        \* the digests printed
    status,        \* the exit status; -1 while the program runs
    taken, atEnd,  \* ghosts: the bytes the stream delivered; whether it ended
    faults         \* ghost: the calls that failed

vars == <<command, pc, ctx, opened, closed, threads, stdout, status, taken, atEnd, faults>>

\* A number as strtoul reads it, and whether other characters follow it or
\* stand in its place.
Texts == [neg : BOOLEAN, written : 0 .. MaxWritten, junk : BOOLEAN]

Commands == [name : {"none", "info", "self-test", "-s", "-f path", "-f -", "-T", "wrong"}]
            \cup [name : {"-T -j"}, text : Texts]

Strings(n) == UNION {[1 .. m -> Bytes] : m \in 0 .. n}

-----------------------------------------------------------------------------
(* parse_threads.                                                          *)

OutOfRange(text) == text.written >= UlongRadix          \* errno = ERANGE
Strtoul(text) ==
    IF OutOfRange(text) THEN UlongRadix - 1
    ELSE IF text.neg THEN (UlongRadix - text.written) % UlongRadix ELSE text.written

\* Faulty: 0 is let through, which the tree call takes for no number at all.
AcceptedZero(text) == ~OutOfRange(text) /\ ~text.junk /\ Strtoul(text) <= MaxJobs

Accepted(text) ==
    /\ ~OutOfRange(text) /\ ~text.junk
    /\ Strtoul(text) # 0 /\ Strtoul(text) <= MaxJobs

-----------------------------------------------------------------------------
Init ==
    /\ command \in Commands /\ pc = "main"
    /\ ctx = Wiped
    /\ opened = 0 /\ closed = 0
    /\ threads = -1
    /\ stdout = << >> /\ status = -1
    /\ taken = << >> /\ atEnd = FALSE
    /\ faults = {}

Asked(name) == pc = "main" /\ command.name = name

\* return from main.
Exit(code, digests) == pc' = "exited" /\ status' = code /\ stdout' = digests

\* Everything that hashes nothing: the usage text, --version and --backend.
Inform ==
    /\ \/ Asked("none")  /\ Exit(0, << >>)
       \/ Asked("info")  /\ Exit(0, << >>)
       \/ Asked("wrong") /\ Exit(2, << >>)
    /\ UNCHANGED <<command, ctx, opened, closed, threads, taken, atEnd, faults>>

SelfTest ==
    /\ Asked("self-test")
    /\ \/ Exit(0, << >>) /\ UNCHANGED faults
       \/ Exit(1, << >>) /\ faults' = {"self-test"}
    /\ UNCHANGED <<command, ctx, opened, closed, threads, taken, atEnd>>

HashString ==
    /\ Asked("-s")
    /\ \E data \in Strings(MaxData) :
          /\ taken' = data
          /\ Exit(0, <<FinalDigest(UpdateCtx(InitCtx(MaxRounds), data))>>)
    /\ atEnd' = TRUE
    /\ UNCHANGED <<command, ctx, opened, closed, threads, faults>>

\* hash_file_stream up to its loop.
OpenStream ==
    \/ /\ Asked("-f path")
       /\ Exit(1, << >>) /\ faults' = {"fopen"}
       /\ UNCHANGED <<command, ctx, opened, closed, threads, taken, atEnd>>
    \/ /\ Asked("-f path") \/ Asked("-f -")
       /\ opened' = IF command.name = "-f path" THEN 1 ELSE 0
       /\ ctx' = InitCtx(MaxRounds)
       /\ pc' = "read"
       /\ UNCHANGED <<command, closed, threads, stdout, status, taken, atEnd, faults>>

\* Faulty: the file stays open.
GiveUpOpen == UNCHANGED closed

\* The caller's half of a failed read: fclose, unless the stream is stdin.
GiveUp == closed' = opened

\* Faulty: ferror is not asked.
ReadFailedNot(failed) == FALSE

\* What ferror says after a short count.
ReadFailed(failed) == failed

\* One turn of the loop.  fread goes on until the buffer is full, the stream ends
\* or a read fails; what it got before a failure is counted and hashed.
Fread ==
    /\ pc = "read"
    /\ \E data \in Strings(IoBytes), failed \in BOOLEAN :
          /\ Len(taken) + Len(data) <= MaxData
          /\ failed => Len(data) < IoBytes
          /\ taken' = taken \o data
          /\ ctx' = UpdateCtx(ctx, data)
          /\ faults' = IF failed THEN faults \cup {"fread"} ELSE faults
          /\ atEnd' = (Len(data) < IoBytes /\ ~failed)
          /\ \/ /\ Len(data) = IoBytes
                /\ UNCHANGED <<pc, stdout, status, closed>>
             \/ /\ Len(data) < IoBytes /\ ReadFailed(failed)
                /\ GiveUp
                /\ Exit(1, << >>)
             \/ /\ Len(data) < IoBytes /\ ~ReadFailed(failed)
                /\ pc' = "close"
                /\ UNCHANGED <<stdout, status, closed>>
    /\ UNCHANGED <<command, opened, threads>>

\* fclose, which releases the stream also when it fails.
CloseStream ==
    /\ pc = "close"
    /\ closed' = opened
    /\ \/ pc' = "final" /\ UNCHANGED <<stdout, status, faults>>
       \/ opened = 1 /\ Exit(1, << >>) /\ faults' = {"fclose"}
    /\ UNCHANGED <<command, ctx, opened, threads, taken, atEnd>>

\* frogbard_final, print_hex and the return from main.
PrintDigest ==
    /\ pc = "final"
    /\ Exit(0, <<FinalDigest(ctx)>>)
    /\ ctx' = Wiped
    /\ UNCHANGED <<command, opened, closed, threads, taken, atEnd, faults>>

\* -T, with the tree call as it looks from outside.
TreeFile ==
    /\ \/ Asked("-T") /\ threads' = 0
       \/ Asked("-T -j") /\ Accepted(command.text) /\ threads' = Strtoul(command.text)
    /\ \/ Exit(0, <<TreeAnswer>>) /\ UNCHANGED faults
       \/ Exit(1, << >>) /\ faults' = {"frogbard_tree_hash_file"}
    /\ UNCHANGED <<command, ctx, opened, closed, taken, atEnd>>

RejectThreads ==
    /\ Asked("-T -j") /\ ~Accepted(command.text)
    /\ Exit(2, << >>)
    /\ UNCHANGED <<command, ctx, opened, closed, threads, taken, atEnd, faults>>

Exited == pc = "exited" /\ UNCHANGED vars

Next == \/ Inform \/ SelfTest \/ HashString \/ OpenStream \/ Fread \/ CloseStream
        \/ PrintDigest \/ TreeFile \/ RejectThreads \/ Exited

Spec == Init /\ [][Next]_vars

-----------------------------------------------------------------------------
(* Properties.                                                             *)

Hashing == {"-s", "-f path", "-f -", "-T", "-T -j"}

\* What a caller may conclude from an exit (frogbard_cli.c:38-66, 122-160): a
\* status of 0 comes with exactly one digest, any other with none and for a
\* reason; and the digest of -s and -f is that of every byte the string or the
\* stream had, also if it ended at a full buffer or a read failed part-way.
ResultTrue ==
    pc = "exited" =>
        /\ (status = 0 /\ command.name \in Hashing) <=> Len(stdout) = 1
        /\ status = 1 <=> faults # {}
        /\ (stdout # << >> /\ command.name \in {"-s", "-f path", "-f -"}) =>
              atEnd /\ stdout[1] = MessageDigest(taken, MaxRounds)

\* On every path out of hash_file_stream (frogbard_cli.c:45-60) a file it opened
\* is closed, once, and standard input is left open; nothing is read
\* once it is closed.
StreamsGivenBack ==
    /\ closed <= opened
    /\ pc \in {"final", "exited"} => closed = opened
    /\ pc = "read" => closed = 0
    /\ command.name = "-f -" => opened = 0

\* parse_threads (frogbard_cli.c:68-79) hands on the number that was written, in
\* range; 0, which the tree call takes for "choose", only if there was none.  A
\* negative number gets through if it lies that close below zero modulo the word.
ThreadsAsked ==
    threads # -1 =>
        IF command.name = "-T" THEN threads = 0
        ELSE /\ threads \in 1 .. MaxJobs
             /\ ~command.text.neg => threads = command.text.written
             /\ command.text.neg => threads + command.text.written = UlongRadix
=============================================================================
