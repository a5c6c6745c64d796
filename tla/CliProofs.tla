----------------------------- MODULE CliProofs -----------------------------
(***************************************************************************)
(* Cli for every size of the read buffer, every stream and every way fread *)
(* cuts it: what an exit tells the caller is true, files are closed, and   *)
(* the thread count is the one that was written.  SpongeCtxProofs says     *)
(* what the context holds after each turn of the read loop.                *)
(***************************************************************************)
EXTENDS Cli, SpongeCtxProofs

Streams == {"-f path", "-f -"}

\* hash_file_stream holds a context open over what the stream has delivered.
Reading ==
    /\ command.name \in Streams
    /\ opened = IF command.name = "-f path" THEN 1 ELSE 0
    /\ stdout = << >> /\ faults = {} /\ threads = -1
    /\ ctx \in Context /\ taken \in Seq(Bytes) /\ ctx.v.rounds = MaxRounds
    /\ Holds(ctx, taken) /\ Counts(ctx, taken)

IInv ==
    /\ command \in Commands
    /\ pc \in {"main", "read", "close", "final", "exited"}
    /\ pc = "main" => /\ opened = 0 /\ closed = 0 /\ threads = -1
                      /\ stdout = << >> /\ faults = {} /\ taken = << >>
    /\ pc \in {"read", "close", "final"} => Reading
    /\ pc \in {"read", "close"} => closed = 0
    /\ pc = "final" => closed = opened
    /\ pc \in {"close", "final"} => atEnd
    /\ pc = "exited" => /\ opened \in {0, 1} /\ closed = opened
                        /\ command.name = "-f -" => opened = 0
                        /\ ResultTrue /\ ThreadsAsked

-----------------------------------------------------------------------------

LEMMA RadixPositive == WordRadix \in Nat /\ MaxData \in Nat /\ MaxData < WordRadix
BY CliAssumption, BlockAssumption

\* What strtoul returns for a text that is accepted.
LEMMA AcceptedNumber ==
    ASSUME NEW text \in Texts, Accepted(text)
    PROVE  /\ Strtoul(text) \in 1 .. MaxJobs
           /\ ~text.neg => Strtoul(text) = text.written
           /\ text.neg => Strtoul(text) + text.written = UlongRadix
<1>1. PICK U \in Nat \ {0} : U = UlongRadix
  BY CliAssumption
<1>2. PICK w \in Nat : w = text.written /\ w < U
  BY <1>1, CliAssumption DEF Texts, Accepted, OutOfRange
<1>3. text.neg \in BOOLEAN /\ MaxJobs \in Nat
  BY CliAssumption DEF Texts
<1>4. Strtoul(text) = IF text.neg THEN (U - w) % U ELSE w
  BY <1>1, <1>2 DEF Strtoul, OutOfRange
<1>5. Strtoul(text) # 0 /\ Strtoul(text) <= MaxJobs
  BY DEF Accepted
<1>6. CASE ~text.neg
  BY <1>1, <1>2, <1>3, <1>4, <1>5, <1>6
<1>7. CASE text.neg
  <2>1. CASE w = 0
    <3>1. (U - w) % U = 0
      BY <2>1
    <3> QED
      BY <3>1, <1>4, <1>5, <1>7
  <2>2. CASE w # 0
    <3>1. (U - w) % U = U - w /\ U - w \in Nat
      BY <2>2, <1>2
    <3> QED
      BY <3>1, <1>1, <1>2, <1>3, <1>4, <1>5, <1>7
  <2> QED
    BY <2>1, <2>2
<1> QED
  BY <1>3, <1>6, <1>7

LEMMA TextGiven ==
    ASSUME command \in Commands, command.name = "-T -j"
    PROVE  command.text \in Texts
BY DEF Commands

LEMMA Delivered ==
    ASSUME NEW n \in Nat, n < WordRadix, NEW d \in Strings(n)
    PROVE  d \in Seq(Bytes) /\ Len(d) <= n /\ Len(d) < WordRadix
<1>1. WordRadix \in Nat
  BY RadixPositive
<1> QED
  BY <1>1 DEF Strings

\* The digest of a message hashed in one update.
LEMMA OneUpdate ==
    ASSUME NEW d \in Seq(Bytes), Len(d) < WordRadix
    PROVE  FinalDigest(UpdateCtx(InitCtx(MaxRounds), d)) = MessageDigest(d, MaxRounds)
<1> DEFINE u == UpdateCtx(InitCtx(MaxRounds), d)
<1>1. << >> \in Seq(Bytes) /\ << >> \o d = d
  OBVIOUS
<1>2. u \in Context /\ u.v.rounds = MaxRounds /\ Holds(u, << >> \o d) /\ Counts(u, << >> \o d)
  BY <1>1, WipedContext, Updated
<1> HIDE DEF u
<1>3. FinalDigest(u) = MessageDigest(d, MaxRounds)
  BY <1>1, <1>2, Finished
<1> QED
  BY <1>3 DEF u

-----------------------------------------------------------------------------
(* The steps.                                                              *)

\* A step to an exit.
LEMMA Exits ==
    ASSUME IInv, pc' = "exited", UNCHANGED command, opened' \in {0, 1}, closed' = opened',
           command.name = "-f -" => opened' = 0, ResultTrue', ThreadsAsked'
    PROVE  IInv'
BY Zenon DEF IInv

\* Nothing was printed.
LEMMA Silent ==
    ASSUME stdout' = << >>, UNCHANGED command, status' = 1 <=> faults' # {},
           ~(status' = 0 /\ command.name \in Hashing)
    PROVE  ResultTrue'
<1>1. Len(stdout') # 1
  OBVIOUS
<1> QED
  BY <1>1, Zenon DEF ResultTrue

LEMMA NoThreads == ASSUME threads' = -1 PROVE ThreadsAsked'
BY DEF ThreadsAsked

\* Nothing was opened.
LEMMA AtMain ==
    ASSUME IInv, pc = "main"
    PROVE  /\ opened = 0 /\ closed = 0 /\ threads = -1
           /\ stdout = << >> /\ faults = {} /\ taken = << >>
BY Zenon DEF IInv

LEMMA StepInform == ASSUME IInv, Inform PROVE IInv'
<1>1. /\ pc = "main" /\ pc' = "exited" /\ stdout' = << >> /\ status' # 1
      /\ UNCHANGED <<command, opened, closed, threads, faults>>
  BY DEF Inform, Asked, Exit
<1>2. ~(status' = 0 /\ command.name \in Hashing)
  BY DEF Inform, Asked, Exit, Hashing
<1>3. opened = 0 /\ closed = 0 /\ threads = -1 /\ faults' = {}
  BY <1>1, AtMain
<1>4. ResultTrue'
  BY <1>1, <1>2, <1>3, Silent
<1> QED
  BY <1>1, <1>3, <1>4, NoThreads, Exits

LEMMA StepSelfTest == ASSUME IInv, SelfTest PROVE IInv'
<1>1. /\ pc = "main" /\ command.name = "self-test" /\ pc' = "exited" /\ stdout' = << >>
      /\ UNCHANGED <<command, opened, closed, threads>>
  BY DEF SelfTest, Asked, Exit
<1>2. opened = 0 /\ closed = 0 /\ threads = -1 /\ faults = {}
  BY <1>1, AtMain
<1>3. status' = 1 <=> faults' # {}
  <2>1. CASE status' = 0 /\ faults' = {}
    BY <2>1
  <2>2. CASE status' = 1 /\ faults' = {"self-test"}
    BY <2>2
  <2> QED
    BY <2>1, <2>2, <1>2 DEF SelfTest, Exit
<1>4. ~(command.name \in Hashing)
  BY <1>1 DEF Hashing
<1>5. ResultTrue'
  BY <1>1, <1>3, <1>4, Silent
<1> QED
  BY <1>1, <1>2, <1>5, NoThreads, Exits

LEMMA StepHashString == ASSUME IInv, HashString PROVE IInv'
<1>1. PICK data \in Strings(MaxData) :
         /\ taken' = data
         /\ Exit(0, <<FinalDigest(UpdateCtx(InitCtx(MaxRounds), data))>>)
  BY DEF HashString
<1>2. FinalDigest(UpdateCtx(InitCtx(MaxRounds), data)) = MessageDigest(data, MaxRounds)
  BY RadixPositive, Delivered, OneUpdate
<1>3. /\ pc = "main" /\ pc' = "exited" /\ command.name = "-s" /\ atEnd' = TRUE
      /\ status' = 0 /\ stdout' = <<MessageDigest(taken', MaxRounds)>>
      /\ UNCHANGED <<command, opened, closed, threads, faults>>
  BY <1>1, <1>2 DEF HashString, Asked, Exit
<1>4. opened = 0 /\ closed = 0 /\ threads = -1 /\ faults = {}
  BY <1>3, AtMain
<1>5. ResultTrue'
  <2>1. Len(stdout') = 1 /\ stdout'[1] = MessageDigest(taken', MaxRounds)
    BY <1>3
  <2>2. command' = command /\ command.name \in Hashing
    BY <1>3 DEF Hashing
  <2>3. ~(status' = 1) /\ faults' = {}
    BY <1>3, <1>4
  <2> QED
    BY <2>1, <2>2, <2>3, <1>3, Zenon DEF ResultTrue
<1> QED
  BY <1>3, <1>4, <1>5, NoThreads, Exits

LEMMA StepOpenStream == ASSUME IInv, OpenStream PROVE IInv'
<1>1. pc = "main" /\ UNCHANGED command /\ command.name \in Streams
  BY DEF OpenStream, Asked, Streams
<1>2. /\ opened = 0 /\ closed = 0 /\ threads = -1
      /\ stdout = << >> /\ faults = {} /\ taken = << >>
  BY <1>1, AtMain
<1>3. CASE pc' = "exited"
  <2>1. /\ stdout' = << >> /\ status' = 1 /\ faults' = {"fopen"}
        /\ UNCHANGED <<opened, closed, threads>>
    BY <1>3 DEF OpenStream, Exit
  <2>2. (status' = 1 <=> faults' # {}) /\ ~(status' = 0 /\ command.name \in Hashing)
    BY <2>1
  <2> QED
    BY <2>1, <2>2, <1>1, <1>2, <1>3, Silent, NoThreads, Exits
<1>4. CASE pc' # "exited"
  <2>1. /\ pc' = "read" /\ ctx' = InitCtx(MaxRounds) /\ taken' = taken
        /\ opened' = IF command.name = "-f path" THEN 1 ELSE 0
        /\ UNCHANGED <<closed, threads, stdout, faults>>
    BY <1>4 DEF OpenStream, Exit
  <2>2. Reading'
    <3>0. << >> \in Seq(Bytes)
      OBVIOUS
    <3>1. taken' = << >> /\ ctx' = InitCtx(MaxRounds) /\ << >> \in Seq(Bytes)
      BY <3>0, <2>1, <1>2, Zenon
    <3>2. /\ ctx' \in Context /\ ctx'.v.rounds = MaxRounds
          /\ Holds(ctx', taken') /\ Counts(ctx', taken')
      BY <3>1, WipedContext
    <3> QED
      BY <2>1, <3>1, <3>2, <1>1, <1>2, Zenon DEF Reading
  <2>3. command' \in Commands
    BY <1>1 DEF IInv
  <2> QED
    BY <2>1, <2>2, <2>3, <1>2 DEF IInv
<1> QED
  BY <1>3, <1>4

LEMMA StepFread == ASSUME IInv, Fread PROVE IInv'
<1>1. PICK data \in Strings(IoBytes), failed \in BOOLEAN :
         /\ Len(taken) + Len(data) <= MaxData
         /\ taken' = taken \o data
         /\ ctx' = UpdateCtx(ctx, data)
         /\ faults' = IF failed THEN faults \cup {"fread"} ELSE faults
         /\ atEnd' = (Len(data) < IoBytes /\ ~failed)
         /\ \/ /\ Len(data) = IoBytes /\ ~failed
               /\ UNCHANGED <<pc, stdout, status, closed>>
            \/ /\ Len(data) < IoBytes /\ failed
               /\ closed' = opened /\ Exit(1, << >>)
            \/ /\ Len(data) < IoBytes /\ ~failed
               /\ pc' = "close" /\ UNCHANGED <<stdout, status, closed>>
  BY DEF Fread, ReadFailed, GiveUp
<1>2. pc = "read" /\ Reading /\ closed = 0 /\ UNCHANGED <<command, opened, threads>>
  BY Zenon DEF Fread, IInv
<1>3. data \in Seq(Bytes) /\ Len(data) < WordRadix /\ taken \in Seq(Bytes)
  <2>1. data \in Seq(Bytes) /\ Len(data) \in Nat /\ taken \in Seq(Bytes) /\ Len(taken) \in Nat
    <3>1. data \in Seq(Bytes)
      BY DEF Strings
    <3>2. taken \in Seq(Bytes)
      BY <1>2 DEF Reading
    <3> QED
      BY <3>1, <3>2
  <2>2. PICK a \in Nat, b \in Nat : a = Len(data) /\ b = Len(taken)
    BY <2>1
  <2> QED
    BY <2>1, <2>2, <1>1, RadixPositive
<1>4. /\ ctx' \in Context /\ ctx'.v.rounds = MaxRounds
      /\ Holds(ctx', taken') /\ Counts(ctx', taken')
  <2>1. /\ ctx \in Context /\ ctx.v.rounds = MaxRounds
        /\ Holds(ctx, taken) /\ Counts(ctx, taken)
    BY <1>2 DEF Reading
  <2> QED
    BY <2>1, <1>1, <1>3, Updated
<1>5. taken' \in Seq(Bytes) /\ command' \in Commands
  BY <1>1, <1>2, <1>3 DEF IInv
<1>6. CASE failed
  <2>1. /\ pc' = "exited" /\ stdout' = << >> /\ status' = 1
        /\ closed' = opened /\ faults' = {"fread"}
    BY <1>1, <1>2, <1>6 DEF Exit, Reading
  <2>2. opened' \in {0, 1} /\ closed' = opened' /\ threads' = -1
        /\ (command.name = "-f -" => opened' = 0)
    BY <1>2, <2>1 DEF Reading
  <2>3. ResultTrue'
    <3>1. (status' = 1 <=> faults' # {}) /\ ~(status' = 0 /\ command.name \in Hashing)
      BY <2>1
    <3> QED
      BY <2>1, <3>1, <1>2, Silent
  <2> QED
    BY <2>1, <2>2, <2>3, <1>2, NoThreads, Exits
<1>7. CASE ~failed
  <2>1. /\ faults' = faults /\ UNCHANGED <<stdout, closed>>
        /\ pc' \in {"read", "close"} /\ (pc' = "close" => atEnd')
    BY <1>1, <1>2, <1>7
  <2>2. Reading'
    BY <2>1, <1>2, <1>4, <1>5, Zenon DEF Reading
  <2> QED
    BY <2>1, <2>2, <1>2, <1>5 DEF IInv
<1> QED
  BY <1>6, <1>7

LEMMA StepCloseStream == ASSUME IInv, CloseStream PROVE IInv'
<1>1. /\ pc = "close" /\ Reading /\ atEnd /\ closed' = opened
      /\ UNCHANGED <<command, ctx, opened, threads, taken, atEnd>>
  BY Zenon DEF CloseStream, IInv
<1>2. command' \in Commands
  BY <1>1 DEF IInv
<1>3. CASE pc' = "final" /\ UNCHANGED <<stdout, status, faults>>
  <2>1. Reading'
    BY <1>1, <1>3 DEF Reading
  <2> QED
    BY <2>1, <1>1, <1>2, <1>3 DEF IInv
<1>4. CASE opened = 1 /\ Exit(1, << >>) /\ faults' = {"fclose"}
  <2>1. pc' = "exited" /\ stdout' = << >> /\ status' = 1
    BY <1>4 DEF Exit
  <2>2. opened' \in {0, 1} /\ closed' = opened' /\ threads' = -1
        /\ (command.name = "-f -" => opened' = 0)
    BY <1>1 DEF Reading
  <2>3. ResultTrue'
    <3>1. (status' = 1 <=> faults' # {}) /\ ~(status' = 0 /\ command.name \in Hashing)
      BY <2>1, <1>4
    <3> QED
      BY <2>1, <3>1, <1>1, Silent
  <2> QED
    BY <2>1, <2>2, <2>3, <1>1, NoThreads, Exits
<1> QED
  BY <1>3, <1>4 DEF CloseStream

LEMMA StepPrintDigest == ASSUME IInv, PrintDigest PROVE IInv'
<1>1. /\ pc = "final" /\ Reading /\ atEnd /\ closed = opened
      /\ pc' = "exited" /\ status' = 0 /\ stdout' = <<FinalDigest(ctx)>>
      /\ UNCHANGED <<command, opened, closed, threads, taken, atEnd, faults>>
  BY Zenon DEF PrintDigest, IInv, Exit
<1>2. FinalDigest(ctx) = MessageDigest(taken, MaxRounds)
  BY <1>1, Finished DEF Reading
<1>3. opened' \in {0, 1} /\ closed' = opened' /\ threads' = -1 /\ faults' = {}
      /\ (command.name = "-f -" => opened' = 0) /\ command.name \in Hashing
  BY <1>1 DEF Reading, Streams, Hashing
<1>4. ResultTrue'
  <2>1. Len(stdout') = 1 /\ stdout'[1] = MessageDigest(taken', MaxRounds) /\ ~(status' = 1)
    BY <1>1, <1>2
  <2> QED
    BY <2>1, <1>1, <1>3, Zenon DEF ResultTrue
<1> QED
  BY <1>1, <1>3, <1>4, NoThreads, Exits

LEMMA StepTreeFile == ASSUME IInv, TreeFile PROVE IInv'
<1>1. /\ pc = "main" /\ command.name \in {"-T", "-T -j"} /\ pc' = "exited"
      /\ \/ status' = 0 /\ stdout' = <<TreeAnswer>> /\ faults' = faults
         \/ status' = 1 /\ stdout' = << >> /\ faults' = {"frogbard_tree_hash_file"}
      /\ UNCHANGED <<command, opened, closed>>
  BY DEF TreeFile, Asked, Exit
<1>2. opened = 0 /\ closed = 0 /\ faults = {}
  BY <1>1, AtMain
<1>3. ThreadsAsked'
  <2>1. CASE command.name = "-T"
    <3>1. threads' = 0
      BY <2>1 DEF TreeFile, Asked
    <3> QED
      BY <2>1, <3>1, <1>1 DEF ThreadsAsked
  <2>2. CASE command.name = "-T -j"
    <3>1. Accepted(command.text) /\ threads' = Strtoul(command.text)
      BY <2>2 DEF TreeFile, Asked
    <3>2. command.text \in Texts
      BY <2>2, TextGiven DEF IInv
    <3>3. /\ threads' \in 1 .. MaxJobs
          /\ ~command.text.neg => threads' = command.text.written
          /\ command.text.neg => threads' + command.text.written = UlongRadix
      BY <3>1, <3>2, AcceptedNumber
    <3> QED
      BY <2>2, <3>3, <1>1, Zenon DEF ThreadsAsked
  <2> QED
    BY <2>1, <2>2, <1>1
<1>4. ResultTrue'
  <2>1. CASE status' = 0 /\ stdout' = <<TreeAnswer>> /\ faults' = faults
    <3>1. Len(stdout') = 1 /\ ~(status' = 1)
      BY <2>1
    <3>2. faults' = {} /\ command' = command
      BY <2>1, <1>1, <1>2
    <3>3. command.name \in Hashing /\ ~(command.name \in {"-s", "-f path", "-f -"})
      BY <1>1 DEF Hashing
    <3> QED
      BY <2>1, <3>1, <3>2, <3>3, Zenon DEF ResultTrue
  <2>2. CASE status' = 1 /\ stdout' = << >> /\ faults' = {"frogbard_tree_hash_file"}
    <3>1. (status' = 1 <=> faults' # {}) /\ ~(status' = 0 /\ command.name \in Hashing)
      BY <2>2
    <3> QED
      BY <2>2, <3>1, <1>1, Silent
  <2> QED
    BY <2>1, <2>2, <1>1
<1> QED
  BY <1>1, <1>2, <1>3, <1>4, Exits

LEMMA StepRejectThreads == ASSUME IInv, RejectThreads PROVE IInv'
<1>1. /\ pc = "main" /\ pc' = "exited" /\ stdout' = << >> /\ status' = 2
      /\ UNCHANGED <<command, opened, closed, threads, faults>>
  BY DEF RejectThreads, Asked, Exit
<1>2. opened = 0 /\ closed = 0 /\ threads = -1 /\ faults' = {}
  BY <1>1, AtMain
<1>3. ResultTrue'
  <2>1. ~(status' = 1) /\ ~(status' = 0)
    BY <1>1
  <2> QED
    BY <2>1, <1>1, <1>2, Silent
<1> QED
  BY <1>1, <1>2, <1>3, NoThreads, Exits

LEMMA Invariant == Spec => []IInv
<1>1. Init => IInv
  BY DEF Init, IInv
<1>2. IInv /\ [Next]_vars => IInv'
  <2> SUFFICES ASSUME IInv, [Next]_vars PROVE IInv'
    OBVIOUS
  <2>1. CASE UNCHANGED vars
    BY <2>1, Zenon DEF vars, IInv, Reading, ResultTrue, ThreadsAsked
  <2> QED
    BY <2>1, StepInform, StepSelfTest, StepHashString, StepOpenStream, StepFread,
       StepCloseStream, StepPrintDigest, StepTreeFile, StepRejectThreads
       DEF Next, Exited
<1> QED
  BY <1>1, <1>2, PTL DEF Spec

-----------------------------------------------------------------------------
(* The theorems.                                                           *)

\* A status of 0 comes with one digest, that of every byte of the string or the stream,
\* however fread cut it; any other status comes with none and, if it is 1, for a failure.
THEOREM ExitsAreTrue == Spec => []ResultTrue
<1>1. IInv => ResultTrue
  BY Zenon DEF IInv, ResultTrue
<1> QED
  BY <1>1, Invariant, PTL

\* A file that was opened is closed, once, on every path; standard input is left open.
THEOREM FilesAreClosed == Spec => []StreamsGivenBack
<1>1. IInv => StreamsGivenBack
  <2> SUFFICES ASSUME IInv PROVE StreamsGivenBack
    OBVIOUS
  <2>1. CASE pc = "main"
    BY <2>1 DEF IInv, StreamsGivenBack
  <2>2. CASE pc \in {"read", "close", "final"}
    <3>1. Reading /\ (pc \in {"read", "close"} => closed = 0) /\ (pc = "final" => closed = opened)
      BY <2>2 DEF IInv
    <3>2. opened \in {0, 1} /\ (command.name = "-f -" => opened = 0)
      BY <3>1 DEF Reading
    <3>3. closed <= opened /\ (pc \in {"final", "exited"} => closed = opened)
          /\ (pc = "read" => closed = 0)
      <4>1. closed = 0 \/ closed = opened
        BY <2>2, <3>1
      <4>2. closed \in 0 .. 1 /\ opened \in 0 .. 1 /\ closed <= opened
        <5>1. opened = 0 \/ opened = 1
          BY <3>2
        <5> QED
          BY <4>1, <5>1
      <4>3. pc # "exited" /\ (pc = "final" => closed = opened) /\ (pc = "read" => closed = 0)
        BY <2>2, <3>1
      <4> QED
        BY <4>2, <4>3
    <3> QED
      BY <3>2, <3>3 DEF StreamsGivenBack
  <2>3. CASE pc = "exited"
    <3>1. opened \in {0, 1} /\ closed = opened /\ (command.name = "-f -" => opened = 0)
      BY <2>3, Zenon DEF IInv
    <3>2. closed <= opened
      <4>1. CASE opened = 0
        BY <4>1, <3>1
      <4>2. CASE opened = 1
        <5>1. closed = 1 /\ opened = 1
          BY <4>2, <3>1, Zenon
        <5> QED
          BY <5>1
      <4> QED
        BY <3>1, <4>1, <4>2
    <3>3. pc # "read"
      BY <2>3
    <3> QED
      BY <3>1, <3>2, <3>3, Zenon DEF StreamsGivenBack
  <2> QED
    BY <2>1, <2>2, <2>3 DEF IInv
<1> QED
  BY <1>1, Invariant, PTL

\* The tree call is given the thread count that was written, never 0 for a number.
THEOREM ThreadsAreAsked == Spec => []ThreadsAsked
<1>1. IInv => ThreadsAsked
  <2> SUFFICES ASSUME IInv, threads # -1 PROVE ThreadsAsked
    BY DEF ThreadsAsked
  <2>1. pc = "exited"
    BY DEF IInv, Reading
  <2> QED
    BY <2>1 DEF IInv
<1> QED
  BY <1>1, Invariant, PTL
=============================================================================
