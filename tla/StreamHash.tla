----------------------------- MODULE StreamHash -----------------------------
(***************************************************************************)
(* What the streaming calls promise: a caller who opens a hash, feeds a    *)
(* message in any pieces and closes it gets the digest defined for the     *)
(* whole message.                                                          *)
(***************************************************************************)
EXTENDS HashEncoding

VARIABLES
    open,          \* a hash has been opened and not closed
    message,       \* what has been fed to it
    digest         \* what closing it returned

streamVars == <<open, message, digest>>

StreamInit == open = FALSE /\ message = << >> /\ digest = NoDigest

OpenStream == open' = TRUE /\ message' = << >> /\ digest' = NoDigest

\* Another piece of the message, possibly empty.
Feed ==
    /\ open
    /\ message' \in Seq(Bytes)
    /\ Len(message') >= Len(message)
    /\ SubSeq(message', 1, Len(message)) = message
    /\ UNCHANGED <<open, digest>>

Close ==
    /\ open
    /\ digest' = MessageDigest(message, MaxRounds)
    /\ open' = FALSE
    /\ UNCHANGED message

StreamNext == OpenStream \/ Feed \/ Close
StreamSpec == StreamInit /\ [][StreamNext]_streamVars
=============================================================================
