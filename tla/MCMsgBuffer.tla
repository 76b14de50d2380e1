---------------------------- MODULE MCMsgBuffer ----------------------------
(* MsgBuffer for TLC: two types of messages, with two and three bytes after *)
(* the header.                                                             *)
EXTENDS MsgBuffer

MCType == {"R", "S"}
MCDataSize == [t \in MCType |-> IF t = "R" THEN 5 ELSE 6]
MCObjectSize == [t \in MCType |-> IF t = "R" THEN 7 ELSE 8]

\* Whole and cut messages without the byte b in their data.
Without(b) == {m \in Message : b \notin Range(From(m, MIN_SIZE + 1))}
Pieces(b) == {Whole(m) : m \in Without(b)}
CutPieces(b) == {Cut(m, n) : m \in {w \in Without(b) : Len(w) = 6}, n \in 1 .. 5}

\* Three messages, or two and one before them or between whose write was short.
Streams3(b) ==
    {<<p, q, r>> : p \in Pieces(b), q \in Pieces(b) \cup CutPieces(b), r \in Pieces(b)}
    \cup {<<p, q, r>> : p \in CutPieces(b), q \in Pieces(b), r \in Pieces(b)}

\* Data that look like a start mark make no difference to whole reads.
MCStreams == [whole |-> Streams3("y"),
              mixed |-> Streams3("mark"),
              split |-> {<<p, q>> : p \in Pieces("mark"), q \in Pieces("mark")}]

\* What the proofs assume of the streams holds of these.
ASSUME StreamsFit == MixedAreCutOnce /\ SplitArePlain

SplitStreams == [split |-> MCStreams.split]

=============================================================================
