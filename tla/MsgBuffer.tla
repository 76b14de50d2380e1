----------------------------- MODULE MsgBuffer -----------------------------
(***************************************************************************)
(* core/msg_buffer.cpp: cutting what read returns into messages.           *)
(*                                                                         *)
(* A message is a sequence of bytes: the start mark, its type, and as many *)
(* more as its type says.  The stream consists of pieces: messages, and    *)
(* beginnings of messages whose write was short.                           *)
(***************************************************************************)
EXTENDS Integers, Sequences, SequencesExt

CONSTANTS
    MSG_START,
    ZERO,           \* the upper bytes of a type
    Type,
    MIN_SIZE,       \* Message::min_size: the start mark and a type
    DataSize,       \* Message::get_type_data_size
    ObjectSize,     \* Message::get_type_size: of the object, not of its bytes
    Content,        \* what the bytes after the type may be
    BUFF_SIZE,
    Streams         \* for each way of reading, the sequences of pieces to read

ASSUME BufferAssumption ==
    /\ MSG_START \notin Type \cup {ZERO}
    /\ MIN_SIZE \in Nat /\ MIN_SIZE >= 2
    /\ DataSize \in [Type -> Nat] /\ \A t \in Type : DataSize[t] >= MIN_SIZE
    /\ ObjectSize \in [Type -> Nat]
    /\ BUFF_SIZE \in Nat \ {0}
    /\ DOMAIN Streams \subseteq {"whole", "mixed", "split"}
    /\ Type \cap {"UNDEFINED", "INVALID"} = {}

\* Message::set_header_data: the start mark and the bytes of the type.
Header(t) == [k \in 1 .. MIN_SIZE |-> IF k = 1 THEN MSG_START ELSE IF k = 2 THEN t ELSE ZERO]

Message ==
    UNION {{Header(t) \o data : data \in [1 .. (DataSize[t] - MIN_SIZE) -> Content]} : t \in Type}

\* A piece: what is left of it to read, and the message that has been read when
\* nothing is left, none if its write was short.
Whole(m) == [rest |-> m, msg |-> <<m>>]
Cut(m, n) == [rest |-> SubSeq(m, 1, n), msg |-> <<>>]

WholePiece == {Whole(m) : m \in Message}
CutPiece == UNION {{Cut(m, n) : n \in 1 .. (Len(m) - 1)} : m \in Message}

ASSUME StreamAssumption ==
    \A r \in DOMAIN Streams : Streams[r] \subseteq Seq(WholePiece \cup CutPiece)

\* A message of which no byte but the first looks like a start mark.
Plain == {m \in Message : \A k \in 2 .. Len(m) : m[k] # MSG_START}
PlainPiece == {Whole(m) : m \in Plain}

\* The streams that are read behind a short write have no more than one, and
\* those that are read in parts have none.
MixedAreCutOnce ==
    \A r \in DOMAIN Streams \cap {"mixed"} : \A s \in Streams[r] :
        /\ s \in Seq(PlainPiece \cup CutPiece)
        /\ \A j, k \in DOMAIN s : j < k /\ s[j].msg = <<>> => s[k].msg # <<>>
SplitArePlain ==
    \A r \in DOMAIN Streams \cap {"split"} : Streams[r] \subseteq Seq(PlainPiece)

VARIABLES
    reads,          \* the way of reading: "whole", a read ends where a piece ends
                    \* and does not go on behind a short write; "mixed", it may
                    \* go on; "split", it may end anywhere
    stream,
    buf,            \* the first free_pos bytes of buf
    to_extract_msg, \* the bytes read of a message, of which there are `readed'
    capacity,       \* the size allocated for it; 0: to_extract_msg is null
    is_too_small,
    extracted,      \* history: what went through msg_queue
    due,            \* history: the messages read in full, except by a read
                    \* that found them behind a short write
    pc

vars == <<reads, stream, buf, to_extract_msg, capacity, is_too_small, extracted, due, pc>>

null == <<>>
free_pos == Len(buf)
readed == Len(to_extract_msg)

From(s, n) == SubSeq(s, n, Len(s))

-----------------------------------------------------------------------------

has_start_mark(b) == b # <<>> /\ b[1] = MSG_START

get_msg_type(b) ==
    IF Len(b) < MIN_SIZE THEN "UNDEFINED"
    ELSE IF b[2] \in Type /\ IsPrefix(Header(b[2]), b) THEN b[2] ELSE "INVALID"

\* The position of the first start mark from position n on, or 0.
start_mark_pos(b, n) ==
    LET marks == {k \in n .. Len(b) : b[k] = MSG_START}
    IN  IF marks = {} THEN 0 ELSE Min(marks)

\* How many bytes there are before that mark, all if there is none.
before_mark(b, n) ==
    LET next == start_mark_pos(b, n) IN IF next = 0 THEN Len(b) ELSE next - 1

\* _move_msg_to_start: what remains when everything before the first start mark
\* that may begin a message is dropped.
move_msg_to_start(b) ==
    LET after[n \in 1 .. (Len(b) + MIN_SIZE)] ==
            LET pos == start_mark_pos(b, n)
            IN  IF pos = 0 THEN <<>>
                ELSE IF get_msg_type(From(b, pos)) = "INVALID" THEN after[pos + MIN_SIZE]
                ELSE From(b, pos)
    IN  after[1]

\* Where _new_reading begins: at the first message with a type.
new_reading_start(b) ==
    IF has_start_mark(b) /\ get_msg_type(b) # "INVALID" THEN b ELSE move_msg_to_start(b)

\* Variant: a message is made as soon as its type is known.
create_instance_early(m) == get_msg_type(m) \in Type

\* Message::create_instance: a message is made of as many bytes as it has.
create_instance(m) ==
    LET type == get_msg_type(m) IN type \in Type /\ Len(m) = DataSize[type]

Init ==
    /\ reads \in DOMAIN Streams
    /\ stream \in Streams[reads]
    /\ buf = <<>> /\ to_extract_msg = null /\ capacity = 0 /\ is_too_small = TRUE
    /\ extracted = <<>> /\ due = <<>>
    /\ pc = "idle"

\* Variant: the beginning of a message is kept when another one starts.
Abandons_never(b) == FALSE

\* The beginning of a message that is followed by a start mark is given up.
Abandons(b) == to_extract_msg # null /\ has_start_mark(b)

\* read returns n pieces and j bytes of the next one, and _gain_msg begins.
Read(n, j) ==
    LET whole == SubSeq(stream, 1, n)
        chunk == FlattenSeq([k \in DOMAIN whole |-> whole[k].rest])
                 \o (IF j = 0 THEN <<>> ELSE SubSeq(stream[n + 1].rest, 1, j))
        b == buf \o chunk
        mixed == \E k \in 1 .. (n - 1) : whole[k].msg = <<>>
        skips == to_extract_msg = null /\ ~has_start_mark(b)
    IN  /\ pc = "idle"
        /\ chunk # <<>>
        /\ Len(b) <= BUFF_SIZE
        /\ j # 0 => reads = "split"
        /\ mixed => reads = "mixed"
        /\ stream' = IF j = 0 THEN From(stream, n + 1)
                     ELSE [From(stream, n + 1) EXCEPT ![1].rest = From(@, j + 1)]
        /\ due' = IF mixed THEN due ELSE due \o FlattenSeq([k \in DOMAIN whole |-> whole[k].msg])
        /\ is_too_small' = FALSE
        /\ buf' = IF skips THEN move_msg_to_start(b) ELSE b
        /\ to_extract_msg' = IF Abandons(b) THEN null ELSE to_extract_msg
        /\ capacity' = IF Abandons(b) THEN 0 ELSE capacity
        /\ pc' = IF buf' = <<>> THEN "idle" ELSE "gain"
        /\ UNCHANGED <<reads, extracted>>

\* The end of the loop's body in _gain_msg: to_write bytes of b are copied; a
\* message that is complete is put in the queue, any other one ends the loop.
Copy(b, to_write, size) ==
    LET m == to_extract_msg \o SubSeq(b, 1, to_write) IN
    /\ buf' = From(b, to_write + 1)
    /\ IF create_instance(m)
       THEN /\ extracted' = Append(extracted, m)
            /\ to_extract_msg' = null
            /\ capacity' = 0
            /\ pc' = IF buf' = <<>> THEN "idle" ELSE "gain"
       ELSE /\ to_extract_msg' = m
            /\ capacity' = size
            /\ pc' = "idle"
            /\ UNCHANGED extracted

\* Variant: all that has been read is copied.
new_to_write_all(b, size) == Len(b)

new_to_write(b, size) == Min({Len(b), size})

\* _new_reading
NewReading ==
    LET b == new_reading_start(buf)
        type == get_msg_type(b)
    IN  /\ pc = "gain"
        /\ to_extract_msg = null
        /\ is_too_small' = (is_too_small \/ (b # <<>> /\ type = "UNDEFINED"))
        /\ IF b = <<>>
           THEN /\ buf' = b /\ pc' = "idle"
                /\ UNCHANGED <<to_extract_msg, capacity, extracted>>
           ELSE LET size == IF type = "UNDEFINED" THEN before_mark(b, 2) ELSE DataSize[type]
                IN  Copy(b, new_to_write(b, size), size)
        /\ UNCHANGED <<reads, stream, due>>

\* _finishing_reading.  Its branch for is_too_small is never reached, as
\* _gain_msg has reset it.  The size of the message comes from
\* Message::get_size, called on the bytes as if they were the object: the type
\* is looked for where the id and what follows it are, or where nothing has been
\* written yet (undefined behaviour).  Hence size is -1, or the size of some
\* object.  Copying a negative or too large number of bytes ends the program.
FinishingReading(size) ==
    LET known == before_mark(buf, 1)
        to_write == IF readed + known > size THEN size ELSE known
    IN  /\ pc = "gain"
        /\ to_extract_msg # null
        /\ IF to_write \in 0 .. free_pos /\ readed + to_write <= capacity
           THEN Copy(buf, to_write, capacity)
           ELSE pc' = "crashed" /\ UNCHANGED <<buf, to_extract_msg, capacity, extracted>>
        /\ UNCHANGED <<reads, stream, is_too_small, due>>

\* Nothing more to read, or the program has ended.
Idle ==
    /\ (pc = "idle" /\ stream = <<>>) \/ pc = "crashed"
    /\ UNCHANGED vars

Next ==
    \/ \E n \in 0 .. Len(stream) :
          \/ Read(n, 0)
          \/ n < Len(stream) /\ \E j \in 1 .. (Len(stream[n + 1].rest) - 1) : Read(n, j)
    \/ NewReading
    \/ \E size \in {-1} \cup {ObjectSize[t] : t \in Type} : FinishingReading(size)
    \/ Idle

Spec == Init /\ [][Next]_vars

-----------------------------------------------------------------------------

\* Pointers and sizes: what has been read of a message fits in what was
\* allocated for it, begins with a start mark and is no complete message.
TypeOK ==
    /\ Len(buf) <= BUFF_SIZE
    /\ readed <= capacity
    /\ to_extract_msg # null => has_start_mark(to_extract_msg) /\ ~create_instance(to_extract_msg)
    /\ pc \in {"idle", "gain", "crashed"}

Quiet == pc \in {"idle", "crashed"}

\* Wherever a read ends, every message that has been read in full can be
\* extracted: what `readed' and `is_too_small' of msg_buffer.h are for.
PartsJoined == Quiet => extracted = due

\* If reads end where messages end, every message that has been read in full can
\* be extracted, whole and in order, whatever its bytes are, and nothing else.
AllExtracted == Quiet /\ reads = "whole" => extracted = due

\* What is extracted are the messages that were sent, in order, as far as the
\* program gets, wherever a read ends.
ReadInOrder == reads = "split" => IsPrefix(extracted, due)

\* A single short write spoils no more than what is read together with it, as
\* long as no byte of a message looks like a start mark: every message that comes
\* with a later read is extracted.
Resynchronises ==
    Quiet /\ reads # "split" =>
        \E at \in [DOMAIN due -> DOMAIN extracted] :
            /\ \A k \in DOMAIN due : extracted[at[k]] = due[k]
            /\ \A j, k \in DOMAIN due : j < k => at[j] < at[k]

=============================================================================
