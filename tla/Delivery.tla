------------------------------ MODULE Delivery ------------------------------
(***************************************************************************)
(* One end of a connection: the queue of messages to send, the messages    *)
(* under delivery control (core/msg_delivery_control.cpp) and the receipts *)
(* of the peer.  Both programs have it, with the same write_msg: the       *)
(* server in server/client_data.cpp, which writes before it processes what *)
(* it has read, the client in client/server/client_server.cpp, which       *)
(* processes first.                                                        *)
(*                                                                         *)
(* A message is an address.  The queue and the control list share          *)
(* addresses, a deleted one is handed out again, and a queue that keeps    *)
(* one afterwards refers to nothing or to another message.                 *)
(***************************************************************************)
EXTENDS Integers, Sequences, Functions

CONSTANTS
    Addr,           \* addresses of Message objects, a bound on those alive
    Programs,       \* the programs to look at: "server", "client"
    RESEND_CNT,
    RESEND_TIME,
    Promptness,     \* which values of prompt to look at
    SNDBUF,         \* messages that fit between the two programs
    MaxMsgs,        \* bound on the messages that are not receipts
    MaxPeerMsgs,    \* bound on the messages of the peer
    MaxFails,       \* bound on the writes that fail
    MaxBreaks       \* bound on the connections that break

ASSUME DeliveryAssumption ==
    /\ Programs \subseteq {"server", "client"}
    /\ {RESEND_CNT, SNDBUF} \subseteq Nat \ {0}
    /\ {RESEND_TIME, MaxMsgs, MaxPeerMsgs, MaxFails, MaxBreaks} \subseteq Nat
    /\ Promptness \subseteq BOOLEAN

VARIABLES
    program,
    prompt,         \* every receipt is processed within RESEND_TIME
    msgs,           \* the objects alive: what is sent (0: a receipt) and its id
    to_send,        \* to_send_msg of the server, to_server_msg of the client
    control,        \* the list of delivery_control, the last added one first
    msg_num,
    writefds,       \* select reported that the socket can be written
    to_process,     \* read and not processed: ids of receipts, 0: a message,
                    \* -2: a field
    wire,           \* written and not read by the peer
    from_peer,      \* sent by the peer and not read
    received,       \* history: the messages the peer has read
    written,        \* history: how often each message was written
    created,        \* history: the number of messages that are not receipts
    peer_msgs, fails, breaks,   \* counters for the bounds
    pc

memory == <<msgs, to_send, control, msg_num>>
peer == <<wire, from_peer, received>>
counters == <<written, created, peer_msgs, fails, breaks>>
\* What does not change.
setting == <<program, prompt>>
vars == <<setting, memory, writefds, to_process, peer, counters, pc>>

-----------------------------------------------------------------------------
(***************************************************************************)
(* MsgDeliveryControl                                                      *)
(***************************************************************************)

Receipt == 0
NO_ID == 0
NO_REQ_ID == -1     \* the id of every receipt
GameField == -2

FirstId(what) == IF what = Receipt THEN NO_REQ_ID ELSE NO_ID

Controlled == {control[k].msg : k \in DOMAIN control}

under_control(a) == a \in Controlled

\* Variant: a message sent again is given all its attempts back.
decrease_restarted(a) ==
    [k \in DOMAIN control |->
        IF control[k].msg = a THEN [control[k] EXCEPT !.age = 0] ELSE control[k]]

add(a) == <<[msg |-> a, age |-> 0, resend_cnt |-> RESEND_CNT]>> \o control

decrease(a) ==
    [k \in DOMAIN control |->
        IF control[k].msg = a
        THEN [control[k] EXCEPT !.age = 0, !.resend_cnt = @ - 1]
        ELSE control[k]]

\* The items at the positions I, in their order.
Sublist(items, I) ==
    LET upto[n \in 0 .. Len(items)] ==
            IF n = 0 THEN <<>>
            ELSE IF n \in I THEN Append(upto[n - 1], items[n]) ELSE upto[n - 1]
    IN  upto[Len(items)]

\* The entries without the messages S, and the objects without them.
ControlWithout(S) == Sublist(control, {k \in DOMAIN control : control[k].msg \notin S})
MsgsWithout(S) == [a \in DOMAIN msgs \ S |-> msgs[a]]

\* Variant: any attempt left will do.
need_resend_early(item) == item.resend_cnt > 0

\* age is the time since last_send_time, counted up to where it is overdue.
need_resend(item) == item.resend_cnt > 0 /\ item.age > RESEND_TIME

\* Variant: the last attempt is not waited for.
exhausted_early(item) == item.resend_cnt <= 1

exhausted(item) == item.resend_cnt <= 0

\* _rm_all_exhausted reads the next pointer of an item that it has just
\* deleted: the walk goes on from there, or it ends.
Removals ==
    LET gone == {k \in DOMAIN control : exhausted(control[k])}
    IN  IF gone = {} THEN {{}} ELSE {{control[k].msg : k \in gone \cap 1 .. n} : n \in gone}

-----------------------------------------------------------------------------
(***************************************************************************)
(* One turn of the program's loop                                          *)
(***************************************************************************)

Init ==
    /\ program \in Programs
    /\ prompt \in Promptness
    /\ msgs = <<>> /\ to_send = <<>> /\ control = <<>> /\ msg_num = 1
    /\ writefds = FALSE
    /\ to_process = <<>>
    /\ wire = <<>> /\ from_peer = <<>> /\ received = <<>>
    /\ written = [n \in 1 .. MaxMsgs |-> 0]
    /\ created = 0 /\ peer_msgs = 0 /\ fails = 0 /\ breaks = 0
    /\ pc = "select"

\* Variant: a new message is put at the front.
Put_front(a, what) ==
    /\ a \in Addr \ DOMAIN msgs
    /\ msgs' = [b \in DOMAIN msgs \cup {a} |->
                   IF b = a THEN [what |-> what, id |-> FirstId(what)] ELSE msgs[b]]
    /\ to_send' = <<a>> \o to_send
    /\ UNCHANGED <<control, msg_num>>

\* A new message is put at the end of the queue.
Put(a, what) ==
    /\ a \in Addr \ DOMAIN msgs
    /\ msgs' = [b \in DOMAIN msgs \cup {a} |->
                   IF b = a THEN [what |-> what, id |-> FirstId(what)] ELSE msgs[b]]
    /\ to_send' = Append(to_send, a)
    /\ UNCHANGED <<control, msg_num>>

\* Somebody has something to say: a handler of a message just read, or a
\* timeout, the interface or another client's handler between two visits.
send_msg(a) ==
    /\ pc \in {"select", "process"}
    /\ created < MaxMsgs
    /\ created' = created + 1
    /\ Put(a, created')
    /\ UNCHANGED <<setting, writefds, to_process, peer, written, peer_msgs, fails, breaks, pc>>

\* select, and reading everything that has come.
Select ==
    /\ pc = "select"
    /\ writefds' = (to_send # <<>> /\ Len(wire) < SNDBUF)
    /\ writefds' \/ from_peer # <<>>
    /\ to_process' = from_peer
    /\ from_peer' = <<>>
    /\ pc' = IF program = "server" /\ writefds' THEN "write" ELSE "process"
    /\ UNCHANGED <<setting, memory, wire, received, counters>>

\* Variant: a message is sent without a number.
numbered_never(a) == msgs[a]

\* The id of a message is given when it is first sent.
numbered(a) == IF msgs[a].id = NO_ID THEN [msgs[a] EXCEPT !.id = msg_num] ELSE msgs[a]

\* Variant: only a message sent again is kept in sight.
controlled_after_sending_lost(a) == IF under_control(a) THEN decrease(a) ELSE control

\* What delivery_control holds after a was written.
controlled_after_sending(a) == IF under_control(a) THEN decrease(a) ELSE add(a)

\* One message of write_msg is written in full.  What becomes of a receipt at
\* the peer is the peer's end of the connection.
WriteOne ==
    /\ pc = "write"
    /\ to_send # <<>>
    /\ LET a == Head(to_send) IN
       /\ a \in DOMAIN msgs
       /\ to_send' = Tail(to_send)
       /\ IF msgs[a].what = Receipt
          THEN /\ msgs' = MsgsWithout({a})
               /\ UNCHANGED <<control, msg_num, wire, written>>
          ELSE /\ Len(wire) < SNDBUF
               /\ msgs' = [msgs EXCEPT ![a] = numbered(a)]
               /\ msg_num' = IF msgs[a].id = NO_ID THEN msg_num + 1 ELSE msg_num
               /\ control' = controlled_after_sending(a)
               /\ wire' = Append(wire, msgs'[a])
               /\ written' = [written EXCEPT ![msgs[a].what] = @ + 1]
    /\ UNCHANGED <<setting, writefds, to_process, from_peer, received,
                   created, peer_msgs, fails, breaks, pc>>

\* Variant: a message that could not be written is not put back.
put_back_lost(a) == Tail(to_send)

\* A message that could not be written is put at the end of the queue.
put_back(a) == Append(Tail(to_send), a)

\* A write fails: write_msg gives up for this turn.  (What a short write leaves
\* in the stream is a matter of the peer's MsgBuffer.)
WriteFails ==
    /\ pc = "write"
    /\ to_send # <<>>
    /\ fails < MaxFails
    /\ fails' = fails + 1
    /\ LET a == Head(to_send) IN
       /\ a \in DOMAIN msgs
       /\ to_send' = put_back(a)
       /\ msgs' = [msgs EXCEPT ![a] = numbered(a)]
       /\ msg_num' = IF msgs[a].id = NO_ID THEN msg_num + 1 ELSE msg_num
    /\ pc' = "resend"
    /\ UNCHANGED <<setting, control, writefds, to_process, peer,
                   written, created, peer_msgs, breaks>>

\* Undefined behaviour: the first pointer in the queue is to a deleted message.
\* What write_msg finds there is no message, and the program does not go on.
WriteDeleted ==
    /\ pc = "write"
    /\ to_send # <<>>
    /\ Head(to_send) \notin DOMAIN msgs
    /\ pc' = "crashed"
    /\ UNCHANGED <<setting, memory, writefds, to_process, peer, counters>>

\* The end of write_msg: what is overdue is put in the queue again, and what
\* has no attempt left is deleted.
Resend ==
    /\ pc = "resend" \/ (pc = "write" /\ to_send = <<>>)
    /\ LET overdue == Sublist(control, {k \in DOMAIN control : need_resend(control[k])})
       IN  to_send' = to_send \o [k \in DOMAIN overdue |-> overdue[k].msg]
    /\ \E gone \in Removals :
          /\ control' = ControlWithout(gone)
          /\ msgs' = MsgsWithout(gone)
    /\ pc' = IF program = "server" THEN "process" ELSE "select"
    /\ UNCHANGED <<setting, msg_num, writefds, to_process, peer, counters>>

\* Variant: a receipt confirms all earlier messages.
Acknowledged_upto(id) == {a \in Controlled : msgs[a].id <= id}

\* process_check deletes the message that has the id of a receipt.
Acknowledged(id) == {a \in Controlled : msgs[a].id = id}

ProcessReceipt ==
    /\ pc = "process"
    /\ to_process # <<>>
    /\ Head(to_process) \notin {Receipt, GameField}
    /\ to_process' = Tail(to_process)
    /\ LET gone == Acknowledged(Head(to_process)) IN
       /\ control' = ControlWithout(gone)
       /\ msgs' = MsgsWithout(gone)
    /\ UNCHANGED <<setting, to_send, msg_num, writefds, peer, counters, pc>>

\* Any other message is confirmed when its handler has run.
ProcessMsg(a) ==
    /\ pc = "process"
    /\ to_process # <<>>
    /\ Head(to_process) = Receipt
    /\ to_process' = Tail(to_process)
    /\ Put(a, Receipt)
    /\ UNCHANGED <<setting, writefds, peer, counters, pc>>

\* The server's handler of a field that it accepts confirms it by itself, so
\* that a field is confirmed twice.
ProcessField(a) ==
    /\ pc = "process"
    /\ to_process # <<>>
    /\ Head(to_process) = GameField
    /\ \/ Put(a, Receipt)
       \/ UNCHANGED memory
    /\ to_process' = <<Receipt>> \o Tail(to_process)
    /\ UNCHANGED <<setting, writefds, peer, counters, pc>>

ProcessDone ==
    /\ pc = "process"
    /\ to_process = <<>>
    /\ pc' = IF program = "client" /\ writefds THEN "write" ELSE "select"
    /\ UNCHANGED <<setting, memory, writefds, to_process, peer, counters>>

\* Time passes.
Tick ==
    /\ \E item \in Range(control) : item.age <= RESEND_TIME
    /\ prompt => \A item \in Range(control) : item.age < RESEND_TIME
    /\ control' = [k \in DOMAIN control |->
           IF control[k].age <= RESEND_TIME
           THEN [control[k] EXCEPT !.age = @ + 1] ELSE control[k]]
    /\ pc \notin {"closed", "crashed"}
    /\ UNCHANGED <<setting, msgs, to_send, msg_num, writefds, to_process, peer, counters, pc>>

\* The connection breaks.  The client connects again and keeps its queue and
\* what it has under control; the server deletes its ClientData, and with it
\* what is in the queue, but not what is under control.
Break ==
    /\ pc = "select"
    /\ ~prompt
    /\ breaks < MaxBreaks
    /\ breaks' = breaks + 1
    /\ wire' = <<>>
    /\ from_peer' = <<>>
    /\ IF program = "client"
       THEN UNCHANGED <<memory, pc>>
       ELSE /\ pc' = "closed"
            /\ msgs' = MsgsWithout(Range(to_send))
            /\ to_send' = <<>>
            /\ control' = <<>>
            /\ UNCHANGED msg_num
    /\ UNCHANGED <<setting, writefds, to_process, received, written, created, peer_msgs, fails>>

-----------------------------------------------------------------------------
(***************************************************************************)
(* The peer: the same program's other end, as far as it is seen from here  *)
(***************************************************************************)

\* The peer reads a message and confirms it, a field perhaps twice.
PeerReads ==
    /\ wire # <<>>
    /\ wire' = Tail(wire)
    /\ received' = Append(received, Head(wire).what)
    /\ \E times \in IF program = "client" THEN {1, 2} ELSE {1} :
          from_peer' = from_peer \o [k \in 1 .. times |-> Head(wire).id]
    /\ UNCHANGED <<setting, memory, writefds, to_process, counters, pc>>

PeerSends ==
    /\ pc # "closed"
    /\ peer_msgs < MaxPeerMsgs
    /\ peer_msgs' = peer_msgs + 1
    /\ \E m \in IF program = "server" THEN {Receipt, GameField} ELSE {Receipt} :
          from_peer' = Append(from_peer, m)
    /\ UNCHANGED <<setting, memory, writefds, to_process, wire, received,
                   written, created, fails, breaks, pc>>

\* Nothing to do: the program waits in select, or has ended.
Idle ==
    /\ \/ (pc = "select" /\ from_peer = <<>> /\ to_send = <<>>)
       \/ pc \in {"closed", "crashed"}
    /\ UNCHANGED vars

Next ==
    \/ \E a \in Addr : send_msg(a) \/ ProcessMsg(a) \/ ProcessField(a)
    \/ Select
    \/ WriteOne \/ WriteFails \/ WriteDeleted
    \/ Resend
    \/ ProcessReceipt \/ ProcessDone
    \/ Tick
    \/ Break
    \/ PeerReads \/ PeerSends
    \/ Idle

Spec == Init /\ [][Next]_vars

\* The program's loop goes on, and the peer reads what it is sent.
FairSpec ==
    /\ Spec
    /\ WF_vars(Select) /\ WF_vars(WriteOne) /\ WF_vars(Resend)
    /\ WF_vars(ProcessReceipt) /\ WF_vars(ProcessDone)
    /\ WF_vars(\E a \in Addr : ProcessMsg(a) \/ ProcessField(a))
    /\ WF_vars(PeerReads)

-----------------------------------------------------------------------------

Queued == Range(to_send)

TypeOK ==
    /\ DOMAIN msgs \subseteq Addr
    /\ \A a \in DOMAIN msgs : msgs[a] \in [what : 0 .. created, id : NO_REQ_ID .. (msg_num - 1)]
    /\ to_send \in Seq(Addr)
    /\ control \in Seq([msg : Addr, age : 0 .. (RESEND_TIME + 1), resend_cnt : Int])
    /\ wire \in Seq([what : 1 .. created, id : 1 .. (msg_num - 1)])
    /\ to_process \in Seq(GameField .. (msg_num - 1))
    /\ from_peer \in Seq(GameField .. (msg_num - 1))
    /\ pc \in {"select", "write", "resend", "process", "closed", "crashed"}

\* Every message alive is in the queue or under control, or nobody would ever
\* delete it; and what is under control is alive, is there once and has its own
\* number, or a receipt would delete it twice or delete another one.
Owned ==
    pc # "closed" =>
        /\ DOMAIN msgs \subseteq Queued \cup Controlled
        /\ Controlled \subseteq DOMAIN msgs
        /\ \A j, k \in DOMAIN control :
              msgs[control[j].msg].id = msgs[control[k].msg].id => j = k

\* As long as receipts come in time, whatever write fails: the queue holds no
\* deleted message, none twice, and none that waits for its receipt.  The queue
\* and the control list share their messages only because of resending.
QueueSound ==
    prompt =>
        /\ Queued \subseteq DOMAIN msgs
        /\ IsInjective(to_send)
        /\ Queued \cap Controlled = {}

\* As long as receipts come in time, the peer gets no message twice, and gets
\* them in the order in which they were sent unless a write failed.
DeliveredOnceInOrder ==
    prompt =>
        /\ IsInjective(received)
        /\ fails = 0 => received = [k \in DOMAIN received |-> k]

\* As long as receipts come in time, every message reaches the peer, is confirmed
\* and deleted, although write_msg puts it at the end when a write fails.
AllAcknowledged ==
    \A n \in 1 .. MaxMsgs :
        prompt /\ created >= n ~> /\ n \in Range(received)
                                  /\ \A a \in DOMAIN msgs : msgs[a].what # n

\* A message is written once and at most RESEND_CNT times again, however late the
\* receipts are; each write that fails may cost one more.
AttemptsBounded == \A n \in 1 .. MaxMsgs : written[n] <= 1 + RESEND_CNT + fails

\* A message is given up only when all its attempts have been used, or when the
\* peer has read it.
GivenUpLast ==
    pc # "closed" =>
        \A n \in 1 .. created :
            \/ \E a \in DOMAIN msgs : msgs[a].what = n
            \/ n \in Range(received)
            \/ written[n] > RESEND_CNT

\* Unless a write fails, only one thing leaves a deleted message in the queue:
\* a receipt that comes when its message was overdue, so that Resend had put it
\* in the queue again, and has not been written again yet.
OnlyLateReceiptsDelete ==
    [][\A k \in DOMAIN control :
          LET a == control[k].msg
          IN  fails = 0 /\ a \in Queued' \ DOMAIN msgs'
              => pc = "process" /\ control[k].age > RESEND_TIME]_vars

=============================================================================
