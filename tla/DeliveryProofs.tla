--------------------------- MODULE DeliveryProofs ---------------------------
(***************************************************************************)
(* Proofs about Delivery, for every number of messages, attempts, failures *)
(* and breaks, and however much time the receipts take.                    *)
(***************************************************************************)
EXTENDS Delivery, Counting

-----------------------------------------------------------------------------
(***************************************************************************)
(* Taking items out of a list                                              *)
(***************************************************************************)

\* Each item of sub is the item of another position of items, one of I, and
\* every position of I is among them.
Takes(sub, items, I) ==
    \E g \in [1 .. Len(sub) -> I] :
        /\ \A k \in 1 .. Len(sub) : sub[k] = items[g[k]]
        /\ \A j, k \in 1 .. Len(sub) : g[j] = g[k] => j = k
        /\ \A i \in I : \E k \in 1 .. Len(sub) : g[k] = i

\* One item more is taken.
LEMMA TakesOneMore ==
    ASSUME NEW S, NEW items \in Seq(S), NEW I, NEW n \in DOMAIN items, n \notin I,
           NEW sub \in Seq(S), Takes(sub, items, I)
    PROVE  Takes(Append(sub, items[n]), items, I \cup {n})
<1> DEFINE m    == Len(sub)
           more == Append(sub, items[n])
           M    == Len(more)
<1>1. PICK g \in [1 .. m -> I] :
          /\ \A k \in 1 .. m : sub[k] = items[g[k]]
          /\ \A j, k \in 1 .. m : g[j] = g[k] => j = k
          /\ \A i \in I : \E k \in 1 .. m : g[k] = i
  BY DEF Takes
<1>2. /\ \A k \in 1 .. m : more[k] = sub[k]
      /\ more[M] = items[n]
      /\ \A k \in 1 .. M : k \in 1 .. m \/ k = M
      /\ \A k \in 1 .. m : k \in 1 .. M
      /\ M \in 1 .. M /\ M \notin 1 .. m
  OBVIOUS
<1> HIDE DEF m, more, M
<1> DEFINE h == [k \in 1 .. M |-> IF k = M THEN n ELSE g[k]]
<1>3. /\ \A k \in 1 .. m : h[k] = g[k] /\ g[k] \in I
      /\ h[M] = n
  BY <1>1, <1>2
<1>4. h \in [1 .. M -> I \cup {n}]
  BY <1>1, <1>2
<1> HIDE DEF h
<1>5. \A k \in 1 .. M : more[k] = items[h[k]]
  BY <1>1, <1>2, <1>3, Zenon
<1>6. \A j, k \in 1 .. M : h[j] = h[k] => j = k
  <2>1. \A k \in 1 .. m : h[k] # n
    BY <1>3
  <2> QED BY <1>1, <1>2, <1>3, <2>1
<1>7. \A i \in I \cup {n} : \E k \in 1 .. M : h[k] = i
  <2>1. ASSUME NEW i \in I PROVE \E k \in 1 .. M : h[k] = i
    <3>1. PICK k \in 1 .. m : g[k] = i
      BY <1>1
    <3> QED BY <1>2, <1>3, <3>1, Zenon
  <2>2. \E k \in 1 .. M : h[k] = n
    BY <1>2, <1>3, Zenon
  <2> QED BY <2>1, <2>2
<1> QED BY <1>4, <1>5, <1>6, <1>7, Zenon DEF Takes, M, more

\* Sublist takes the items at the positions I, each once.
LEMMA SublistTakes ==
    ASSUME NEW S, NEW items \in Seq(S), NEW I \in SUBSET DOMAIN items
    PROVE  /\ Sublist(items, I) \in Seq(S)
           /\ Takes(Sublist(items, I), items, I)
<1> DEFINE N == Len(items)
           Upper(h, n) == IF n = 0 THEN <<>>
                         ELSE IF n \in I THEN Append(h[n - 1], items[n]) ELSE h[n - 1]
           Taken(m, h) == h = [n \in 0 .. m |-> Upper(h, n)]
           Known == {m \in Nat : \E h : Taken(m, h)}
           Upto(m) == I \cap 1 .. m
           Right(s, m) == s \in Seq(S) /\ Takes(s, items, Upto(m))
<1>1. N \in Nat /\ DOMAIN items = 1 .. N
  OBVIOUS
<1>2. 0 \in Known
  <2> DEFINE h == [n \in 0 .. 0 |-> <<>>]
  <2>1. \A n \in 0 .. 0 : Upper(h, n) = <<>>
    OBVIOUS
  <2>2. Taken(0, h)
    BY <2>1, Zenon
  <2> QED BY <2>2
<1>3. ASSUME NEW m \in Known PROVE m + 1 \in Known
  <2>1. PICK h : Taken(m, h)
    BY <1>3
  <2> DEFINE g == [n \in 0 .. m + 1 |-> IF n = m + 1 THEN Upper(h, n) ELSE h[n]]
  <2> HIDE DEF Upper
  <2>2. ASSUME NEW n \in 0 .. m + 1 PROVE g[n] = Upper(g, n)
    <3>1. n = 0 \/ g[n - 1] = h[n - 1]
      BY SMT
    <3>2. Upper(g, n) = Upper(h, n)
      <4> HIDE DEF g
      <4>1. CASE n = 0
        BY <4>1, Zenon DEF Upper
      <4>2. CASE g[n - 1] = h[n - 1]
        BY <4>2, Zenon DEF Upper
      <4> QED BY <3>1, <4>1, <4>2
    <3>3. n # m + 1 => h[n] = Upper(h, n)
      <4>1. n # m + 1 => n \in 0 .. m
        BY SMT
      <4> QED BY <2>1, <4>1, Zenon
    <3> QED BY <3>2, <3>3, SMT
  <2>3. g = [n \in 0 .. m + 1 |-> g[n]]
    BY Zenon
  <2>4. Taken(m + 1, g)
    BY <2>2, <2>3, Zenon
  <2>5. m + 1 \in Nat
    <3>1. m \in Nat
      BY Zenon
    <3> QED BY <3>1
  <2> HIDE DEF Taken
  <2> QED BY <2>4, <2>5, Zenon
<1>4. N \in Known
  <2> HIDE DEF Known, N
  <2> QED BY <1>1, <1>2, <1>3, ByCounting
<1> DEFINE upto == CHOOSE h : Taken(N, h)
<1>5. Taken(N, upto) /\ Sublist(items, I) = upto[N]
  <2>1. PICK h : Taken(N, h)
    BY <1>4
  <2>2. Sublist(items, I) = upto[N]
    BY Zenon DEF Sublist
  <2> QED BY <2>1, <2>2, Zenon
<1> HIDE DEF upto
<1>6. \A n \in 0 .. N : upto[n] = Upper(upto, n)
  BY <1>5, Zenon
<1> DEFINE Ok == {m \in Nat : m <= N => Right(upto[m], m)}
<1>7. 0 \in Ok
  <2>1. upto[0] = <<>>
    BY <1>1, <1>6
  <2>2. Upto(0) = {} /\ <<>> \in Seq(S) /\ 1 .. Len(<<>>) = {}
    OBVIOUS
  <2> DEFINE g == [k \in {} |-> k]
  <2>3. g \in [{} -> {}]
    OBVIOUS
  <2>4. Takes(<<>>, items, {})
    BY <2>2, <2>3, Zenon DEF Takes
  <2> QED BY <2>1, <2>2, <2>4
<1>8. ASSUME NEW m \in Ok, m \in Nat PROVE m + 1 \in Ok
  <2> SUFFICES ASSUME m + 1 <= N PROVE Right(upto[m + 1], m + 1)
    OBVIOUS
  <2>1. m + 1 \in 0 .. N /\ m + 1 # 0 /\ (m + 1) - 1 = m /\ m + 1 \in DOMAIN items /\ m <= N
    BY <1>1
  <2>2. Right(upto[m], m)
    BY <2>1
  <2>3. upto[m + 1] = IF m + 1 \in I THEN Append(upto[m], items[m + 1]) ELSE upto[m]
    BY <1>6, <2>1, Zenon
  <2>4. CASE m + 1 \in I
    <3>1. Upto(m + 1) = Upto(m) \cup {m + 1} /\ m + 1 \notin Upto(m)
      BY <2>4
    <3>2. items[m + 1] \in S
      BY <2>1
    <3> HIDE DEF Upto
    <3>3. Append(upto[m], items[m + 1]) \in Seq(S)
      BY <2>2, <3>2
    <3>4. Takes(Append(upto[m], items[m + 1]), items, Upto(m) \cup {m + 1})
      BY <2>1, <2>2, <3>1, TakesOneMore
    <3> QED BY <2>3, <2>4, <3>1, <3>3, <3>4, Zenon
  <2>5. CASE m + 1 \notin I
    <3>1. Upto(m + 1) = Upto(m)
      BY <2>5
    <3> QED BY <2>2, <2>3, <2>5, <3>1
  <2> QED BY <2>4, <2>5
<1>9. Right(upto[N], N)
  <2> HIDE DEF Ok, Right, N
  <2>1. N \in Ok
    BY <1>1, <1>7, <1>8, ByCounting
  <2> QED BY <1>1, <2>1 DEF Ok
<1>10. Upto(N) = I
  BY <1>1
<1> QED BY <1>5, <1>9, <1>10

-----------------------------------------------------------------------------
(***************************************************************************)
(* The inductive invariant                                                 *)
(***************************************************************************)

\* What the counters are, and that messages are numbered.
Counters ==
    /\ created \in 0 .. MaxMsgs /\ msg_num \in Nat \ {0} /\ fails \in Nat
    /\ written \in [1 .. MaxMsgs -> Nat]
    /\ received \in Seq(1 .. created)
    /\ fails = 0 => pc # "resend"

\* No two messages alive are the same, or have the same number.
Distinct ==
    /\ \A a \in DOMAIN msgs : msgs[a].what = Receipt <=> msgs[a].id = NO_REQ_ID
    /\ \A a, b \in DOMAIN msgs :
          \/ msgs[a].what = msgs[b].what /\ msgs[a].what # Receipt
          \/ msgs[a].id = msgs[b].id /\ msgs[a].id > NO_ID
          => a = b

\* What is under control is alive, has a number and is there once.
ControlSound ==
    /\ \A k \in DOMAIN control :
          control[k].msg \in DOMAIN msgs /\ msgs[control[k].msg].id > NO_ID
    /\ \A j, k \in DOMAIN control : control[j].msg = control[k].msg => j = k

\* Nothing alive is forgotten.
Held == pc # "closed" => DOMAIN msgs \subseteq Queued \cup Controlled

\* A number in the wire is the number of that message, and a receipt for a
\* message means that the peer has read it.
Confirms(ids, a) ==
    \A k \in DOMAIN ids :
        ids[k] = msgs[a].id /\ ids[k] > NO_ID => msgs[a].what \in Range(received)

Numbered ==
    \A a \in DOMAIN msgs :
        /\ \A k \in DOMAIN wire : wire[k].id = msgs[a].id => wire[k].what = msgs[a].what
        /\ Confirms(from_peer, a)
        /\ Confirms(to_process, a)

\* Every attempt that is used up was a write.
AttemptsWritten ==
    \A k \in DOMAIN control :
        written[msgs[control[k].msg].what] >= 1 + RESEND_CNT - control[k].resend_cnt

\* When receipts come in time, nothing is sent again: what is in the queue has
\* not been written, and what has been written was written once.
Fresh(a) ==
    msgs[a].what # Receipt =>
        /\ msgs[a].what \notin Range(received)
        /\ \A k \in DOMAIN wire : wire[k].what # msgs[a].what

NoResend ==
    prompt =>
        /\ pc # "closed"
        /\ \A k \in DOMAIN control :
              control[k].age <= RESEND_TIME /\ control[k].resend_cnt = RESEND_CNT
        /\ \A k \in DOMAIN to_send : to_send[k] \in DOMAIN msgs \ Controlled /\ Fresh(to_send[k])
        /\ \A j, k \in DOMAIN to_send : to_send[j] = to_send[k] => j = k
        /\ \A j, k \in DOMAIN received : received[j] = received[k] => j = k
        /\ \A j, k \in DOMAIN wire : wire[j].what = wire[k].what => j = k
        /\ \A k \in DOMAIN wire : wire[k].what \notin Range(received)

\* When moreover no write fails, the messages go their way one after the other.
InOrder ==
    prompt /\ fails = 0 =>
        /\ msg_num = Len(received) + Len(wire) + 1 /\ msg_num <= created + 1
        /\ \A k \in DOMAIN received : received[k] = k
        /\ \A k \in DOMAIN wire : wire[k].what = Len(received) + k
        /\ \A n \in msg_num .. created : \E j \in DOMAIN to_send : msgs[to_send[j]].what = n
        /\ \A k \in DOMAIN to_send :
              LET m == msgs[to_send[k]]
              IN  m.what # Receipt =>
                      /\ m.id = NO_ID /\ m.what >= msg_num
                      /\ \A j \in DOMAIN to_send :
                            j < k => msgs[to_send[j]].what < m.what

\* While no write fails, what waits for its receipt is in the queue only when it
\* is overdue.
OverdueQueued ==
    fails = 0 /\ pc \notin {"write", "crashed"} =>
        \A k \in DOMAIN control : control[k].msg \in Queued => control[k].age > RESEND_TIME

IInv ==
    /\ TypeOK /\ Counters /\ Distinct /\ ControlSound /\ Held /\ Numbered /\ AttemptsWritten
    /\ NoResend /\ InOrder /\ OverdueQueued

\* A list of some items is a list of more items.
LEMMA SeqOfMore ==
    ASSUME NEW S, NEW T, S \subseteq T, NEW s \in Seq(S)
    PROVE  s \in Seq(T)
  OBVIOUS

\* Each item of a list is one.
LEMMA ItemOfSeq ==
    ASSUME NEW S, NEW s \in Seq(S), NEW k \in DOMAIN s
    PROVE  s[k] \in S
  OBVIOUS

\* The types of what is in the lists.
LEMMA TypesOfItems ==
    ASSUME TypeOK, Counters
    PROVE  /\ \A a \in DOMAIN msgs :
                  /\ msgs[a].what \in Int /\ 0 <= msgs[a].what /\ msgs[a].what <= created
                  /\ msgs[a].id \in Int /\ NO_REQ_ID <= msgs[a].id /\ msgs[a].id < msg_num
           /\ \A k \in DOMAIN wire :
                  /\ wire[k].what \in Int /\ 0 < wire[k].what /\ wire[k].what <= created
                  /\ wire[k].id \in Int /\ 0 < wire[k].id /\ wire[k].id < msg_num
           /\ \A k \in DOMAIN received :
                  received[k] \in Int /\ 0 < received[k] /\ received[k] <= created
           /\ \A k \in DOMAIN control :
                  /\ control[k].msg \in Addr /\ control[k].resend_cnt \in Int
                  /\ control[k].age \in Int /\ 0 <= control[k].age
                  /\ control[k].age <= RESEND_TIME + 1
           /\ \A k \in DOMAIN from_peer : from_peer[k] \in Int /\ from_peer[k] < msg_num
           /\ \A k \in DOMAIN to_process : to_process[k] \in Int /\ to_process[k] < msg_num
           /\ \A k \in DOMAIN to_send : to_send[k] \in Addr
<1>1. created \in Nat /\ msg_num \in Nat
  BY DEF Counters
<1>2. \A a \in DOMAIN msgs : msgs[a] \in [what : 0 .. created, id : NO_REQ_ID .. (msg_num - 1)]
  BY DEF TypeOK
<1>3. wire \in Seq([what : 1 .. created, id : 1 .. (msg_num - 1)])
  BY DEF TypeOK
<1>4. received \in Seq(1 .. created)
  BY DEF Counters
<1>5. control \in Seq([msg : Addr, age : 0 .. (RESEND_TIME + 1), resend_cnt : Int])
  BY DEF TypeOK
<1>6. /\ from_peer \in Seq(GameField .. (msg_num - 1))
      /\ to_process \in Seq(GameField .. (msg_num - 1))
      /\ to_send \in Seq(Addr)
  BY DEF TypeOK
<1>7. \A a \in DOMAIN msgs :
          /\ msgs[a].what \in Int /\ 0 <= msgs[a].what /\ msgs[a].what <= created
          /\ msgs[a].id \in Int /\ NO_REQ_ID <= msgs[a].id /\ msgs[a].id < msg_num
  BY <1>1, <1>2 DEF NO_REQ_ID
<1>8. \A k \in DOMAIN wire :
          /\ wire[k].what \in Int /\ 0 < wire[k].what /\ wire[k].what <= created
          /\ wire[k].id \in Int /\ 0 < wire[k].id /\ wire[k].id < msg_num
  <2> SUFFICES ASSUME NEW k \in DOMAIN wire
               PROVE  wire[k] \in [what : 1 .. created, id : 1 .. (msg_num - 1)]
    BY <1>1
  <2> QED BY <1>3, ItemOfSeq, Zenon
<1>9. \A k \in DOMAIN received : received[k] \in Int /\ 0 < received[k] /\ received[k] <= created
  BY <1>1, <1>4
<1>10. \A k \in DOMAIN control :
           /\ control[k].msg \in Addr /\ control[k].resend_cnt \in Int
           /\ control[k].age \in Int /\ 0 <= control[k].age
           /\ control[k].age <= RESEND_TIME + 1
  <2> SUFFICES ASSUME NEW k \in DOMAIN control
               PROVE  control[k] \in [msg : Addr, age : 0 .. (RESEND_TIME + 1), resend_cnt : Int]
    OBVIOUS
  <2> QED BY <1>5, ItemOfSeq, Zenon
<1>11. /\ \A k \in DOMAIN from_peer : from_peer[k] \in Int /\ from_peer[k] < msg_num
       /\ \A k \in DOMAIN to_process : to_process[k] \in Int /\ to_process[k] < msg_num
       /\ \A k \in DOMAIN to_send : to_send[k] \in Addr
  BY <1>1, <1>6 DEF GameField
<1> QED BY <1>7, <1>8, <1>9, <1>10, <1>11

\* The initial states.
LEMMA InitIInv ==
    ASSUME DeliveryAssumption, Init
    PROVE  IInv
<1>1. /\ DOMAIN msgs = {} /\ DOMAIN to_send = {} /\ DOMAIN control = {} /\ DOMAIN wire = {}
      /\ DOMAIN from_peer = {} /\ DOMAIN to_process = {} /\ DOMAIN received = {}
      /\ Len(received) = 0 /\ Len(wire) = 0 /\ MaxMsgs \in Nat
  BY DEF Init, DeliveryAssumption
<1>2. TypeOK
  BY <1>1 DEF Init, TypeOK
<1>3. Counters
  BY <1>1 DEF Init, Counters
<1>4. InOrder
  BY <1>1 DEF Init, InOrder
<1>5. Distinct /\ ControlSound /\ Held /\ Numbered /\ AttemptsWritten /\ OverdueQueued
  BY <1>1 DEF Distinct, ControlSound, Held, Numbered, AttemptsWritten, OverdueQueued
<1>6. NoResend
  BY <1>1 DEF Init, NoResend
<1> QED BY <1>2, <1>3, <1>4, <1>5, <1>6 DEF IInv

-----------------------------------------------------------------------------
(***************************************************************************)
(* A new message                                                           *)
(***************************************************************************)

\* What a new message changes.
LEMMA PutFacts ==
    ASSUME TypeOK, NEW a \in Addr, NEW what, Put(a, what)
    PROVE  /\ a \notin DOMAIN msgs
           /\ DOMAIN msgs' = DOMAIN msgs \cup {a}
           /\ msgs'[a] = [what |-> what, id |-> FirstId(what)]
           /\ \A b \in DOMAIN msgs : msgs'[b] = msgs[b]
           /\ to_send' \in Seq(Addr)
           /\ Len(to_send) \in Nat /\ Len(to_send') = Len(to_send) + 1
           /\ DOMAIN to_send = 1 .. Len(to_send) /\ DOMAIN to_send' = 1 .. Len(to_send')
           /\ \A k \in DOMAIN to_send : k \in DOMAIN to_send' /\ to_send'[k] = to_send[k]
           /\ to_send'[Len(to_send')] = a /\ Len(to_send') \in DOMAIN to_send'
           /\ \A k \in DOMAIN to_send' : k \in DOMAIN to_send \/ k = Len(to_send')
           /\ Queued' = Queued \cup {a}
           /\ control' = control /\ msg_num' = msg_num
           /\ Controlled' = Controlled
  <1>1. /\ a \notin DOMAIN msgs
        /\ DOMAIN msgs' = DOMAIN msgs \cup {a}
        /\ msgs'[a] = [what |-> what, id |-> FirstId(what)]
        /\ \A b \in DOMAIN msgs : msgs'[b] = msgs[b]
        /\ to_send' = Append(to_send, a)
        /\ control' = control /\ msg_num' = msg_num
    BY DEF Put
  <1>2. to_send \in Seq(Addr)
    BY DEF TypeOK
  <1>3. /\ to_send' \in Seq(Addr)
        /\ Len(to_send) \in Nat /\ Len(to_send') = Len(to_send) + 1
        /\ DOMAIN to_send = 1 .. Len(to_send) /\ DOMAIN to_send' = 1 .. Len(to_send')
        /\ \A k \in DOMAIN to_send : k \in DOMAIN to_send' /\ to_send'[k] = to_send[k]
        /\ to_send'[Len(to_send')] = a /\ Len(to_send') \in DOMAIN to_send'
        /\ \A k \in DOMAIN to_send' : k \in DOMAIN to_send \/ k = Len(to_send')
    BY <1>1, <1>2
  <1>4. Queued' = Queued \cup {a}
    BY <1>3, Zenon DEF Queued, Range
  <1>5. Controlled' = Controlled
    BY <1>1 DEF Controlled
  <1> QED BY <1>1, <1>3, <1>4, <1>5

\* A receipt, or the next message of this end, that is put in the queue.
LEMMA PutKeeps ==
    ASSUME DeliveryAssumption, IInv, NEW a \in Addr, NEW what, Put(a, what),
           \/ what = Receipt /\ created' = created
           \/ what = created' /\ created' = created + 1,
           created' \in 0 .. MaxMsgs,
           UNCHANGED <<setting, peer, written, fails>>,
           pc \in {"select", "process"}, pc' = pc,
           to_process' \in Seq(GameField .. (msg_num - 1)),
           \A b \in DOMAIN msgs : Confirms(to_process', b)
    PROVE  IInv'
<1>1. /\ TypeOK /\ Counters /\ Distinct /\ ControlSound /\ Held /\ Numbered /\ AttemptsWritten
      /\ NoResend /\ InOrder /\ OverdueQueued
  BY DEF IInv
<1>2. /\ a \notin DOMAIN msgs
      /\ DOMAIN msgs' = DOMAIN msgs \cup {a}
      /\ msgs'[a] = [what |-> what, id |-> FirstId(what)]
      /\ \A b \in DOMAIN msgs : msgs'[b] = msgs[b]
      /\ to_send' \in Seq(Addr)
      /\ Len(to_send) \in Nat /\ Len(to_send') = Len(to_send) + 1
      /\ DOMAIN to_send = 1 .. Len(to_send) /\ DOMAIN to_send' = 1 .. Len(to_send')
      /\ \A k \in DOMAIN to_send : k \in DOMAIN to_send' /\ to_send'[k] = to_send[k]
      /\ to_send'[Len(to_send')] = a /\ Len(to_send') \in DOMAIN to_send'
      /\ \A k \in DOMAIN to_send' : k \in DOMAIN to_send \/ k = Len(to_send')
      /\ Queued' = Queued \cup {a}
      /\ control' = control /\ msg_num' = msg_num
      /\ Controlled' = Controlled
  BY <1>1, PutFacts
<1>3. /\ prompt' = prompt /\ wire' = wire /\ from_peer' = from_peer /\ received' = received
      /\ written' = written /\ fails' = fails
  BY DEF setting, peer
<1>4. /\ created \in Nat /\ created' \in Nat /\ created <= created' /\ what \in 0 .. created'
      /\ what # Receipt => what = created + 1
      /\ FirstId(what) = IF what = Receipt THEN NO_REQ_ID ELSE NO_ID
      /\ msg_num \in Nat \ {0}
  BY <1>1 DEF Counters, Receipt, FirstId
<1>5. /\ \A b \in DOMAIN msgs :
             /\ msgs[b].what \in Int /\ 0 <= msgs[b].what /\ msgs[b].what <= created
             /\ msgs[b].id \in Int /\ NO_REQ_ID <= msgs[b].id /\ msgs[b].id < msg_num
      /\ \A k \in DOMAIN wire :
             /\ wire[k].what \in Int /\ 0 < wire[k].what /\ wire[k].what <= created
             /\ wire[k].id \in Int /\ 0 < wire[k].id /\ wire[k].id < msg_num
      /\ \A k \in DOMAIN received :
             received[k] \in Int /\ 0 < received[k] /\ received[k] <= created
  BY <1>1, TypesOfItems
<1>6. /\ msgs'[a].what = what
      /\ msgs'[a].id = IF what = Receipt THEN NO_REQ_ID ELSE NO_ID
  BY <1>2, <1>4
<1>7. TypeOK'
  <2>1. DOMAIN msgs' \subseteq Addr
    BY <1>1, <1>2 DEF TypeOK
  <2>2. \A b \in DOMAIN msgs' :
            msgs'[b] \in [what : 0 .. created', id : NO_REQ_ID .. (msg_num' - 1)]
    <3>1. msgs'[a] \in [what : 0 .. created', id : NO_REQ_ID .. (msg_num' - 1)]
      BY <1>2, <1>4 DEF NO_REQ_ID, NO_ID
    <3>2. \A b \in DOMAIN msgs :
              msgs'[b] \in [what : 0 .. created', id : NO_REQ_ID .. (msg_num' - 1)]
      <4>1. [what : 0 .. created, id : NO_REQ_ID .. (msg_num - 1)]
                \subseteq [what : 0 .. created', id : NO_REQ_ID .. (msg_num' - 1)]
        BY <1>2, <1>4
      <4>2. \A b \in DOMAIN msgs :
                msgs[b] \in [what : 0 .. created, id : NO_REQ_ID .. (msg_num - 1)]
        BY <1>1 DEF TypeOK
      <4> QED BY <1>2, <4>1, <4>2, Zenon
    <3> QED BY <1>2, <3>1, <3>2
  <2>3. wire' \in Seq([what : 1 .. created', id : 1 .. (msg_num' - 1)])
    <3>1. [what : 1 .. created, id : 1 .. (msg_num - 1)]
              \subseteq [what : 1 .. created', id : 1 .. (msg_num' - 1)]
      BY <1>2, <1>4
    <3>2. wire \in Seq([what : 1 .. created, id : 1 .. (msg_num - 1)])
      BY <1>1 DEF TypeOK
    <3> QED BY <1>3, <3>1, <3>2, SeqOfMore
  <2> QED BY <1>1, <1>2, <1>3, <2>1, <2>2, <2>3 DEF TypeOK
<1>8. Counters'
  <2>1. received' \in Seq(1 .. created')
    BY <1>1, <1>3, <1>4 DEF Counters
  <2> QED BY <1>1, <1>2, <1>3, <1>4, <2>1 DEF Counters
<1>9. Distinct'
  <2>1. \A b \in DOMAIN msgs' : msgs'[b].what = Receipt <=> msgs'[b].id = NO_REQ_ID
    BY <1>1, <1>2, <1>6 DEF Distinct, NO_REQ_ID, NO_ID
  <2>2. \A b \in DOMAIN msgs :
            ~\/ msgs'[a].what = msgs'[b].what /\ msgs'[a].what # Receipt
             \/ msgs'[a].id = msgs'[b].id /\ msgs'[a].id > NO_ID
    BY <1>2, <1>4, <1>5, <1>6 DEF NO_REQ_ID, NO_ID
  <2> QED BY <1>1, <1>2, <2>1, <2>2 DEF Distinct
<1>10. ControlSound'
  BY <1>1, <1>2 DEF ControlSound
<1>11. Held'
  BY <1>1, <1>2 DEF Held
<1>12. Numbered'
  <2>1. ASSUME NEW b \in DOMAIN msgs'
        PROVE  /\ \A k \in DOMAIN wire' : wire'[k].id = msgs'[b].id => wire'[k].what = msgs'[b].what
               /\ Confirms(from_peer, b)' /\ Confirms(to_process, b)'
    <3>1. CASE b = a
      <4>1. \A k \in DOMAIN wire : wire[k].id > NO_ID
        BY <1>5 DEF NO_ID
      <4> QED BY <1>3, <1>6, <3>1, <4>1 DEF Confirms, NO_ID, NO_REQ_ID
    <3>2. CASE b \in DOMAIN msgs
      BY <1>1, <1>2, <1>3, <3>2 DEF Numbered, Confirms
    <3> QED BY <1>2, <3>1, <3>2
  <2> QED BY <2>1 DEF Numbered
<1>13. AttemptsWritten'
  BY <1>1, <1>2, <1>3 DEF AttemptsWritten, ControlSound
<1>14. NoResend'
  <2> SUFFICES ASSUME prompt PROVE NoResend'
    BY <1>3 DEF NoResend
  <2>1. Fresh(a)'
    BY <1>3, <1>4, <1>5, <1>6 DEF Fresh, Range
  <2>2. \A b \in DOMAIN msgs : Fresh(b) => Fresh(b)'
    BY <1>2, <1>3 DEF Fresh
  <2>3. a \notin Controlled
    BY <1>1, <1>2 DEF ControlSound, Controlled
  <2>4. \A k \in DOMAIN to_send' :
            to_send'[k] \in DOMAIN msgs' \ Controlled' /\ Fresh(to_send[k])'
    <3>1. \A k \in DOMAIN to_send : to_send[k] \in DOMAIN msgs \ Controlled /\ Fresh(to_send[k])
      BY <1>1, Zenon DEF NoResend
    <3> SUFFICES ASSUME NEW k \in DOMAIN to_send'
                 PROVE  to_send'[k] \in DOMAIN msgs' \ Controlled' /\ Fresh(to_send[k])'
      OBVIOUS
    <3>2. CASE k \in DOMAIN to_send
      <4>1. to_send'[k] = to_send[k]
        BY <1>2, <3>2
      <4> QED BY <1>2, <2>2, <3>1, <3>2, <4>1, Zenon
    <3>3. CASE to_send'[k] = a
      BY <1>2, <2>1, <2>3, <3>3, Zenon
    <3> QED BY <1>2, <3>2, <3>3
  <2>5. \A j, k \in DOMAIN to_send' : to_send'[j] = to_send'[k] => j = k
    BY <1>1, <1>2 DEF NoResend
  <2>6. NoResend
    BY <1>1
  <2> QED BY <1>2, <1>3, <2>4, <2>5, <2>6, Zenon DEF NoResend
<1>15. InOrder'
  <2> SUFFICES ASSUME prompt, fails = 0 PROVE InOrder'
    BY <1>3 DEF InOrder
  <2>1. \A k \in DOMAIN to_send : to_send[k] \in DOMAIN msgs
    BY <1>1 DEF NoResend
  <2>2. ASSUME NEW n \in msg_num' .. created'
        PROVE  \E j \in DOMAIN to_send' : msgs'[to_send'[j]].what = n
    <3>1. CASE n = created' /\ created' = created + 1
      BY <1>2, <1>4, <1>6, <3>1 DEF Receipt
    <3>2. CASE n \in msg_num .. created
      BY <1>1, <1>2, <2>1, <3>2 DEF InOrder
    <3> QED BY <1>2, <1>4, <3>1, <3>2
  <2>3. ASSUME NEW k \in DOMAIN to_send', msgs'[to_send'[k]].what # Receipt
        PROVE  /\ msgs'[to_send'[k]].id = NO_ID /\ msgs'[to_send'[k]].what >= msg_num'
               /\ \A j \in DOMAIN to_send' :
                      j < k => msgs'[to_send'[j]].what < msgs'[to_send'[k]].what
    <3>1. CASE k \in DOMAIN to_send
      <4>1. \A j \in DOMAIN to_send' : j < k => j \in DOMAIN to_send
        BY <1>2, <3>1
      <4> QED BY <1>1, <1>2, <2>1, <2>3, <3>1, <4>1 DEF InOrder
    <3>2. CASE k = Len(to_send')
      <4>1. what = created + 1 /\ msgs'[to_send'[k]].what = created + 1
        BY <1>2, <1>4, <1>6, <2>3, <3>2
      <4>2. msg_num <= created + 1
        BY <1>1 DEF InOrder
      <4>3. \A j \in DOMAIN to_send' : j < k => j \in DOMAIN to_send
        BY <1>2, <3>2
      <4> QED BY <1>2, <1>4, <1>5, <1>6, <2>1, <3>2, <4>1, <4>2, <4>3 DEF Receipt
    <3> QED BY <1>2, <3>1, <3>2
  <2>4. /\ msg_num' = Len(received') + Len(wire') + 1 /\ msg_num' <= created' + 1
        /\ \A k \in DOMAIN received' : received'[k] = k
        /\ \A k \in DOMAIN wire' : wire'[k].what = Len(received') + k
    BY <1>1, <1>2, <1>3, <1>4 DEF InOrder
  <2> QED BY <2>2, <2>3, <2>4, Zenon DEF InOrder
<1>16. OverdueQueued'
  <2>1. \A k \in DOMAIN control : control[k].msg # a
    BY <1>1, <1>2 DEF ControlSound
  <2> QED BY <1>1, <1>2, <1>3, <2>1 DEF OverdueQueued
<1> QED BY <1>7, <1>8, <1>9, <1>10, <1>11, <1>12, <1>13, <1>14, <1>15, <1>16 DEF IInv

\* Somebody has something to say.
LEMMA SendStep ==
    ASSUME DeliveryAssumption, IInv, NEW a \in Addr, send_msg(a)
    PROVE  IInv'
<1>1. created \in 0 .. MaxMsgs /\ to_process \in Seq(GameField .. (msg_num - 1)) /\ Numbered
  BY DEF IInv, TypeOK, Counters
<1>2. MaxMsgs \in Nat
  BY DEF DeliveryAssumption
<1>3. Put(a, created')
  BY DEF send_msg
<1>4. /\ created' = created + 1 /\ created' \in 0 .. MaxMsgs
      /\ UNCHANGED <<setting, peer, written, fails>>
      /\ pc \in {"select", "process"} /\ pc' = pc
      /\ to_process' = to_process
  BY <1>1, <1>2 DEF send_msg
<1>5. \A b \in DOMAIN msgs : Confirms(to_process', b)
  BY <1>1, <1>4 DEF Numbered
<1> QED BY <1>1, <1>3, <1>4, <1>5, PutKeeps

\* A list with one more item has all it had and that one.
LEMMA AppendItems ==
    ASSUME NEW S, NEW s \in Seq(S), NEW e \in S
    PROVE  /\ Append(s, e) \in Seq(S)
           /\ Len(s) \in Nat /\ Len(Append(s, e)) = Len(s) + 1
           /\ DOMAIN s = 1 .. Len(s) /\ DOMAIN Append(s, e) = 1 .. Len(Append(s, e))
           /\ \A k \in DOMAIN s : k \in DOMAIN Append(s, e) /\ Append(s, e)[k] = s[k]
           /\ Append(s, e)[Len(s) + 1] = e /\ Len(s) + 1 \in DOMAIN Append(s, e)
           /\ \A k \in DOMAIN Append(s, e) : k \in DOMAIN s \/ k = Len(s) + 1
           /\ Range(Append(s, e)) = Range(s) \cup {e}
<1> DEFINE t == Append(s, e)
<1>1. /\ t \in Seq(S)
      /\ Len(s) \in Nat /\ Len(t) = Len(s) + 1
      /\ DOMAIN s = 1 .. Len(s) /\ DOMAIN t = 1 .. Len(t)
      /\ \A k \in DOMAIN s : k \in DOMAIN t /\ t[k] = s[k]
      /\ t[Len(s) + 1] = e /\ Len(s) + 1 \in DOMAIN t
      /\ \A k \in DOMAIN t : k \in DOMAIN s \/ k = Len(s) + 1
  OBVIOUS
<1> HIDE DEF t
<1>2. Range(t) \subseteq Range(s) \cup {e}
  BY <1>1 DEF Range
<1>3. Range(s) \subseteq Range(t) /\ e \in Range(t)
  BY <1>1, Zenon DEF Range
<1> QED BY <1>1, <1>2, <1>3 DEF t

\* What is left of a list has fewer items, but no others.
LEMMA TailItems ==
    ASSUME NEW S, NEW s \in Seq(S), s # <<>>
    PROVE  /\ Tail(s) \in Seq(S)
           /\ Head(s) = s[1] /\ 1 \in DOMAIN s
           /\ Len(s) \in Nat \ {0} /\ Len(Tail(s)) = Len(s) - 1
           /\ DOMAIN s = 1 .. Len(s) /\ DOMAIN Tail(s) = 1 .. Len(Tail(s))
           /\ \A k \in DOMAIN Tail(s) : k + 1 \in DOMAIN s /\ Tail(s)[k] = s[k + 1]
           /\ \A k \in DOMAIN s : k = 1 \/ (k - 1 \in DOMAIN Tail(s) /\ Tail(s)[k - 1] = s[k])
  OBVIOUS

LEMMA TailRange ==
    ASSUME NEW S, NEW s \in Seq(S), s # <<>>
    PROVE  Range(s) = Range(Tail(s)) \cup {Head(s)}
<1> DEFINE rest == Tail(s)
           a    == Head(s)
<1>1. /\ a = s[1] /\ 1 \in DOMAIN s
      /\ \A k \in DOMAIN rest : k + 1 \in DOMAIN s /\ rest[k] = s[k + 1]
      /\ \A k \in DOMAIN s : k = 1 \/ (k - 1 \in DOMAIN rest /\ rest[k - 1] = s[k])
  BY TailItems
<1> HIDE DEF rest, a
<1>2. Range(rest) \subseteq Range(s)
  <2>1. \A k \in DOMAIN rest : k + 1 \in DOMAIN s /\ rest[k] = s[k + 1]
    BY <1>1
  <2>2. ASSUME NEW r \in Range(rest) PROVE r \in Range(s)
    <3>1. PICK k \in DOMAIN rest : r = rest[k]
      BY Zenon DEF Range
    <3>2. k + 1 \in DOMAIN s /\ r = s[k + 1]
      BY <2>1, <3>1, Zenon
    <3> QED BY <3>2, Zenon DEF Range
  <2> QED BY <2>2, Zenon
<1>5. a \in Range(s)
  BY <1>1, Zenon DEF Range
<1>3. ASSUME NEW k \in DOMAIN s PROVE s[k] \in Range(rest) \cup {a}
  <2>1. CASE k = 1
    BY <1>1, <2>1, Zenon
  <2>2. CASE k - 1 \in DOMAIN rest /\ rest[k - 1] = s[k]
    BY <2>2, Zenon DEF Range
  <2> QED BY <1>1, <2>1, <2>2
<1>4. Range(s) \subseteq Range(rest) \cup {a}
  BY <1>3, Zenon DEF Range
<1> QED BY <1>2, <1>4, <1>5, Zenon DEF rest, a

\* A message that was processed is not there any more.
LEMMA ProcessedItem ==
    ASSUME IInv, to_process # <<>>
    PROVE  /\ Tail(to_process) \in Seq(GameField .. (msg_num - 1))
           /\ <<Receipt>> \o Tail(to_process) \in Seq(GameField .. (msg_num - 1))
           /\ \A b \in DOMAIN msgs :
                  Confirms(Tail(to_process), b) /\ Confirms(<<Receipt>> \o Tail(to_process), b)
<1> DEFINE rest == Tail(to_process)
           next == <<Receipt>> \o rest
<1>1. to_process \in Seq(GameField .. (msg_num - 1)) /\ msg_num \in Nat \ {0} /\ Numbered
  BY DEF IInv, TypeOK, Counters
<1>2. /\ rest \in Seq(GameField .. (msg_num - 1))
      /\ \A k \in DOMAIN rest : k + 1 \in DOMAIN to_process /\ rest[k] = to_process[k + 1]
  BY <1>1, TailItems
<1>3. Receipt \in GameField .. (msg_num - 1)
  BY <1>1 DEF Receipt, GameField
<1> HIDE DEF rest
<1>4. /\ next \in Seq(GameField .. (msg_num - 1))
      /\ \A k \in DOMAIN next : next[k] = Receipt \/ (k - 1 \in DOMAIN rest /\ next[k] = rest[k - 1])
  BY <1>2, <1>3
<1> HIDE DEF next
<1>5. \A b \in DOMAIN msgs : Confirms(rest, b)
  BY <1>1, <1>2 DEF Numbered, Confirms
<1>6. \A b \in DOMAIN msgs : Confirms(next, b)
  BY <1>4, <1>5 DEF Confirms, Receipt, NO_ID
<1> QED BY <1>2, <1>4, <1>5, <1>6 DEF rest, next

LEMMA ProcessMsgStep ==
    ASSUME DeliveryAssumption, IInv, NEW a \in Addr, ProcessMsg(a)
    PROVE  IInv'
<1>1. /\ Put(a, Receipt) /\ to_process # <<>> /\ to_process' = Tail(to_process)
      /\ UNCHANGED <<setting, peer, written, fails>>
      /\ created' = created /\ pc = "process" /\ pc' = pc
  BY DEF ProcessMsg, counters
<1>2. created' \in 0 .. MaxMsgs
  BY <1>1 DEF IInv, Counters
<1> QED BY <1>1, <1>2, ProcessedItem, PutKeeps

\* What the program does without touching its messages, as long as nothing is
\* written or read by the peer.
LEMMA MessagesKept ==
    ASSUME DeliveryAssumption, IInv,
           UNCHANGED <<setting, memory, wire, received, written, created, fails>>,
           \/ pc' = pc
           \/ pc \in {"select", "process"} /\ pc' \in {"select", "process", "write"}
           \/ pc' = "crashed" /\ pc # "closed",
           from_peer' \in Seq(GameField .. (msg_num - 1)),
           to_process' \in Seq(GameField .. (msg_num - 1)),
           \A b \in DOMAIN msgs : Confirms(from_peer', b) /\ Confirms(to_process', b)
    PROVE  IInv'
<1>1. /\ TypeOK /\ Counters /\ Distinct /\ ControlSound /\ Held /\ Numbered /\ AttemptsWritten
      /\ NoResend /\ InOrder /\ OverdueQueued
  BY DEF IInv
<1>2. /\ prompt' = prompt /\ msgs' = msgs /\ to_send' = to_send /\ control' = control
      /\ msg_num' = msg_num
      /\ wire' = wire /\ received' = received /\ written' = written /\ created' = created
      /\ fails' = fails
  BY DEF setting, memory
<1>3. Controlled' = Controlled /\ Queued' = Queued
  BY <1>2 DEF Controlled, Queued
<1>4. \A b : Fresh(b)' <=> Fresh(b)
  BY <1>2 DEF Fresh
<1>5. TypeOK'
  BY <1>1, <1>2 DEF TypeOK
<1>6. Counters' /\ Distinct' /\ ControlSound' /\ AttemptsWritten'
  BY <1>1, <1>2 DEF Counters, Distinct, ControlSound, AttemptsWritten
<1>7. Held'
  BY <1>1, <1>2, <1>3 DEF Held
<1>8. Numbered'
  BY <1>1, <1>2 DEF Numbered, Confirms
<1>9. NoResend'
  BY <1>1, <1>2, <1>3, <1>4 DEF NoResend
<1>10. InOrder'
  BY <1>1, <1>2 DEF InOrder
<1>11. OverdueQueued'
  BY <1>1, <1>2, <1>3 DEF OverdueQueued
<1> QED BY <1>5, <1>6, <1>7, <1>8, <1>9, <1>10, <1>11 DEF IInv

LEMMA ProcessFieldStep ==
    ASSUME DeliveryAssumption, IInv, NEW a \in Addr, ProcessField(a)
    PROVE  IInv'
<1>1. /\ to_process # <<>> /\ to_process' = <<Receipt>> \o Tail(to_process)
      /\ UNCHANGED <<setting, peer, counters>> /\ pc = "process" /\ pc' = pc
  BY DEF ProcessField
<1>2. CASE Put(a, Receipt)
  <2>1. created' = created /\ created' \in 0 .. MaxMsgs /\ UNCHANGED <<written, fails>>
    BY <1>1 DEF IInv, Counters, counters
  <2> QED BY <1>1, <1>2, <2>1, ProcessedItem, PutKeeps
<1>3. CASE UNCHANGED memory
  <2>1. UNCHANGED <<setting, memory, wire, received, written, created, fails>>
    BY <1>1, <1>3 DEF counters, peer
  <2>2. from_peer' = from_peer
    BY <1>1 DEF peer
  <2>3. /\ from_peer' \in Seq(GameField .. (msg_num - 1))
        /\ \A b \in DOMAIN msgs : Confirms(from_peer', b)
    BY <2>2 DEF IInv, TypeOK, Numbered
  <2> QED BY <1>1, <2>1, <2>3, ProcessedItem, MessagesKept
<1> QED BY <1>2, <1>3 DEF ProcessField

LEMMA SelectStep ==
    ASSUME DeliveryAssumption, IInv, Select
    PROVE  IInv'
<1>1. /\ UNCHANGED <<setting, memory, wire, received, written, created, fails>>
      /\ pc = "select" /\ pc' \in {"process", "write"}
      /\ to_process' = from_peer /\ from_peer' = <<>>
  BY DEF Select, counters
<1>2. /\ from_peer \in Seq(GameField .. (msg_num - 1))
      /\ \A b \in DOMAIN msgs : Confirms(from_peer, b)
  BY DEF IInv, TypeOK, Numbered
<1>3. <<>> \in Seq(GameField .. (msg_num - 1)) /\ \A b \in DOMAIN msgs : Confirms(<<>>, b)
  BY DEF Confirms
<1> QED BY <1>1, <1>2, <1>3, MessagesKept

\* What is there to be read or processed while it stays.
LEMMA NotYetProcessed ==
    ASSUME IInv
    PROVE  /\ from_peer \in Seq(GameField .. (msg_num - 1))
           /\ to_process \in Seq(GameField .. (msg_num - 1))
           /\ \A b \in DOMAIN msgs : Confirms(from_peer, b) /\ Confirms(to_process, b)
  BY DEF IInv, TypeOK, Numbered

LEMMA ProcessDoneStep ==
    ASSUME DeliveryAssumption, IInv, ProcessDone
    PROVE  IInv'
<1>1. /\ UNCHANGED <<setting, memory, wire, received, written, created, fails>>
      /\ pc = "process" /\ pc' \in {"select", "write"}
      /\ to_process' = to_process /\ from_peer' = from_peer
  BY DEF ProcessDone, counters, peer
<1> QED BY <1>1, NotYetProcessed, MessagesKept

LEMMA WriteDeletedStep ==
    ASSUME DeliveryAssumption, IInv, WriteDeleted
    PROVE  IInv'
<1>1. /\ UNCHANGED <<setting, memory, wire, received, written, created, fails>>
      /\ pc = "write" /\ pc' = "crashed"
      /\ to_process' = to_process /\ from_peer' = from_peer
  BY DEF WriteDeleted, counters, peer
<1> QED BY <1>1, NotYetProcessed, MessagesKept

LEMMA PeerSendsStep ==
    ASSUME DeliveryAssumption, IInv, PeerSends
    PROVE  IInv'
<1>1. PICK m \in {Receipt, GameField} : from_peer' = Append(from_peer, m)
  BY DEF PeerSends
<1>2. /\ UNCHANGED <<setting, memory, wire, received, written, created, fails>>
      /\ pc' = pc /\ to_process' = to_process
  BY DEF PeerSends, counters
<1>3. m \in GameField .. (msg_num - 1) /\ ~(m > NO_ID)
  BY DEF IInv, Counters, Receipt, GameField, NO_ID
<1>4. /\ from_peer' \in Seq(GameField .. (msg_num - 1))
      /\ \A k \in DOMAIN from_peer' :
             from_peer'[k] = m \/ (k \in DOMAIN from_peer /\ from_peer'[k] = from_peer[k])
  BY <1>1, <1>3, NotYetProcessed
<1>5. \A b \in DOMAIN msgs : Confirms(from_peer', b)
  BY <1>3, <1>4, NotYetProcessed DEF Confirms
<1> QED BY <1>2, <1>4, <1>5, NotYetProcessed, MessagesKept

LEMMA StandStill ==
    ASSUME DeliveryAssumption, IInv, UNCHANGED vars
    PROVE  IInv'
<1>1. /\ UNCHANGED <<setting, memory, wire, received, written, created, fails>>
      /\ pc' = pc /\ to_process' = to_process /\ from_peer' = from_peer
  BY DEF vars, peer, counters
<1> QED BY <1>1, NotYetProcessed, MessagesKept

-----------------------------------------------------------------------------
(***************************************************************************)
(* Messages that are deleted, and messages that are sent again             *)
(***************************************************************************)

\* What goes away and what stays.
LEMMA RemoveFacts ==
    ASSUME TypeOK, NEW gone, control' = ControlWithout(gone), msgs' = MsgsWithout(gone)
    PROVE  /\ control' \in Seq([msg : Addr, age : 0 .. (RESEND_TIME + 1), resend_cnt : Int])
           /\ DOMAIN msgs' = DOMAIN msgs \ gone
           /\ \A b \in DOMAIN msgs \ gone : msgs'[b] = msgs[b]
           /\ Controlled' = Controlled \ gone
           /\ \E g :
                 /\ \A k \in DOMAIN control' :
                       /\ g[k] \in DOMAIN control /\ control'[k] = control[g[k]]
                       /\ control[g[k]].msg \notin gone
                 /\ \A j, k \in DOMAIN control' : g[j] = g[k] => j = k
<1> DEFINE Item == [msg : Addr, age : 0 .. (RESEND_TIME + 1), resend_cnt : Int]
           I    == {k \in DOMAIN control : control[k].msg \notin gone}
<1>1. control \in Seq(Item)
  BY DEF TypeOK
<1>2. I \in SUBSET DOMAIN control /\ control' = Sublist(control, I)
  BY DEF ControlWithout
<1>3. control' \in Seq(Item) /\ Takes(control', control, I)
  <2> HIDE DEF Item, I
  <2> QED BY <1>1, <1>2, SublistTakes
<1>4. DOMAIN control' = 1 .. Len(control')
  BY <1>3
<1>5. PICK g \in [1 .. Len(control') -> I] :
          /\ \A k \in 1 .. Len(control') : control'[k] = control[g[k]]
          /\ \A j, k \in 1 .. Len(control') : g[j] = g[k] => j = k
          /\ \A i \in I : \E k \in 1 .. Len(control') : g[k] = i
  BY <1>3, Zenon DEF Takes
<1>6. \A k \in 1 .. Len(control') : g[k] \in I
  BY <1>5
<1>7. Controlled' = Controlled \ gone
  <2>1. ASSUME NEW c \in Controlled' PROVE c \in Controlled \ gone
    <3>1. PICK k \in DOMAIN control' : c = control'[k].msg
      BY Zenon DEF Controlled
    <3>2. g[k] \in DOMAIN control /\ c = control[g[k]].msg /\ control[g[k]].msg \notin gone
      BY <1>4, <1>5, <1>6, <3>1
    <3> QED BY <3>2, Zenon DEF Controlled
  <2>2. ASSUME NEW c \in Controlled \ gone PROVE c \in Controlled'
    <3>1. PICK i \in DOMAIN control : c = control[i].msg
      BY Zenon DEF Controlled
    <3>2. i \in I
      BY <3>1
    <3>3. PICK k \in 1 .. Len(control') : g[k] = i
      BY <1>5, <3>2, Zenon
    <3>4. k \in DOMAIN control' /\ c = control'[k].msg
      BY <1>4, <1>5, <3>1, <3>3
    <3> QED BY <3>4, Zenon DEF Controlled
  <2> QED BY <2>1, <2>2, Zenon
<1>8. DOMAIN msgs' = DOMAIN msgs \ gone /\ \A b \in DOMAIN msgs \ gone : msgs'[b] = msgs[b]
  BY DEF MsgsWithout
<1>9. \A k \in DOMAIN control' :
          /\ g[k] \in DOMAIN control /\ control'[k] = control[g[k]]
          /\ control[g[k]].msg \notin gone
  BY <1>4, <1>5, <1>6
<1>10. \A j, k \in DOMAIN control' : g[j] = g[k] => j = k
  BY <1>4, <1>5, Zenon
<1> HIDE DEF I
<1> QED BY <1>3, <1>7, <1>8, <1>9, <1>10, Zenon

\* Messages under control are deleted, and some of them are put in the queue.
LEMMA RemovalKeeps ==
    ASSUME DeliveryAssumption, IInv, NEW gone, gone \subseteq Controlled,
           control' = ControlWithout(gone), msgs' = MsgsWithout(gone),
           UNCHANGED <<setting, peer, msg_num, written, created, fails>>,
           to_process' \in Seq(GameField .. (msg_num - 1)),
           \A b \in DOMAIN msgs : Confirms(to_process', b),
           to_send' \in Seq(Addr), Queued \subseteq Queued',
           prompt => to_send' = to_send,
           pc # "closed", pc' \in {"select", "process"},
           fails = 0 => \A k \in DOMAIN control :
                            control[k].msg \in Queued' => control[k].age > RESEND_TIME
    PROVE  IInv'
<1>1. /\ TypeOK /\ Counters /\ Distinct /\ ControlSound /\ Held /\ Numbered /\ AttemptsWritten
      /\ NoResend /\ InOrder
  BY DEF IInv
<1>2. /\ prompt' = prompt /\ wire' = wire /\ from_peer' = from_peer /\ received' = received
      /\ written' = written /\ created' = created /\ fails' = fails /\ msg_num' = msg_num
  BY DEF setting, peer
<1>3. /\ control' \in Seq([msg : Addr, age : 0 .. (RESEND_TIME + 1), resend_cnt : Int])
      /\ DOMAIN msgs' = DOMAIN msgs \ gone
      /\ \A b \in DOMAIN msgs \ gone : msgs'[b] = msgs[b]
      /\ Controlled' = Controlled \ gone
      /\ \E g :
            /\ \A k \in DOMAIN control' :
                  /\ g[k] \in DOMAIN control /\ control'[k] = control[g[k]]
                  /\ control[g[k]].msg \notin gone
            /\ \A j, k \in DOMAIN control' : g[j] = g[k] => j = k
  BY <1>1, RemoveFacts
<1>4. \A b \in DOMAIN msgs' : b \in DOMAIN msgs /\ b \notin gone /\ msgs'[b] = msgs[b]
  BY <1>3
<1>5. PICK g :
          /\ \A k \in DOMAIN control' :
                /\ g[k] \in DOMAIN control /\ control'[k] = control[g[k]]
                /\ control[g[k]].msg \notin gone
          /\ \A j, k \in DOMAIN control' : g[j] = g[k] => j = k
  BY <1>3
<1>6. \A k \in DOMAIN control :
          control[k].msg \in DOMAIN msgs /\ msgs[control[k].msg].id > NO_ID
  BY <1>1 DEF ControlSound
<1>7. \A k \in DOMAIN control' :
          /\ control'[k].msg = control[g[k]].msg
          /\ control'[k].msg \in DOMAIN msgs'
          /\ msgs'[control'[k].msg] = msgs[control[g[k]].msg]
  BY <1>3, <1>5, <1>6
<1>8. TypeOK'
  BY <1>1, <1>2, <1>3, <1>4 DEF TypeOK
<1>9. Counters'
  BY <1>1, <1>2 DEF Counters
<1>10. Distinct'
  BY <1>1, <1>4 DEF Distinct
<1>11. ControlSound'
  BY <1>1, <1>5, <1>6, <1>7 DEF ControlSound
<1>12. Held'
  BY <1>1, <1>3 DEF Held
<1>13. Numbered'
  BY <1>1, <1>2, <1>4 DEF Numbered, Confirms
<1>14. AttemptsWritten'
  BY <1>1, <1>2, <1>5, <1>7 DEF AttemptsWritten
<1>15. NoResend'
  <2> SUFFICES ASSUME prompt PROVE NoResend'
    BY <1>2 DEF NoResend
  <2>1. to_send' = to_send
    OBVIOUS
  <2>2. \A b \in DOMAIN msgs' : Fresh(b) => Fresh(b)'
    BY <1>2, <1>4 DEF Fresh
  <2>3. \A k \in DOMAIN to_send : to_send[k] \in DOMAIN msgs \ Controlled /\ Fresh(to_send[k])
    BY <1>1, Zenon DEF NoResend
  <2>4. \A k \in DOMAIN to_send' : to_send'[k] \in DOMAIN msgs' \ Controlled' /\ Fresh(to_send[k])'
    BY <1>3, <2>1, <2>2, <2>3
  <2>5. \A k \in DOMAIN control' :
            control'[k].age <= RESEND_TIME /\ control'[k].resend_cnt = RESEND_CNT
    BY <1>1, <1>5 DEF NoResend
  <2>6. NoResend
    BY <1>1
  <2> QED BY <1>2, <2>1, <2>4, <2>5, <2>6, Zenon DEF NoResend
<1>16. InOrder'
  <2> SUFFICES ASSUME prompt, fails = 0 PROVE InOrder'
    BY <1>2 DEF InOrder
  <2>1. to_send' = to_send
    OBVIOUS
  <2>2. \A k \in DOMAIN to_send : msgs'[to_send[k]] = msgs[to_send[k]]
    <3>1. \A k \in DOMAIN to_send : to_send[k] \in DOMAIN msgs \ Controlled
      BY <1>1 DEF NoResend
    <3> QED BY <1>3, <3>1
  <2> QED BY <1>1, <1>2, <2>1, <2>2 DEF InOrder
<1>17. OverdueQueued'
  BY <1>2, <1>5, <1>7 DEF OverdueQueued
<1> QED BY <1>8, <1>9, <1>10, <1>11, <1>12, <1>13, <1>14, <1>15, <1>16, <1>17 DEF IInv

LEMMA ProcessReceiptStep ==
    ASSUME DeliveryAssumption, IInv, ProcessReceipt
    PROVE  IInv'
<1> DEFINE gone == Acknowledged(Head(to_process))
<1>1. /\ control' = ControlWithout(gone) /\ msgs' = MsgsWithout(gone)
      /\ to_process # <<>> /\ to_process' = Tail(to_process) /\ to_send' = to_send
      /\ UNCHANGED <<setting, peer, msg_num, written, created, fails>>
      /\ pc = "process" /\ pc' = "process"
  BY DEF ProcessReceipt, counters
<1>2. gone \subseteq Controlled
  BY DEF Acknowledged
<1>3. to_send' \in Seq(Addr) /\ Queued' = Queued
  BY <1>1 DEF IInv, TypeOK, Queued
<1>4. fails = 0 => \A k \in DOMAIN control :
                       control[k].msg \in Queued' => control[k].age > RESEND_TIME
  BY <1>1, <1>3 DEF IInv, OverdueQueued
<1> HIDE DEF gone
<1> QED BY <1>1, <1>2, <1>3, <1>4, ProcessedItem, RemovalKeeps

\* Two lists behind one another.
LEMMA ConcatRange ==
    ASSUME NEW S, NEW s \in Seq(S), NEW t \in Seq(S)
    PROVE  s \o t \in Seq(S) /\ Range(s \o t) = Range(s) \cup Range(t)
<1> DEFINE u == s \o t
<1>1. /\ u \in Seq(S)
      /\ Len(s) \in Nat /\ Len(t) \in Nat /\ Len(u) = Len(s) + Len(t)
      /\ DOMAIN u = 1 .. Len(u) /\ DOMAIN s = 1 .. Len(s) /\ DOMAIN t = 1 .. Len(t)
      /\ \A k \in 1 .. Len(u) : u[k] = IF k <= Len(s) THEN s[k] ELSE t[k - Len(s)]
  OBVIOUS
<1> HIDE DEF u
<1>2. \A k \in DOMAIN u : u[k] \in Range(s) \cup Range(t)
  <2> SUFFICES ASSUME NEW k \in DOMAIN u PROVE u[k] \in Range(s) \cup Range(t)
    OBVIOUS
  <2>1. k \in 1 .. Len(s) + Len(t) /\ u[k] = IF k <= Len(s) THEN s[k] ELSE t[k - Len(s)]
    BY <1>1
  <2>2. CASE k <= Len(s)
    <3>1. k \in DOMAIN s /\ u[k] = s[k]
      BY <1>1, <2>1, <2>2
    <3> QED BY <3>1, Zenon DEF Range
  <2>3. CASE ~(k <= Len(s))
    <3>1. k - Len(s) \in DOMAIN t /\ u[k] = t[k - Len(s)]
      BY <1>1, <2>1, <2>3
    <3> QED BY <3>1, Zenon DEF Range
  <2> QED BY <2>2, <2>3
<1>3. Range(s) \subseteq Range(u)
  <2>1. \A k \in DOMAIN s : k \in DOMAIN u /\ u[k] = s[k]
    BY <1>1
  <2> QED BY <2>1, Zenon DEF Range
<1>4. Range(t) \subseteq Range(u)
  <2>1. ASSUME NEW k \in DOMAIN t PROVE k + Len(s) \in DOMAIN u /\ u[k + Len(s)] = t[k]
    <3>1. k \in 1 .. Len(t) /\ k + Len(s) \in 1 .. Len(u) /\ ~(k + Len(s) <= Len(s))
          /\ (k + Len(s)) - Len(s) = k
      BY <1>1
    <3> QED BY <1>1, <3>1
  <2> QED BY <2>1, Zenon DEF Range
<1>5. Range(u) \subseteq Range(s) \cup Range(t)
  BY <1>2, Zenon DEF Range
<1>6. Range(u) = Range(s) \cup Range(t)
  BY <1>3, <1>4, <1>5, Zenon
<1> QED BY <1>1, <1>6 DEF u

\* What is put in the queue again is what is overdue.
LEMMA OverdueFacts ==
    ASSUME TypeOK, Resend
    PROVE  /\ to_send' \in Seq(Addr)
           /\ Queued' = Queued \cup {control[k].msg : k \in {i \in DOMAIN control : need_resend(control[i])}}
           /\ (\A k \in DOMAIN control : ~need_resend(control[k])) => to_send' = to_send
<1> DEFINE I       == {k \in DOMAIN control : need_resend(control[k])}
           Item    == [msg : Addr, age : 0 .. (RESEND_TIME + 1), resend_cnt : Int]
           overdue == Sublist(control, I)
           again   == [k \in DOMAIN overdue |-> overdue[k].msg]
<1>1. control \in Seq(Item) /\ to_send \in Seq(Addr) /\ I \in SUBSET DOMAIN control
  BY DEF TypeOK
<1>2. to_send' = to_send \o again
  BY DEF Resend
<1>3. overdue \in Seq(Item) /\ Takes(overdue, control, I)
  <2> HIDE DEF Item, I
  <2> QED BY <1>1, SublistTakes
<1>4. /\ DOMAIN overdue = 1 .. Len(overdue) /\ Len(overdue) \in Nat
      /\ \A k \in DOMAIN overdue : overdue[k] \in Item
  <2> HIDE DEF overdue, Item
  <2> QED BY <1>3
<1>5. PICK g \in [1 .. Len(overdue) -> I] :
          /\ \A k \in 1 .. Len(overdue) : overdue[k] = control[g[k]]
          /\ \A j, k \in 1 .. Len(overdue) : g[j] = g[k] => j = k
          /\ \A i \in I : \E k \in 1 .. Len(overdue) : g[k] = i
  BY <1>3, Zenon DEF Takes
<1>6. \A k \in 1 .. Len(overdue) : g[k] \in I
  BY <1>5
<1> HIDE DEF overdue
<1>7. again \in Seq(Addr) /\ Len(again) = Len(overdue)
  BY <1>4
<1>8. Range(again) = {control[k].msg : k \in I}
  <2>1. ASSUME NEW c \in Range(again) PROVE c \in {control[k].msg : k \in I}
    <3>1. PICK k \in DOMAIN overdue : c = overdue[k].msg
      BY DEF Range
    <3>2. g[k] \in I /\ c = control[g[k]].msg
      BY <1>4, <1>5, <1>6, <3>1
    <3> HIDE DEF I
    <3> QED BY <3>2, Zenon
  <2>2. ASSUME NEW i \in I PROVE control[i].msg \in Range(again)
    <3>1. PICK k \in 1 .. Len(overdue) : g[k] = i
      BY <1>5, Zenon
    <3>2. k \in DOMAIN again /\ again[k] = control[i].msg
      BY <1>4, <1>5, <3>1
    <3> HIDE DEF again
    <3> QED BY <3>2, Zenon DEF Range
  <2> QED BY <2>1, <2>2
<1> HIDE DEF again
<1>9. /\ to_send' \in Seq(Addr)
      /\ Range(to_send') = Range(to_send) \cup Range(again)
  BY <1>1, <1>2, <1>7, ConcatRange
<1>10. (\A k \in DOMAIN control : ~need_resend(control[k])) => to_send' = to_send
  <2> SUFFICES ASSUME I = {} PROVE to_send' = to_send
    OBVIOUS
  <2>1. Len(overdue) = 0
    BY <1>4, <1>6
  <2>2. again = <<>>
    BY <1>7, <2>1
  <2> QED BY <1>1, <1>2, <2>2
<1> QED BY <1>8, <1>9, <1>10 DEF Queued

\* What has just used up its attempts was under control.
LEMMA RemovalsUnderControl ==
    ASSUME NEW gone \in Removals
    PROVE  \A b \in gone : \E k \in DOMAIN control : b = control[k].msg /\ exhausted(control[k])
<1> DEFINE old == {k \in DOMAIN control : exhausted(control[k])}
<1>1. gone = {} \/ \E n \in old : gone = {control[k].msg : k \in old \cap 1 .. n}
  BY DEF Removals
<1> QED BY <1>1

LEMMA ResendStep ==
    ASSUME DeliveryAssumption, IInv, Resend
    PROVE  IInv'
<1>1. PICK gone \in Removals : control' = ControlWithout(gone) /\ msgs' = MsgsWithout(gone)
  BY DEF Resend
<1>2. gone \subseteq Controlled
  BY RemovalsUnderControl, Zenon DEF Controlled
<1>3. /\ UNCHANGED <<setting, peer, msg_num, written, created, fails>>
      /\ to_process' = to_process
      /\ pc \in {"resend", "write"} /\ pc' \in {"process", "select"}
      /\ pc = "resend" \/ to_send = <<>>
  BY DEF Resend, counters
<1>4. TypeOK /\ Counters /\ ControlSound /\ NoResend
  BY DEF IInv
<1>5. /\ to_send' \in Seq(Addr)
      /\ Queued' = Queued \cup {control[k].msg : k \in {i \in DOMAIN control : need_resend(control[i])}}
      /\ (\A k \in DOMAIN control : ~need_resend(control[k])) => to_send' = to_send
  BY <1>4, OverdueFacts
<1>6. prompt => to_send' = to_send
  <2> SUFFICES ASSUME prompt, NEW k \in DOMAIN control PROVE ~need_resend(control[k])
    BY <1>5
  <2>1. control[k].age <= RESEND_TIME /\ control[k].age \in Int /\ RESEND_TIME \in Nat
    BY <1>4, TypesOfItems DEF NoResend, DeliveryAssumption
  <2> QED BY <2>1 DEF need_resend
<1>7. ASSUME fails = 0, NEW k \in DOMAIN control, control[k].msg \in Queued'
      PROVE  control[k].age > RESEND_TIME
  <2>1. to_send = <<>>
    BY <1>3, <1>4, <1>7 DEF Counters
  <2>2. Queued = {}
    BY <2>1 DEF Queued, Range
  <2>3. PICK i \in DOMAIN control : need_resend(control[i]) /\ control[i].msg = control[k].msg
    BY <1>5, <1>7, <2>2
  <2>4. i = k
    BY <1>4, <2>3 DEF ControlSound
  <2> QED BY <2>3, <2>4 DEF need_resend
<1>8. Queued \subseteq Queued'
  BY <1>5
<1> QED BY <1>1, <1>2, <1>3, <1>5, <1>6, <1>7, <1>8, NotYetProcessed, RemovalKeeps

-----------------------------------------------------------------------------
(***************************************************************************)
(* Time, and the connection                                                *)
(***************************************************************************)

LEMMA TickStep ==
    ASSUME DeliveryAssumption, IInv, Tick
    PROVE  IInv'
<1>1. /\ TypeOK /\ Counters /\ Distinct /\ ControlSound /\ Held /\ Numbered /\ AttemptsWritten
      /\ NoResend /\ InOrder /\ OverdueQueued
  BY DEF IInv
<1>2. /\ prompt' = prompt /\ msgs' = msgs /\ to_send' = to_send /\ msg_num' = msg_num
      /\ wire' = wire /\ from_peer' = from_peer /\ to_process' = to_process
      /\ received' = received /\ written' = written /\ created' = created /\ fails' = fails
      /\ pc' = pc
  BY DEF Tick, setting, peer, counters
<1>3. /\ control' = [k \in DOMAIN control |->
             IF control[k].age <= RESEND_TIME
             THEN [control[k] EXCEPT !.age = @ + 1] ELSE control[k]]
      /\ prompt => \A k \in DOMAIN control : control[k].age < RESEND_TIME
  BY DEF Tick, Range
<1>4. RESEND_TIME \in Nat
  BY DEF DeliveryAssumption
<1>5. \A k \in DOMAIN control :
          control[k] \in [msg : Addr, age : 0 .. (RESEND_TIME + 1), resend_cnt : Int]
  BY <1>1, ItemOfSeq DEF TypeOK
<1>6. \A k \in DOMAIN control :
          /\ control'[k].msg = control[k].msg
          /\ control'[k].resend_cnt = control[k].resend_cnt
          /\ control'[k].age = IF control[k].age <= RESEND_TIME
                               THEN control[k].age + 1 ELSE control[k].age
          /\ control'[k] \in [msg : Addr, age : 0 .. (RESEND_TIME + 1), resend_cnt : Int]
          /\ control[k].age \in 0 .. (RESEND_TIME + 1)
  BY <1>3, <1>4, <1>5
<1>7. DOMAIN control' = DOMAIN control /\ DOMAIN control = 1 .. Len(control) /\ Len(control) \in Nat
  BY <1>1, <1>3 DEF TypeOK
<1>8. control' \in Seq([msg : Addr, age : 0 .. (RESEND_TIME + 1), resend_cnt : Int])
  BY <1>3, <1>6, <1>7
<1>9. Controlled' = Controlled /\ Queued' = Queued
  <2>1. \A k \in DOMAIN control : control'[k].msg = control[k].msg
    BY <1>6
  <2>2. DOMAIN control' = DOMAIN control
    BY <1>7
  <2>3. Controlled' = Controlled
    BY <2>1, <2>2, Zenon DEF Controlled
  <2> QED BY <1>2, <2>3 DEF Queued
<1>10. \A b : Fresh(b)' <=> Fresh(b)
  BY <1>2 DEF Fresh
<1>11. TypeOK'
  BY <1>1, <1>2, <1>8 DEF TypeOK
<1>12. Counters' /\ Distinct'
  BY <1>1, <1>2 DEF Counters, Distinct
<1>13. ControlSound'
  BY <1>1, <1>2, <1>6, <1>7 DEF ControlSound
<1>14. AttemptsWritten'
  BY <1>1, <1>2, <1>6, <1>7 DEF AttemptsWritten
<1>15. Held'
  BY <1>1, <1>2, <1>9 DEF Held
<1>16. Numbered'
  BY <1>1, <1>2 DEF Numbered, Confirms
<1>17. NoResend'
  <2>1. prompt => \A k \in DOMAIN control' :
            control'[k].age <= RESEND_TIME /\ control'[k].resend_cnt = RESEND_CNT
    BY <1>1, <1>3, <1>4, <1>6, <1>7 DEF NoResend
  <2>2. \A k \in DOMAIN to_send : Fresh(to_send[k])' <=> Fresh(to_send[k])
    BY <1>2 DEF Fresh
  <2> QED BY <1>1, <1>2, <1>9, <2>1, <2>2 DEF NoResend
<1>18. InOrder'
  BY <1>1, <1>2 DEF InOrder
<1>19. OverdueQueued'
  BY <1>1, <1>2, <1>4, <1>6, <1>7, <1>9 DEF OverdueQueued
<1> QED BY <1>11, <1>12, <1>13, <1>14, <1>15, <1>16, <1>17, <1>18, <1>19 DEF IInv

LEMMA BreakStep ==
    ASSUME DeliveryAssumption, IInv, Break
    PROVE  IInv'
<1>1. /\ TypeOK /\ Counters /\ Distinct /\ ControlSound /\ Held /\ Numbered /\ AttemptsWritten
      /\ OverdueQueued
  BY DEF IInv
<1>2. /\ prompt' = prompt /\ ~prompt /\ msg_num' = msg_num
      /\ wire' = <<>> /\ from_peer' = <<>> /\ to_process' = to_process
      /\ received' = received /\ written' = written /\ created' = created /\ fails' = fails
      /\ pc = "select" /\ msg_num' = msg_num
      /\ \/ UNCHANGED <<msgs, to_send, control, pc>>
         \/ pc' = "closed" /\ msgs' = MsgsWithout(Range(to_send)) /\ to_send' = <<>> /\ control' = <<>>
  BY DEF Break, setting, memory
<1>3. \A b \in DOMAIN msgs' : b \in DOMAIN msgs /\ msgs'[b] = msgs[b]
  BY <1>2 DEF MsgsWithout
<1>4. DOMAIN <<>> = {}
  OBVIOUS
<1>5. TypeOK'
  <2>1. DOMAIN msgs' \subseteq Addr
    BY <1>1, <1>3 DEF TypeOK
  <2>2. \A b \in DOMAIN msgs' :
            msgs'[b] \in [what : 0 .. created', id : NO_REQ_ID .. (msg_num' - 1)]
    BY <1>1, <1>2, <1>3 DEF TypeOK
  <2>3. /\ to_send' \in Seq(Addr)
        /\ control' \in Seq([msg : Addr, age : 0 .. (RESEND_TIME + 1), resend_cnt : Int])
        /\ pc' \in {"select", "closed"}
    <3>1. \A S : <<>> \in Seq(S)
      OBVIOUS
    <3>2. /\ to_send \in Seq(Addr)
          /\ control \in Seq([msg : Addr, age : 0 .. (RESEND_TIME + 1), resend_cnt : Int])
      BY <1>1, Zenon DEF TypeOK
    <3>3. pc' \in {"select", "closed"}
      BY <1>2
    <3> QED BY <1>2, <3>1, <3>2, <3>3, Zenon
  <2>4. /\ wire' \in Seq([what : 1 .. created', id : 1 .. (msg_num' - 1)])
        /\ from_peer' \in Seq(GameField .. (msg_num' - 1))
        /\ to_process' \in Seq(GameField .. (msg_num' - 1))
    <3>1. \A S : <<>> \in Seq(S)
      OBVIOUS
    <3>2. to_process \in Seq(GameField .. (msg_num - 1))
      BY <1>1, Zenon DEF TypeOK
    <3> QED BY <1>2, <3>1, <3>2, Zenon
  <2> QED BY <2>1, <2>2, <2>3, <2>4 DEF TypeOK
<1>6. Counters'
  BY <1>1, <1>2 DEF Counters
<1>7. Distinct'
  BY <1>1, <1>3 DEF Distinct
<1>8. ControlSound' /\ AttemptsWritten'
  BY <1>1, <1>2, <1>4 DEF ControlSound, AttemptsWritten
<1>9. Held'
  BY <1>1, <1>2 DEF Held, Queued, Controlled
<1>10. Numbered'
  BY <1>1, <1>2, <1>3, <1>4 DEF Numbered, Confirms
<1>11. NoResend' /\ InOrder'
  BY <1>2 DEF NoResend, InOrder
<1>12. OverdueQueued'
  BY <1>1, <1>2, <1>4 DEF OverdueQueued, Queued
<1> QED BY <1>5, <1>6, <1>7, <1>8, <1>9, <1>10, <1>11, <1>12 DEF IInv

LEMMA PeerReadsStep ==
    ASSUME DeliveryAssumption, IInv, PeerReads
    PROVE  IInv'
<1> DEFINE first == Head(wire)
<1>1. /\ TypeOK /\ Counters /\ Distinct /\ ControlSound /\ Held /\ Numbered /\ AttemptsWritten
      /\ NoResend /\ InOrder /\ OverdueQueued
  BY DEF IInv
<1>2. /\ prompt' = prompt /\ msgs' = msgs /\ to_send' = to_send /\ control' = control
      /\ msg_num' = msg_num /\ to_process' = to_process
      /\ written' = written /\ created' = created /\ fails' = fails /\ pc' = pc
      /\ wire # <<>> /\ wire' = Tail(wire) /\ received' = Append(received, first.what)
  BY DEF PeerReads, setting, memory, counters
<1>3. PICK times \in {1, 2} : from_peer' = from_peer \o [k \in 1 .. times |-> first.id]
  BY DEF PeerReads
<1>4. /\ wire \in Seq([what : 1 .. created, id : 1 .. (msg_num - 1)])
      /\ received \in Seq(1 .. created)
      /\ from_peer \in Seq(GameField .. (msg_num - 1))
      /\ msg_num \in Nat \ {0}
  BY <1>1 DEF TypeOK, Counters
<1>5. /\ wire' \in Seq([what : 1 .. created, id : 1 .. (msg_num - 1)])
      /\ first = wire[1] /\ 1 \in DOMAIN wire
      /\ Len(wire) \in Nat \ {0} /\ Len(wire') = Len(wire) - 1
      /\ DOMAIN wire = 1 .. Len(wire) /\ DOMAIN wire' = 1 .. Len(wire')
      /\ \A k \in DOMAIN wire' : \E i \in DOMAIN wire : i = k + 1 /\ i # 1 /\ wire'[k] = wire[i]
  <2> HIDE DEF first
  <2> QED BY <1>2, <1>4, TailItems DEF first
<1>6. first.what \in 1 .. created /\ first.id \in 1 .. (msg_num - 1)
  <2>1. wire[1] \in [what : 1 .. created, id : 1 .. (msg_num - 1)]
    BY <1>4, <1>5, ItemOfSeq
  <2> QED BY <1>5, <2>1
<1> HIDE DEF first
<1>7. /\ received' \in Seq(1 .. created)
      /\ Len(received) \in Nat /\ Len(received') = Len(received) + 1
      /\ DOMAIN received = 1 .. Len(received) /\ DOMAIN received' = 1 .. Len(received')
      /\ \A k \in DOMAIN received : k \in DOMAIN received' /\ received'[k] = received[k]
      /\ received'[Len(received')] = first.what /\ Len(received') \in DOMAIN received'
      /\ \A k \in DOMAIN received' : k \in DOMAIN received \/ k = Len(received')
      /\ Range(received') = Range(received) \cup {first.what}
  <2> DEFINE S == 1 .. created
             e == first.what
  <2>1. received \in Seq(S) /\ e \in S /\ received' = Append(received, e)
    BY <1>2, <1>4, <1>6
  <2> HIDE DEF S, e
  <2>2. /\ received' \in Seq(S)
        /\ Len(received) \in Nat /\ Len(received') = Len(received) + 1
        /\ DOMAIN received = 1 .. Len(received) /\ DOMAIN received' = 1 .. Len(received')
        /\ \A k \in DOMAIN received : k \in DOMAIN received' /\ received'[k] = received[k]
        /\ received'[Len(received) + 1] = e /\ Len(received) + 1 \in DOMAIN received'
        /\ \A k \in DOMAIN received' : k \in DOMAIN received \/ k = Len(received) + 1
        /\ Range(received') = Range(received) \cup {e}
    BY <2>1, AppendItems
  <2> QED BY <2>2 DEF S, e
<1>8. Range(received') = Range(received) \cup {first.what}
  BY <1>7
<1>9. /\ from_peer' \in Seq(GameField .. (msg_num - 1))
      /\ \A k \in DOMAIN from_peer' : from_peer'[k] \in Range(from_peer) \cup {first.id}
  <2> DEFINE new == [k \in 1 .. times |-> first.id]
             Ids == GameField .. (msg_num - 1)
  <2>1. new \in Seq(Ids) /\ \A k \in DOMAIN new : new[k] = first.id
    BY <1>4, <1>6 DEF GameField
  <2>3. from_peer' = from_peer \o new /\ from_peer \in Seq(Ids)
    BY <1>3, <1>4
  <2> HIDE DEF new, Ids
  <2>2. from_peer' \in Seq(Ids) /\ Range(from_peer') = Range(from_peer) \cup Range(new)
    BY <2>1, <2>3, ConcatRange
  <2> QED BY <2>1, <2>2, Zenon DEF Range, Ids
<1>10. Controlled' = Controlled /\ Queued' = Queued
  BY <1>2 DEF Controlled, Queued
<1>11. TypeOK'
  BY <1>1, <1>2, <1>5, <1>9 DEF TypeOK
<1>12. Counters' /\ Distinct' /\ ControlSound' /\ AttemptsWritten'
  BY <1>1, <1>2, <1>7 DEF Counters, Distinct, ControlSound, AttemptsWritten
<1>13. Held' /\ OverdueQueued'
  BY <1>1, <1>2, <1>10 DEF Held, OverdueQueued
<1>14. Numbered'
  <2> SUFFICES ASSUME NEW b \in DOMAIN msgs
               PROVE  /\ \A k \in DOMAIN wire' : wire'[k].id = msgs[b].id => wire'[k].what = msgs[b].what
                      /\ \A k \in DOMAIN from_peer' : from_peer'[k] = msgs[b].id /\ from_peer'[k] > NO_ID
                             => msgs[b].what \in Range(received')
                      /\ \A k \in DOMAIN to_process : to_process[k] = msgs[b].id /\ to_process[k] > NO_ID
                             => msgs[b].what \in Range(received')
    BY <1>2 DEF Numbered, Confirms
  <2>1. ASSUME NEW k \in DOMAIN wire', wire'[k].id = msgs[b].id PROVE wire'[k].what = msgs[b].what
    <3>1. PICK i \in DOMAIN wire : wire'[k] = wire[i]
      BY <1>5
    <3> QED BY <1>1, <2>1, <3>1, Zenon DEF Numbered
  <2>2. first.id = msgs[b].id => first.what = msgs[b].what
    <3>1. \A k \in DOMAIN wire : wire[k].id = msgs[b].id => wire[k].what = msgs[b].what
      BY <1>1, Zenon DEF Numbered
    <3> QED BY <1>5, <3>1, Zenon
  <2>3. \A k \in DOMAIN from_peer' : from_peer'[k] = msgs[b].id /\ from_peer'[k] > NO_ID
            => msgs[b].what \in Range(received')
    <3> SUFFICES ASSUME NEW k \in DOMAIN from_peer', from_peer'[k] = msgs[b].id, from_peer'[k] > NO_ID
                 PROVE  msgs[b].what \in Range(received')
      OBVIOUS
    <3>1. CASE from_peer'[k] = first.id
      BY <1>8, <2>2, <3>1
    <3>2. CASE from_peer'[k] \in Range(from_peer)
      <4>1. PICK i \in DOMAIN from_peer : from_peer'[k] = from_peer[i]
        BY <3>2 DEF Range
      <4> QED BY <1>1, <1>8, <4>1 DEF Numbered, Confirms
    <3> QED BY <1>9, <3>1, <3>2
  <2>4. \A k \in DOMAIN to_process : to_process[k] = msgs[b].id /\ to_process[k] > NO_ID
            => msgs[b].what \in Range(received')
    BY <1>1, <1>8 DEF Numbered, Confirms
  <2> QED BY <2>1, <2>3, <2>4
<1>15. NoResend'
  <2> SUFFICES ASSUME prompt PROVE NoResend'
    BY <1>2 DEF NoResend
  <2>1. /\ \A j, k \in DOMAIN received : received[j] = received[k] => j = k
        /\ \A j, k \in DOMAIN wire : wire[j].what = wire[k].what => j = k
        /\ \A k \in DOMAIN wire : wire[k].what \notin Range(received)
    BY <1>1, Zenon DEF NoResend
  <2>2. ASSUME NEW j \in DOMAIN wire', NEW k \in DOMAIN wire', wire'[j].what = wire'[k].what
        PROVE  j = k
    <3>1. PICK i \in DOMAIN wire : i = j + 1 /\ wire'[j] = wire[i]
      BY <1>5
    <3>2. PICK n \in DOMAIN wire : n = k + 1 /\ wire'[k] = wire[n]
      BY <1>5
    <3>3. i = n
      BY <2>1, <2>2, <3>1, <3>2
    <3>4. j \in Int /\ k \in Int
      BY <1>5
    <3> QED BY <3>1, <3>2, <3>3, <3>4
  <2>3. \A k \in DOMAIN wire' : wire'[k].what \notin Range(received')
    <3> SUFFICES ASSUME NEW k \in DOMAIN wire' PROVE wire'[k].what \notin Range(received')
      OBVIOUS
    <3>1. PICK i \in DOMAIN wire : i # 1 /\ wire'[k] = wire[i]
      BY <1>5
    <3> QED BY <1>5, <1>8, <2>1, <3>1
  <2>4. \A k \in DOMAIN received : received[k] # first.what
    BY <1>5, <2>1 DEF Range
  <2>5. \A j, k \in DOMAIN received' : received'[j] = received'[k] => j = k
    BY <1>7, <2>1, <2>4
  <2>6. \A b \in DOMAIN msgs : Fresh(b) => Fresh(b)'
    BY <1>2, <1>5, <1>8 DEF Fresh
  <2>7. \A k \in DOMAIN to_send : to_send[k] \in DOMAIN msgs \ Controlled /\ Fresh(to_send[k])
    BY <1>1, Zenon DEF NoResend
  <2>8. \A k \in DOMAIN to_send' : to_send'[k] \in DOMAIN msgs' \ Controlled' /\ Fresh(to_send[k])'
    BY <1>2, <1>10, <2>6, <2>7
  <2>9. NoResend
    BY <1>1
  <2> QED BY <1>2, <2>2, <2>3, <2>5, <2>8, <2>9, Zenon DEF NoResend
<1>16. InOrder'
  <2> SUFFICES ASSUME prompt, fails = 0 PROVE InOrder'
    BY <1>2 DEF InOrder
  <2>1. /\ msg_num = Len(received) + Len(wire) + 1
        /\ \A k \in DOMAIN received : received[k] = k
        /\ \A k \in DOMAIN wire : wire[k].what = Len(received) + k
    BY <1>1 DEF InOrder
  <2>2. first.what = Len(received')
    BY <1>5, <1>7, <2>1
  <2>3. \A k \in DOMAIN received' : received'[k] = k
    BY <1>7, <2>1, <2>2
  <2>4. ASSUME NEW k \in DOMAIN wire' PROVE wire'[k].what = Len(received') + k
    <3>1. PICK i \in DOMAIN wire : i = k + 1 /\ wire'[k] = wire[i]
      BY <1>5
    <3>2. wire'[k].what = Len(received) + i /\ k \in Int
      BY <1>5, <2>1, <3>1
    <3> QED BY <1>7, <3>1, <3>2
  <2>5. msg_num' = Len(received') + Len(wire') + 1
    BY <1>2, <1>5, <1>7, <2>1
  <2>6. InOrder
    BY <1>1
  <2> QED BY <1>2, <2>3, <2>4, <2>5, <2>6 DEF InOrder
<1> QED BY <1>11, <1>12, <1>13, <1>14, <1>15, <1>16 DEF IInv

-----------------------------------------------------------------------------
(***************************************************************************)
(* Writing                                                                 *)
(***************************************************************************)

\* What has a number below m has one below a greater n.
LEMMA MoreNumbers ==
    ASSUME NEW m \in Nat, NEW n \in Nat, m <= n, NEW c \in Nat
    PROVE  /\ [what : 1 .. c, id : 1 .. (m - 1)] \subseteq [what : 1 .. c, id : 1 .. (n - 1)]
           /\ GameField .. (m - 1) \subseteq GameField .. (n - 1)
<1>1. 1 .. (m - 1) \subseteq 1 .. (n - 1)
  OBVIOUS
<1>2. GameField .. (m - 1) \subseteq GameField .. (n - 1)
  BY DEF GameField
<1> QED BY <1>1, <1>2

\* What giving a number changes.
LEMMA NumberFacts ==
    ASSUME TypeOK, Counters, Distinct, NEW a \in DOMAIN msgs,
           msgs' = [msgs EXCEPT ![a] = numbered(a)],
           msg_num' = IF msgs[a].id = NO_ID THEN msg_num + 1 ELSE msg_num,
           created' = created
    PROVE  /\ DOMAIN msgs' = DOMAIN msgs
           /\ \A b \in DOMAIN msgs :
                 /\ msgs'[b] \in [what : 0 .. created, id : NO_REQ_ID .. (msg_num' - 1)]
                 /\ msgs'[b].what = msgs[b].what
                 /\ b # a => msgs'[b] = msgs[b]
           /\ msgs'[a].id = IF msgs[a].id = NO_ID THEN msg_num ELSE msgs[a].id
           /\ msg_num' \in Nat \ {0} /\ msg_num <= msg_num'
           /\ Distinct'
<1>1. /\ \A b \in DOMAIN msgs :
             msgs[b] \in [what : 0 .. created, id : NO_REQ_ID .. (msg_num - 1)]
      /\ msg_num \in Nat \ {0} /\ created \in Nat
  BY DEF TypeOK, Counters
<1>2. /\ DOMAIN msgs' = DOMAIN msgs
      /\ msgs'[a] = numbered(a)
      /\ \A b \in DOMAIN msgs : b # a => msgs'[b] = msgs[b]
  OBVIOUS
<1>3. /\ msg_num' \in Nat \ {0} /\ msg_num <= msg_num'
      /\ NO_REQ_ID .. (msg_num - 1) \subseteq NO_REQ_ID .. (msg_num' - 1)
  BY <1>1 DEF NO_REQ_ID
<1>4. numbered(a) \in [what : 0 .. created, id : NO_REQ_ID .. (msg_num' - 1)]
  <2>1. CASE msgs[a].id = NO_ID
    <3>1. msgs[a] \in [what : 0 .. created, id : NO_REQ_ID .. (msg_num - 1)]
      BY <1>1
    <3>2. msg_num \in NO_REQ_ID .. (msg_num' - 1)
      BY <1>1, <2>1 DEF NO_REQ_ID
    <3> QED BY <1>3, <2>1, <3>1, <3>2 DEF numbered
  <2>2. CASE msgs[a].id # NO_ID
    <3>1. msgs[a] \in [what : 0 .. created, id : NO_REQ_ID .. (msg_num - 1)]
      BY <1>1
    <3> QED BY <1>3, <2>2, <3>1 DEF numbered
  <2> QED BY <2>1, <2>2
<1>5. /\ numbered(a).what = msgs[a].what
      /\ numbered(a).id = IF msgs[a].id = NO_ID THEN msg_num ELSE msgs[a].id
  BY <1>1 DEF numbered
<1>6. ASSUME NEW b \in DOMAIN msgs
      PROVE  /\ msgs'[b] \in [what : 0 .. created, id : NO_REQ_ID .. (msg_num' - 1)]
             /\ msgs'[b].what = msgs[b].what
  <2>1. CASE b = a
    BY <1>2, <1>4, <1>5, <2>1
  <2>2. CASE b # a
    <3>1. msgs[b] \in [what : 0 .. created, id : NO_REQ_ID .. (msg_num - 1)]
      BY <1>1
    <3> QED BY <1>2, <1>3, <2>2, <3>1
  <2> QED BY <2>1, <2>2
<1>7. \A b \in DOMAIN msgs : msgs[b].id < msg_num /\ msgs[b].id \in Int
  BY <1>1 DEF NO_REQ_ID
<1>8. Distinct'
  <2>1. \A b \in DOMAIN msgs : msgs'[b].what = Receipt <=> msgs'[b].id = NO_REQ_ID
    BY <1>1, <1>2, <1>5, <1>6 DEF Distinct, NO_REQ_ID, NO_ID
  <2>2. \A b, c \in DOMAIN msgs :
            msgs'[b].what = msgs'[c].what /\ msgs'[b].what # Receipt => b = c
    BY <1>6 DEF Distinct
  <2>3. \A b, c \in DOMAIN msgs :
            msgs'[b].id = msgs'[c].id /\ msgs'[b].id > NO_ID => b = c
    BY <1>1, <1>2, <1>5, <1>7 DEF Distinct, NO_ID
  <2> QED BY <1>2, <2>1, <2>2, <2>3 DEF Distinct
<1> QED BY <1>2, <1>3, <1>5, <1>6, <1>8

\* A number that is given is not yet the number of anything.
LEMMA NumberIsNew ==
    ASSUME TypeOK, Counters, Numbered, NEW a \in DOMAIN msgs,
           msgs' = [msgs EXCEPT ![a] = numbered(a)],
           NEW b \in DOMAIN msgs
    PROVE  /\ \A k \in DOMAIN wire : wire[k].id = msgs'[b].id => wire[k].what = msgs[b].what
           /\ \A k \in DOMAIN from_peer : from_peer[k] = msgs'[b].id /\ from_peer[k] > NO_ID
                  => msgs[b].what \in Range(received)
           /\ \A k \in DOMAIN to_process : to_process[k] = msgs'[b].id /\ to_process[k] > NO_ID
                  => msgs[b].what \in Range(received)
<1>1. msgs'[b].id = msgs[b].id \/ msgs'[b].id = msg_num
  <2>1. msgs[a] \in [what : 0 .. created, id : NO_REQ_ID .. (msg_num - 1)]
    BY DEF TypeOK
  <2>2. CASE b = a
    BY <2>1, <2>2 DEF numbered
  <2> QED BY <2>2
<1>2. /\ \A k \in DOMAIN wire : wire[k].id # msg_num
      /\ \A k \in DOMAIN from_peer : from_peer[k] # msg_num
      /\ \A k \in DOMAIN to_process : to_process[k] # msg_num
  <2>1. msg_num \in Int
    BY DEF Counters
  <2> QED BY <2>1, TypesOfItems
<1> QED BY <1>1, <1>2 DEF Numbered, Confirms

LEMMA WriteFailsStep ==
    ASSUME DeliveryAssumption, IInv, WriteFails
    PROVE  IInv'
<1> DEFINE a    == Head(to_send)
           rest == Tail(to_send)
<1>1. /\ TypeOK /\ Counters /\ Distinct /\ ControlSound /\ Held /\ Numbered /\ AttemptsWritten
      /\ NoResend
  BY DEF IInv
<1>2. /\ prompt' = prompt /\ control' = control
      /\ wire' = wire /\ from_peer' = from_peer /\ to_process' = to_process
      /\ received' = received /\ written' = written /\ created' = created /\ fails' = fails + 1
      /\ pc = "write" /\ pc' = "resend"
      /\ to_send # <<>> /\ a \in DOMAIN msgs /\ to_send' = Append(rest, a)
      /\ msgs' = [msgs EXCEPT ![a] = numbered(a)]
      /\ msg_num' = IF msgs[a].id = NO_ID THEN msg_num + 1 ELSE msg_num
  BY DEF WriteFails, setting, peer, put_back
<1>3. /\ rest \in Seq(Addr) /\ a = to_send[1] /\ 1 \in DOMAIN to_send
      /\ \A k \in DOMAIN rest : k + 1 \in DOMAIN to_send /\ rest[k] = to_send[k + 1]
      /\ \A k \in DOMAIN to_send : k = 1 \/ (k - 1 \in DOMAIN rest /\ rest[k - 1] = to_send[k])
      /\ DOMAIN rest = 1 .. Len(rest) /\ Len(rest) \in Nat
  BY <1>1, <1>2, TailItems DEF TypeOK
<1>4. a \in Addr
  BY <1>1, <1>2 DEF TypeOK
<1> HIDE DEF rest
<1> HIDE DEF a
<1>5. /\ to_send' \in Seq(Addr)
      /\ DOMAIN to_send' = 1 .. (Len(rest) + 1)
      /\ \A k \in DOMAIN rest : to_send'[k] = rest[k]
      /\ to_send'[Len(rest) + 1] = a
      /\ \A k \in DOMAIN to_send' : k \in DOMAIN rest \/ k = Len(rest) + 1
      /\ Range(to_send') = Range(rest) \cup {a}
  BY <1>2, <1>3, <1>4, AppendItems
<1>6. Queued' = Queued
  <2>1. Range(to_send) = Range(rest) \cup {a}
    BY <1>1, <1>2, TailRange DEF rest, a, TypeOK
  <2> QED BY <1>5, <2>1 DEF Queued
<1>7. /\ DOMAIN msgs' = DOMAIN msgs
      /\ \A b \in DOMAIN msgs :
            /\ msgs'[b] \in [what : 0 .. created, id : NO_REQ_ID .. (msg_num' - 1)]
            /\ msgs'[b].what = msgs[b].what
            /\ b # a => msgs'[b] = msgs[b]
      /\ msgs'[a].id = IF msgs[a].id = NO_ID THEN msg_num ELSE msgs[a].id
      /\ msg_num' \in Nat \ {0} /\ msg_num <= msg_num' /\ msg_num \in Nat
      /\ Distinct'
  BY <1>1, <1>2, NumberFacts DEF Counters
<1>8. Controlled' = Controlled
  BY <1>2 DEF Controlled
<1>9. TypeOK'
  <2>1. /\ wire' \in Seq([what : 1 .. created', id : 1 .. (msg_num' - 1)])
        /\ from_peer' \in Seq(GameField .. (msg_num' - 1))
        /\ to_process' \in Seq(GameField .. (msg_num' - 1))
    <3> DEFINE Sent == [what : 1 .. created, id : 1 .. (msg_num - 1)]
               More == [what : 1 .. created', id : 1 .. (msg_num' - 1)]
               Ids     == GameField .. (msg_num - 1)
               MoreIds == GameField .. (msg_num' - 1)
    <3>1. Sent \subseteq More /\ Ids \subseteq MoreIds
      <4>1. msg_num \in Nat /\ msg_num' \in Nat /\ msg_num <= msg_num'
        BY <1>7
      <4>2. created \in Nat /\ created' = created
        BY <1>1, <1>2 DEF Counters
      <4> QED BY <4>1, <4>2, MoreNumbers
    <3>2. wire \in Seq(Sent) /\ from_peer \in Seq(Ids) /\ to_process \in Seq(Ids)
      BY <1>1 DEF TypeOK
    <3>3. wire' = wire /\ from_peer' = from_peer /\ to_process' = to_process
      BY <1>2
    <3> HIDE DEF Sent, More, Ids, MoreIds
    <3>4. wire' \in Seq(More)
      BY <3>1, <3>2, <3>3, SeqOfMore
    <3>5. from_peer' \in Seq(MoreIds)
      BY <3>1, <3>2, <3>3, SeqOfMore
    <3>6. to_process' \in Seq(MoreIds)
      BY <3>1, <3>2, <3>3, SeqOfMore
    <3> QED BY <3>4, <3>5, <3>6 DEF More, MoreIds
  <2> QED BY <1>1, <1>2, <1>5, <1>7, <2>1 DEF TypeOK
<1>10. Counters'
  <2>1. /\ created \in 0 .. MaxMsgs /\ fails \in Nat
        /\ written \in [1 .. MaxMsgs -> Nat] /\ received \in Seq(1 .. created)
    BY <1>1 DEF Counters
  <2>2. msg_num' \in Nat \ {0}
    BY <1>7
  <2>3. fails' \in Nat /\ (fails' = 0 => pc' # "resend")
    BY <1>2, <2>1
  <2> QED BY <1>2, <2>1, <2>2, <2>3 DEF Counters
<1>11. ControlSound'
  BY <1>1, <1>2, <1>7 DEF ControlSound, NO_ID
<1>12. Held'
  BY <1>1, <1>2, <1>6, <1>7, <1>8 DEF Held
<1>13. Numbered'
  <2> SUFFICES ASSUME NEW b \in DOMAIN msgs
               PROVE  /\ \A k \in DOMAIN wire : wire[k].id = msgs'[b].id => wire[k].what = msgs'[b].what
                      /\ \A k \in DOMAIN from_peer : from_peer[k] = msgs'[b].id /\ from_peer[k] > NO_ID
                             => msgs'[b].what \in Range(received)
                      /\ \A k \in DOMAIN to_process : to_process[k] = msgs'[b].id /\ to_process[k] > NO_ID
                             => msgs'[b].what \in Range(received)
    BY <1>2, <1>7 DEF Numbered, Confirms
  <2>1. msgs' = [msgs EXCEPT ![a] = numbered(a)] /\ a \in DOMAIN msgs
    BY <1>2
  <2>2. msgs'[b].what = msgs[b].what
    BY <1>7
  <2> QED BY <1>1, <2>1, <2>2, NumberIsNew
<1>14. AttemptsWritten'
  BY <1>1, <1>2, <1>7 DEF AttemptsWritten, ControlSound
<1>15. NoResend'
  <2> SUFFICES ASSUME prompt PROVE NoResend'
    BY <1>2 DEF NoResend
  <2>1. /\ \A k \in DOMAIN to_send : to_send[k] \in DOMAIN msgs \ Controlled /\ Fresh(to_send[k])
        /\ \A j, k \in DOMAIN to_send : to_send[j] = to_send[k] => j = k
    BY <1>1, Zenon DEF NoResend
  <2>2. \A b \in DOMAIN msgs : Fresh(b) => Fresh(b)'
    BY <1>2, <1>7 DEF Fresh
  <2>3. \A b \in Queued : b \in DOMAIN msgs \ Controlled /\ Fresh(b)'
    BY <2>1, <2>2 DEF Queued, Range
  <2>4. \A k \in DOMAIN to_send' : to_send'[k] \in Queued
    BY <1>6, Zenon DEF Queued, Range
  <2>5. \A k \in DOMAIN to_send' :
            to_send'[k] \in DOMAIN msgs' \ Controlled' /\ Fresh(to_send[k])'
    <3> SUFFICES ASSUME NEW k \in DOMAIN to_send'
                 PROVE  to_send'[k] \in DOMAIN msgs' \ Controlled' /\ Fresh(to_send[k])'
      OBVIOUS
    <3>1. to_send'[k] \in Queued
      BY <2>4
    <3> QED BY <1>7, <1>8, <2>3, <3>1, Zenon
  <2>6. \A k \in DOMAIN rest : rest[k] # a
    BY <1>3, <2>1
  <2>7. \A j, k \in DOMAIN rest : rest[j] = rest[k] => j = k
    BY <1>3, <2>1
  <2>8. \A j, k \in DOMAIN to_send' : to_send'[j] = to_send'[k] => j = k
    BY <1>5, <2>6, <2>7
  <2>9. NoResend /\ pc' # "closed"
    BY <1>1, <1>2
  <2> QED BY <1>2, <2>5, <2>8, <2>9, Zenon DEF NoResend
<1>16. InOrder' /\ OverdueQueued'
  <2>1. fails' # 0
    BY <1>1, <1>2 DEF Counters
  <2> QED BY <2>1 DEF InOrder, OverdueQueued
<1> QED BY <1>7, <1>9, <1>10, <1>11, <1>12, <1>13, <1>14, <1>15, <1>16 DEF IInv

\* A receipt that is written is deleted.
LEMMA WriteReceiptStep ==
    ASSUME DeliveryAssumption, IInv, WriteOne, msgs[Head(to_send)].what = Receipt
    PROVE  IInv'
<1> DEFINE a    == Head(to_send)
           rest == Tail(to_send)
<1>1. /\ TypeOK /\ Counters /\ Distinct /\ ControlSound /\ Held /\ Numbered /\ AttemptsWritten
      /\ NoResend /\ InOrder
  BY DEF IInv
<1>2. /\ prompt' = prompt /\ control' = control /\ msg_num' = msg_num
      /\ wire' = wire /\ from_peer' = from_peer /\ to_process' = to_process
      /\ received' = received /\ written' = written /\ created' = created /\ fails' = fails
      /\ pc = "write" /\ pc' = "write"
      /\ to_send # <<>> /\ a \in DOMAIN msgs /\ to_send' = rest
      /\ msgs' = MsgsWithout({a})
  BY DEF WriteOne, setting
<1>3. /\ rest \in Seq(Addr) /\ a = to_send[1] /\ 1 \in DOMAIN to_send
      /\ \A k \in DOMAIN rest :
            k \in Int /\ k > 0 /\ k + 1 \in DOMAIN to_send /\ rest[k] = to_send[k + 1]
      /\ \A k \in DOMAIN to_send : k = 1 \/ (k - 1 \in DOMAIN rest /\ rest[k - 1] = to_send[k])
      /\ Range(to_send) = Range(rest) \cup {a}
  BY <1>1, <1>2, TailItems, TailRange DEF TypeOK
<1>4. msgs[a].what = Receipt
  OBVIOUS
<1> HIDE DEF rest
<1> HIDE DEF a
<1>5. DOMAIN msgs' = DOMAIN msgs \ {a} /\ \A b \in DOMAIN msgs \ {a} : msgs'[b] = msgs[b]
  BY <1>2 DEF MsgsWithout
<1>6. \A b \in DOMAIN msgs' : b \in DOMAIN msgs /\ msgs'[b] = msgs[b]
  BY <1>5
<1>7. Controlled' = Controlled /\ Queued = Queued' \cup {a}
  BY <1>2, <1>3 DEF Controlled, Queued
<1>8. \A k \in DOMAIN control : control[k].msg # a
  BY <1>1, <1>2, <1>4 DEF Distinct, ControlSound, NO_REQ_ID, NO_ID
<1>9. TypeOK'
  BY <1>1, <1>2, <1>3, <1>6 DEF TypeOK
<1>10. Counters'
  BY <1>1, <1>2 DEF Counters
<1>11. Distinct'
  BY <1>1, <1>6 DEF Distinct
<1>12. ControlSound' /\ AttemptsWritten'
  BY <1>1, <1>2, <1>5, <1>8 DEF ControlSound, AttemptsWritten
<1>13. Held'
  BY <1>1, <1>2, <1>5, <1>7 DEF Held
<1>14. Numbered'
  <2> SUFFICES ASSUME NEW b \in DOMAIN msgs'
               PROVE  /\ \A k \in DOMAIN wire : wire[k].id = msgs'[b].id => wire[k].what = msgs'[b].what
                      /\ Confirms(from_peer, b)' /\ Confirms(to_process, b)'
    BY <1>2 DEF Numbered
  <2>1. b \in DOMAIN msgs /\ msgs'[b] = msgs[b]
    BY <1>6
  <2>2. /\ \A k \in DOMAIN wire : wire[k].id = msgs[b].id => wire[k].what = msgs[b].what
        /\ Confirms(from_peer, b) /\ Confirms(to_process, b)
    BY <1>1, <2>1 DEF Numbered
  <2> QED BY <1>2, <2>1, <2>2 DEF Confirms
<1>15. NoResend' /\ InOrder'
  <2> SUFFICES ASSUME prompt PROVE NoResend' /\ InOrder'
    BY <1>2 DEF NoResend, InOrder
  <2>1. /\ \A k \in DOMAIN to_send : to_send[k] \in DOMAIN msgs \ Controlled /\ Fresh(to_send[k])
        /\ \A j, k \in DOMAIN to_send : to_send[j] = to_send[k] => j = k
    BY <1>1, Zenon DEF NoResend
  <2>2. \A b \in DOMAIN msgs' : Fresh(b) => Fresh(b)'
    BY <1>2, <1>6 DEF Fresh
  <2>3. ASSUME NEW k \in DOMAIN rest
        PROVE  rest[k] \in DOMAIN msgs' /\ rest[k] \notin Controlled' /\ Fresh(rest[k])
    <3>1. k + 1 # 1 /\ rest[k] = to_send[k + 1] /\ k + 1 \in DOMAIN to_send
      BY <1>3
    <3>2. rest[k] # a
      BY <1>3, <2>1, <3>1
    <3> QED BY <1>5, <1>7, <2>1, <3>1, <3>2
  <2>4. \A k \in DOMAIN to_send' : to_send'[k] \in DOMAIN msgs' \ Controlled' /\ Fresh(to_send[k])'
    <3> SUFFICES ASSUME NEW k \in DOMAIN to_send'
                 PROVE  to_send'[k] \in DOMAIN msgs' \ Controlled' /\ Fresh(to_send[k])'
      OBVIOUS
    <3>1. to_send'[k] = rest[k] /\ k \in DOMAIN rest
      BY <1>2
    <3>2. to_send'[k] \in DOMAIN msgs' /\ to_send'[k] \notin Controlled' /\ Fresh(to_send'[k])
      BY <2>3, <3>1
    <3> QED BY <2>2, <3>2, Zenon
  <2>5. \A j, k \in DOMAIN to_send' : to_send'[j] = to_send'[k] => j = k
    BY <1>2, <1>3, <2>1
  <2>6. NoResend'
    <3>1. NoResend
      BY <1>1
    <3> QED BY <1>2, <2>4, <2>5, <3>1, Zenon DEF NoResend
  <2>7. InOrder'
    <3> SUFFICES ASSUME fails = 0 PROVE InOrder'
      BY <1>2 DEF InOrder
    <3>1. \A k \in DOMAIN rest : msgs'[rest[k]] = msgs[to_send[k + 1]]
      BY <1>3, <1>6, <2>3
    <3>2. ASSUME NEW n \in msg_num .. created PROVE \E j \in DOMAIN rest : msgs'[rest[j]].what = n
      <4>1. PICK j \in DOMAIN to_send : msgs[to_send[j]].what = n
        BY <1>1 DEF InOrder
      <4>2. n # Receipt
        BY <1>1 DEF Counters, Receipt
      <4>3. j - 1 \in DOMAIN rest /\ rest[j - 1] = to_send[j]
        BY <1>3, <1>4, <4>1, <4>2
      <4> QED BY <1>6, <2>3, <4>1, <4>3
    <3>3. ASSUME NEW k \in DOMAIN rest, msgs'[rest[k]].what # Receipt
          PROVE  /\ msgs'[rest[k]].id = NO_ID /\ msgs'[rest[k]].what >= msg_num
                 /\ \A j \in DOMAIN rest : j < k => msgs'[rest[j]].what < msgs'[rest[k]].what
      <4>1. k + 1 \in DOMAIN to_send /\ msgs[to_send[k + 1]].what # Receipt
        BY <1>3, <3>1, <3>3
      <4>2. /\ msgs[to_send[k + 1]].id = NO_ID /\ msgs[to_send[k + 1]].what >= msg_num
            /\ \A j \in DOMAIN to_send :
                  j < k + 1 => msgs[to_send[j]].what < msgs[to_send[k + 1]].what
        BY <1>1, <4>1 DEF InOrder
      <4>3. ASSUME NEW j \in DOMAIN rest, j < k
            PROVE  msgs'[rest[j]].what < msgs'[rest[k]].what
        <5>1. j + 1 \in DOMAIN to_send /\ j + 1 < k + 1
          BY <1>3, <4>3
        <5> QED BY <3>1, <4>2, <5>1
      <4> QED BY <3>1, <4>2, <4>3
    <3>4. InOrder
      BY <1>1
    <3> QED BY <1>2, <3>2, <3>3, <3>4 DEF InOrder
  <2> QED BY <2>6, <2>7
<1>16. OverdueQueued'
  BY <1>2 DEF OverdueQueued
<1> QED BY <1>9, <1>10, <1>11, <1>12, <1>13, <1>14, <1>15, <1>16 DEF IInv

\* A list with an item put before it.
LEMMA ConsItems ==
    ASSUME NEW S, NEW s \in Seq(S), NEW e \in S
    PROVE  /\ <<e>> \o s \in Seq(S)
           /\ DOMAIN (<<e>> \o s) = 1 .. (Len(s) + 1)
           /\ (<<e>> \o s)[1] = e
           /\ \A k \in DOMAIN (<<e>> \o s) :
                 k = 1 \/ (k - 1 \in DOMAIN s /\ (<<e>> \o s)[k] = s[k - 1])
           /\ \A k \in DOMAIN s :
                 k + 1 \in DOMAIN (<<e>> \o s) /\ (<<e>> \o s)[k + 1] = s[k]
<1> DEFINE t == <<e>> \o s
<1>1. /\ t \in Seq(S) /\ Len(t) = Len(s) + 1 /\ Len(s) \in Nat
      /\ DOMAIN t = 1 .. Len(t) /\ DOMAIN s = 1 .. Len(s)
  OBVIOUS
<1>2. t[1] = e
  OBVIOUS
<1>3. ASSUME NEW k \in 1 .. Len(s) PROVE t[k + 1] = s[k]
  OBVIOUS
<1> HIDE DEF t
<1>4. \A k \in DOMAIN s : k + 1 \in DOMAIN t /\ t[k + 1] = s[k]
  BY <1>1, <1>3
<1>5. ASSUME NEW k \in DOMAIN t, k # 1 PROVE k - 1 \in DOMAIN s /\ t[k] = s[k - 1]
  <2>1. k - 1 \in DOMAIN s /\ (k - 1) + 1 = k
    BY <1>1, <1>5
  <2> QED BY <1>4, <2>1
<1>6. DOMAIN t = 1 .. (Len(s) + 1)
  BY <1>1
<1> QED BY <1>1, <1>2, <1>4, <1>5, <1>6, Zenon DEF t

\* What a written message changes in the control list.
LEMMA SendingFacts ==
    ASSUME DeliveryAssumption, TypeOK, ControlSound, NEW a \in Addr,
           control' = controlled_after_sending(a)
    PROVE  /\ control' \in Seq([msg : Addr, age : 0 .. (RESEND_TIME + 1), resend_cnt : Int])
           /\ Controlled' = Controlled \cup {a}
           /\ \A j, k \in DOMAIN control' : control'[j].msg = control'[k].msg => j = k
           /\ \A k \in DOMAIN control' :
                 \/ control'[k].msg # a /\ \E i \in DOMAIN control : control'[k] = control[i]
                 \/ /\ control'[k].msg = a /\ control'[k].age = 0
                    /\ \/ a \notin Controlled /\ control'[k].resend_cnt = RESEND_CNT
                       \/ \E i \in DOMAIN control :
                             /\ control[i].msg = a
                             /\ control'[k].resend_cnt = control[i].resend_cnt - 1
<1> DEFINE Item == [msg : Addr, age : 0 .. (RESEND_TIME + 1), resend_cnt : Int]
<1>1. /\ control \in Seq(Item) /\ \A k \in DOMAIN control : control[k] \in Item
      /\ DOMAIN control = 1 .. Len(control) /\ Len(control) \in Nat
  <2>1. control \in Seq(Item)
    BY DEF TypeOK
  <2> HIDE DEF Item
  <2> QED BY <2>1
<1>2. RESEND_TIME \in Nat /\ RESEND_CNT \in Nat
  BY DEF DeliveryAssumption
<1>3. CASE a \in Controlled
  <2>1. control' = [k \in DOMAIN control |->
            IF control[k].msg = a
            THEN [control[k] EXCEPT !.age = 0, !.resend_cnt = @ - 1] ELSE control[k]]
    BY <1>3 DEF controlled_after_sending, under_control, decrease
  <2>2. DOMAIN control' = DOMAIN control
    BY <2>1
  <2>3. \A k \in DOMAIN control :
            /\ control'[k] \in Item
            /\ control'[k].msg = control[k].msg
            /\ control[k].msg # a => control'[k] = control[k]
            /\ control[k].msg = a =>
                  control'[k].age = 0 /\ control'[k].resend_cnt = control[k].resend_cnt - 1
    <3> SUFFICES ASSUME NEW k \in DOMAIN control
                 PROVE  /\ control'[k] \in Item
                        /\ control'[k].msg = control[k].msg
                        /\ control[k].msg # a => control'[k] = control[k]
                        /\ control[k].msg = a =>
                              /\ control'[k].age = 0
                              /\ control'[k].resend_cnt = control[k].resend_cnt - 1
      OBVIOUS
    <3>1. control[k] \in Item
      BY <1>1
    <3>2. control'[k] = IF control[k].msg = a
                        THEN [control[k] EXCEPT !.age = 0, !.resend_cnt = @ - 1] ELSE control[k]
      BY <2>1, Zenon
    <3>3. CASE control[k].msg = a
      <4>1. control'[k] = [control[k] EXCEPT !.age = 0, !.resend_cnt = @ - 1]
        BY <3>2, <3>3
      <4>2. /\ control'[k].msg = control[k].msg /\ control'[k].age = 0
            /\ control'[k].resend_cnt = control[k].resend_cnt - 1
        BY <3>1, <4>1
      <4>3. control'[k] \in Item
        <5>1. 0 \in 0 .. (RESEND_TIME + 1) /\ control[k].resend_cnt - 1 \in Int
          BY <1>2, <3>1
        <5>2. control'[k] = [msg |-> control[k].msg, age |-> 0,
                             resend_cnt |-> control[k].resend_cnt - 1]
          BY <3>1, <4>1
        <5>3. control[k].msg \in Addr
          BY <3>1
        <5> QED BY <5>1, <5>2, <5>3
      <4> QED BY <3>3, <4>2, <4>3
    <3>4. CASE control[k].msg # a
      BY <3>1, <3>2, <3>4
    <3> QED BY <3>3, <3>4
  <2>4. control' \in Seq(Item)
    <3>1. control' \in [1 .. Len(control) -> Item]
      BY <1>1, <2>1, <2>3
    <3> HIDE DEF Item
    <3> QED BY <1>1, <3>1
  <2>5. Controlled' = Controlled
    <3>1. \A k \in DOMAIN control : control'[k].msg = control[k].msg
      BY <2>3
    <3> QED BY <2>2, <3>1, Zenon DEF Controlled
  <2>6. \A j, k \in DOMAIN control' : control'[j].msg = control'[k].msg => j = k
    BY <2>2, <2>3 DEF ControlSound
  <2>7. \A k \in DOMAIN control' :
            \/ control'[k].msg # a /\ \E i \in DOMAIN control : control'[k] = control[i]
            \/ /\ control'[k].msg = a /\ control'[k].age = 0
               /\ \E i \in DOMAIN control :
                     /\ control[i].msg = a
                     /\ control'[k].resend_cnt = control[i].resend_cnt - 1
    <3> SUFFICES ASSUME NEW k \in DOMAIN control
                 PROVE  \/ control'[k].msg # a /\ control'[k] = control[k]
                        \/ /\ control'[k].msg = a /\ control'[k].age = 0
                           /\ control[k].msg = a
                           /\ control'[k].resend_cnt = control[k].resend_cnt - 1
      BY <2>2, Zenon
    <3> QED BY <2>3, Zenon
  <2> QED BY <1>3, <2>4, <2>5, <2>6, <2>7
<1>4. CASE a \notin Controlled
  <2> DEFINE e == [msg |-> a, age |-> 0, resend_cnt |-> RESEND_CNT]
  <2>1. control' = <<e>> \o control
    BY <1>4 DEF controlled_after_sending, under_control, add
  <2>2. e \in Item /\ e.msg = a /\ e.age = 0 /\ e.resend_cnt = RESEND_CNT
    BY <1>2
  <2> HIDE DEF e, Item
  <2> DEFINE t == <<e>> \o control
  <2>9. /\ t \in Seq(Item)
        /\ DOMAIN t = 1 .. (Len(control) + 1)
        /\ t[1] = e
        /\ \A k \in DOMAIN t : k = 1 \/ (k - 1 \in DOMAIN control /\ t[k] = control[k - 1])
        /\ \A k \in DOMAIN control : k + 1 \in DOMAIN t /\ t[k + 1] = control[k]
    <3>1. control \in Seq(Item) /\ e \in Item
      BY <1>1, <2>2
    <3> QED BY <3>1, ConsItems
  <2>10. control' = t
    BY <2>1
  <2> HIDE DEF t
  <2>3. control' \in Seq(Item)
    BY <2>9, <2>10
  <2>4. /\ DOMAIN control' = 1 .. (Len(control) + 1)
        /\ control'[1] = e
        /\ \A k \in DOMAIN control' : k = 1 \/ (k - 1 \in DOMAIN control /\ control'[k] = control[k - 1])
        /\ \A k \in DOMAIN control : k + 1 \in DOMAIN control' /\ control'[k + 1] = control[k]
    BY <2>9, <2>10
  <2>5. Controlled' = Controlled \cup {a}
    <3>1. Controlled' \subseteq Controlled \cup {a}
      <4> SUFFICES ASSUME NEW k \in DOMAIN control' PROVE control'[k].msg \in Controlled \cup {a}
        BY Zenon DEF Controlled
      <4>1. CASE k = 1
        BY <2>2, <2>4, <4>1
      <4>2. CASE k - 1 \in DOMAIN control /\ control'[k] = control[k - 1]
        BY <4>2, Zenon DEF Controlled
      <4> QED BY <2>4, <4>1, <4>2
    <3>2. Controlled \subseteq Controlled'
      <4> SUFFICES ASSUME NEW k \in DOMAIN control PROVE control[k].msg \in Controlled'
        BY Zenon DEF Controlled
      <4>1. k + 1 \in DOMAIN control' /\ control'[k + 1] = control[k]
        BY <2>4
      <4> QED BY <4>1, Zenon DEF Controlled
    <3>3. a \in Controlled'
      <4>1. 1 \in DOMAIN control'
        BY <1>1, <2>4
      <4> QED BY <2>2, <2>4, <4>1, Zenon DEF Controlled
    <3> QED BY <3>1, <3>2, <3>3
  <2>6. \A k \in DOMAIN control : control[k].msg # a
    BY <1>4 DEF Controlled
  <2>7. \A j, k \in DOMAIN control' : control'[j].msg = control'[k].msg => j = k
    <3> SUFFICES ASSUME NEW j \in DOMAIN control', NEW k \in DOMAIN control',
                        control'[j].msg = control'[k].msg
                 PROVE  j = k
      OBVIOUS
    <3>1. j \in Int /\ k \in Int
      BY <2>4
    <3>2. CASE j = 1
      BY <2>2, <2>4, <2>6, <3>2
    <3>3. CASE k = 1
      BY <2>2, <2>4, <2>6, <3>3
    <3>4. CASE j # 1 /\ k # 1
      <4>1. j - 1 = k - 1
        BY <2>4, <3>4 DEF ControlSound
      <4> QED BY <3>1, <4>1
    <3> QED BY <3>2, <3>3, <3>4
  <2>8. ASSUME NEW k \in DOMAIN control'
        PROVE  \/ control'[k].msg # a /\ \E i \in DOMAIN control : control'[k] = control[i]
               \/ control'[k].msg = a /\ control'[k].age = 0 /\ control'[k].resend_cnt = RESEND_CNT
    BY <2>2, <2>4, <2>6, Zenon
  <2> QED BY <1>4, <2>3, <2>5, <2>7, <2>8 DEF Item
<1> QED BY <1>3, <1>4

\* Any other message that is written gets its number, is put under control, and
\* goes to the peer.
LEMMA WriteMessageStep ==
    ASSUME DeliveryAssumption, IInv, WriteOne, msgs[Head(to_send)].what # Receipt
    PROVE  IInv'
<1> DEFINE a    == Head(to_send)
           rest == Tail(to_send)
<1>1. /\ TypeOK /\ Counters /\ Distinct /\ ControlSound /\ Held /\ Numbered /\ AttemptsWritten
      /\ NoResend /\ InOrder
  BY DEF IInv
<1>2. /\ prompt' = prompt /\ from_peer' = from_peer /\ to_process' = to_process
      /\ received' = received /\ created' = created /\ fails' = fails
      /\ pc = "write" /\ pc' = "write"
      /\ to_send # <<>> /\ a \in DOMAIN msgs /\ to_send' = rest
      /\ msgs' = [msgs EXCEPT ![a] = numbered(a)]
      /\ msg_num' = IF msgs[a].id = NO_ID THEN msg_num + 1 ELSE msg_num
      /\ control' = controlled_after_sending(a)
      /\ wire' = Append(wire, msgs'[a])
      /\ written' = [written EXCEPT ![msgs[a].what] = @ + 1]
  BY DEF WriteOne, setting
<1>3. /\ rest \in Seq(Addr) /\ a = to_send[1] /\ 1 \in DOMAIN to_send
      /\ \A k \in DOMAIN rest :
            k \in Int /\ k > 0 /\ k + 1 \in DOMAIN to_send /\ rest[k] = to_send[k + 1]
      /\ \A k \in DOMAIN to_send :
            k \in Int /\ k > 0 /\ (k = 1 \/ (k - 1 \in DOMAIN rest /\ rest[k - 1] = to_send[k]))
      /\ Range(to_send) = Range(rest) \cup {a}
  <2>1. to_send \in Seq(Addr) /\ to_send # <<>>
    BY <1>1, <1>2 DEF TypeOK
  <2>2. Range(to_send) = Range(rest) \cup {a}
    BY <2>1, TailRange
  <2>3. /\ rest \in Seq(Addr) /\ a = to_send[1] /\ 1 \in DOMAIN to_send
        /\ DOMAIN to_send = 1 .. Len(to_send) /\ DOMAIN rest = 1 .. Len(rest)
        /\ \A k \in DOMAIN rest : k + 1 \in DOMAIN to_send /\ rest[k] = to_send[k + 1]
        /\ \A k \in DOMAIN to_send : k = 1 \/ (k - 1 \in DOMAIN rest /\ rest[k - 1] = to_send[k])
    BY <2>1, TailItems
  <2> HIDE DEF rest, a
  <2> QED BY <2>2, <2>3
<1>4. msgs[a].what # Receipt
  OBVIOUS
<1> HIDE DEF rest
<1> HIDE DEF a
<1>5. a \in Addr
  BY <1>1, <1>2 DEF TypeOK
<1>6. /\ DOMAIN msgs' = DOMAIN msgs
      /\ \A b \in DOMAIN msgs :
            /\ msgs'[b] \in [what : 0 .. created, id : NO_REQ_ID .. (msg_num' - 1)]
            /\ msgs'[b].what = msgs[b].what
            /\ b # a => msgs'[b] = msgs[b]
      /\ msgs'[a].id = IF msgs[a].id = NO_ID THEN msg_num ELSE msgs[a].id
      /\ msg_num' \in Nat \ {0} /\ msg_num <= msg_num' /\ msg_num \in Nat \ {0}
      /\ Distinct'
  BY <1>1, <1>2, NumberFacts DEF Counters
<1>7. /\ control' \in Seq([msg : Addr, age : 0 .. (RESEND_TIME + 1), resend_cnt : Int])
      /\ Controlled' = Controlled \cup {a}
      /\ \A j, k \in DOMAIN control' : control'[j].msg = control'[k].msg => j = k
      /\ \A k \in DOMAIN control' :
            \/ control'[k].msg # a /\ \E i \in DOMAIN control : control'[k] = control[i]
            \/ /\ control'[k].msg = a /\ control'[k].age = 0
               /\ \/ a \notin Controlled /\ control'[k].resend_cnt = RESEND_CNT
                  \/ \E i \in DOMAIN control :
                        /\ control[i].msg = a
                        /\ control'[k].resend_cnt = control[i].resend_cnt - 1
  BY <1>1, <1>2, <1>5, SendingFacts
<1>8. /\ created \in Nat /\ created <= MaxMsgs /\ MaxMsgs \in Nat
      /\ RESEND_CNT \in Nat /\ RESEND_TIME \in Nat
      /\ msgs[a].what \in 1 .. created /\ msgs[a].what \in 1 .. MaxMsgs
      /\ msgs'[a].id \in 1 .. (msg_num' - 1)
  <2>1. msgs[a] \in [what : 0 .. created, id : NO_REQ_ID .. (msg_num - 1)]
    BY <1>1, <1>2 DEF TypeOK
  <2>2. created \in Nat /\ created <= MaxMsgs /\ MaxMsgs \in Nat
    BY <1>1 DEF Counters, DeliveryAssumption
  <2>3. msgs[a].id # NO_REQ_ID
    BY <1>1, <1>2, <1>4 DEF Distinct
  <2>4. msgs[a].what \in 1 .. created /\ msgs[a].what \in 1 .. MaxMsgs
    BY <1>4, <2>1, <2>2 DEF Receipt
  <2>5. msgs'[a].id \in 1 .. (msg_num' - 1)
    <3>1. /\ msgs[a].id \in Int /\ NO_REQ_ID <= msgs[a].id /\ msgs[a].id < msg_num
          /\ msgs[a].id # NO_REQ_ID
      BY <1>6, <2>1, <2>3 DEF NO_REQ_ID
    <3>2. /\ msgs'[a].id = IF msgs[a].id = NO_ID THEN msg_num ELSE msgs[a].id
          /\ msg_num' = IF msgs[a].id = NO_ID THEN msg_num + 1 ELSE msg_num
          /\ msg_num \in Nat \ {0}
      BY <1>2, <1>6
    <3> QED BY <3>1, <3>2 DEF NO_ID, NO_REQ_ID
  <2> QED BY <2>2, <2>4, <2>5 DEF DeliveryAssumption
<1>9. /\ msgs'[a].what = msgs[a].what
      /\ msgs'[a] \in [what : 1 .. created, id : 1 .. (msg_num' - 1)]
  <2>1. /\ msgs'[a] \in [what : 0 .. created, id : NO_REQ_ID .. (msg_num' - 1)]
        /\ msgs'[a].what = msgs[a].what
    BY <1>2, <1>6
  <2> QED BY <1>8, <2>1
<1>10. /\ wire' \in Seq([what : 1 .. created, id : 1 .. (msg_num' - 1)])
       /\ Len(wire) \in Nat /\ Len(wire') = Len(wire) + 1 /\ DOMAIN wire = 1 .. Len(wire)
       /\ \A k \in DOMAIN wire : k \in DOMAIN wire' /\ wire'[k] = wire[k]
       /\ wire'[Len(wire) + 1] = msgs'[a]
       /\ \A k \in DOMAIN wire' : k \in DOMAIN wire \/ k = Len(wire) + 1
  <2> DEFINE Sent == [what : 1 .. created, id : 1 .. (msg_num - 1)]
             More == [what : 1 .. created, id : 1 .. (msg_num' - 1)]
             m    == msgs'[a]
  <2>1. Sent \subseteq More
    <3>1. msg_num \in Nat /\ msg_num' \in Nat /\ msg_num <= msg_num' /\ created \in Nat
      BY <1>6, <1>8
    <3> QED BY <3>1, MoreNumbers
  <2>2. wire \in Seq(Sent)
    BY <1>1 DEF TypeOK
  <2>3. m \in More /\ wire' = Append(wire, m)
    BY <1>2, <1>9
  <2> HIDE DEF Sent, More, m
  <2>4. wire \in Seq(More)
    BY <2>1, <2>2, SeqOfMore
  <2>5. /\ wire' \in Seq(More)
        /\ Len(wire) \in Nat /\ Len(wire') = Len(wire) + 1 /\ DOMAIN wire = 1 .. Len(wire)
        /\ \A k \in DOMAIN wire : k \in DOMAIN wire' /\ wire'[k] = wire[k]
        /\ wire'[Len(wire) + 1] = m
        /\ \A k \in DOMAIN wire' : k \in DOMAIN wire \/ k = Len(wire) + 1
    BY <2>3, <2>4, AppendItems
  <2> QED BY <2>5 DEF More, m
<1>11. /\ written' \in [1 .. MaxMsgs -> Nat]
       /\ written'[msgs[a].what] = written[msgs[a].what] + 1
       /\ \A n \in 1 .. MaxMsgs :
             written'[n] >= written[n] /\ written'[n] \in Nat /\ written[n] \in Nat
  <2> DEFINE w == msgs[a].what
  <2>1. w \in 1 .. MaxMsgs /\ written \in [1 .. MaxMsgs -> Nat]
    BY <1>1, <1>8 DEF Counters
  <2>2. written' = [written EXCEPT ![w] = @ + 1]
    BY <1>2
  <2> HIDE DEF w
  <2>3. /\ written' \in [1 .. MaxMsgs -> Nat]
        /\ written'[w] = written[w] + 1
        /\ \A n \in 1 .. MaxMsgs :
              written'[n] >= written[n] /\ written'[n] \in Nat /\ written[n] \in Nat
    BY <2>1, <2>2
  <2> QED BY <2>3 DEF w
<1>12. Queued = Queued' \cup {a}
  BY <1>2, <1>3 DEF Queued
<1>13. TypeOK'
  <2> DEFINE Ids     == GameField .. (msg_num - 1)
             MoreIds == GameField .. (msg_num' - 1)
  <2>1. Ids \subseteq MoreIds
    <3>1. msg_num \in Nat /\ msg_num' \in Nat /\ msg_num <= msg_num' /\ created \in Nat
      BY <1>6, <1>8
    <3> QED BY <3>1, MoreNumbers
  <2>2. from_peer' \in Seq(Ids) /\ to_process' \in Seq(Ids)
    BY <1>1, <1>2 DEF TypeOK
  <2> HIDE DEF Ids, MoreIds
  <2>3. from_peer' \in Seq(MoreIds)
    BY <2>1, <2>2, SeqOfMore
  <2>4. to_process' \in Seq(MoreIds)
    BY <2>1, <2>2, SeqOfMore
  <2>5. DOMAIN msgs' \subseteq Addr
    BY <1>1, <1>6 DEF TypeOK
  <2> QED BY <1>2, <1>3, <1>6, <1>7, <1>10, <2>3, <2>4, <2>5 DEF TypeOK, MoreIds
<1>14. Counters'
  BY <1>1, <1>2, <1>6, <1>11 DEF Counters
<1>15. ASSUME NEW k \in DOMAIN control'
       PROVE  control'[k].msg \in DOMAIN msgs' /\ msgs'[control'[k].msg].id > NO_ID
  <2>1. CASE control'[k].msg = a
    BY <1>2, <1>6, <1>8, <2>1 DEF NO_ID
  <2>2. CASE control'[k].msg # a /\ \E i \in DOMAIN control : control'[k] = control[i]
    <3>1. PICK i \in DOMAIN control : control'[k] = control[i]
      BY <2>2
    <3>2. control[i].msg \in DOMAIN msgs /\ msgs[control[i].msg].id > NO_ID
      BY <1>1 DEF ControlSound
    <3> QED BY <1>6, <2>2, <3>1, <3>2
  <2> QED BY <1>7, <2>1, <2>2
<1>16. ControlSound'
  BY <1>7, <1>15 DEF ControlSound
<1>17. Held'
  BY <1>1, <1>2, <1>6, <1>7, <1>12 DEF Held
<1>18. Numbered'
  <2> SUFFICES ASSUME NEW b \in DOMAIN msgs
               PROVE  /\ \A k \in DOMAIN wire' : wire'[k].id = msgs'[b].id => wire'[k].what = msgs'[b].what
                      /\ \A k \in DOMAIN from_peer : from_peer[k] = msgs'[b].id /\ from_peer[k] > NO_ID
                             => msgs'[b].what \in Range(received)
                      /\ \A k \in DOMAIN to_process : to_process[k] = msgs'[b].id /\ to_process[k] > NO_ID
                             => msgs'[b].what \in Range(received)
    BY <1>2, <1>6 DEF Numbered, Confirms
  <2>1. msgs' = [msgs EXCEPT ![a] = numbered(a)] /\ a \in DOMAIN msgs
    BY <1>2
  <2>2. msgs'[b].what = msgs[b].what
    BY <1>6
  <2>3. /\ \A k \in DOMAIN wire : wire[k].id = msgs'[b].id => wire[k].what = msgs[b].what
        /\ \A k \in DOMAIN from_peer : from_peer[k] = msgs'[b].id /\ from_peer[k] > NO_ID
               => msgs[b].what \in Range(received)
        /\ \A k \in DOMAIN to_process : to_process[k] = msgs'[b].id /\ to_process[k] > NO_ID
               => msgs[b].what \in Range(received)
    BY <1>1, <2>1, NumberIsNew
  <2>4. msgs'[a].id = msgs'[b].id => a = b
    <3>1. msgs'[a].id > NO_ID /\ a \in DOMAIN msgs' /\ b \in DOMAIN msgs'
      BY <1>2, <1>6, <1>8 DEF NO_ID
    <3> QED BY <1>6, <3>1 DEF Distinct
  <2>5. \A k \in DOMAIN wire' : wire'[k].id = msgs'[b].id => wire'[k].what = msgs'[b].what
    BY <1>10, <2>2, <2>3, <2>4
  <2> QED BY <2>2, <2>3, <2>5
<1>19. AttemptsWritten'
  <2> SUFFICES ASSUME NEW k \in DOMAIN control'
               PROVE  written'[msgs'[control'[k].msg].what] >= 1 + RESEND_CNT - control'[k].resend_cnt
    BY DEF AttemptsWritten
  <2>1. CASE control'[k].msg # a /\ \E i \in DOMAIN control : control'[k] = control[i]
    <3>1. PICK i \in DOMAIN control : control'[k] = control[i]
      BY <2>1
    <3>2. /\ control[i].msg \in DOMAIN msgs /\ control[i].resend_cnt \in Int
          /\ written[msgs[control[i].msg].what] >= 1 + RESEND_CNT - control[i].resend_cnt
      BY <1>1, TypesOfItems DEF ControlSound, AttemptsWritten
    <3>3. msgs[control[i].msg].what \in 1 .. MaxMsgs
      <4>1. msgs[control[i].msg].id > NO_ID
        BY <1>1 DEF ControlSound
      <4>2. msgs[control[i].msg].what # Receipt
        BY <1>1, <3>2, <4>1 DEF Distinct, NO_ID, NO_REQ_ID
      <4>3. msgs[control[i].msg] \in [what : 0 .. created, id : NO_REQ_ID .. (msg_num - 1)]
        BY <1>1, <3>2 DEF TypeOK
      <4> QED BY <1>8, <4>2, <4>3 DEF Receipt
    <3>4. msgs'[control'[k].msg].what = msgs[control[i].msg].what
      BY <1>6, <3>1, <3>2
    <3> DEFINE n == msgs[control[i].msg].what
               c == control[i].resend_cnt
    <3>5. written'[n] >= written[n] /\ written'[n] \in Nat /\ written[n] \in Nat
      BY <1>11, <3>3
    <3>6. c \in Int /\ RESEND_CNT \in Nat /\ written[n] >= 1 + RESEND_CNT - c
      BY <1>8, <3>2
    <3>7. msgs'[control'[k].msg].what = n /\ control'[k].resend_cnt = c
      BY <3>1, <3>4
    <3> HIDE DEF n, c
    <3>8. written'[n] >= 1 + RESEND_CNT - c
      BY <3>5, <3>6
    <3> QED BY <3>7, <3>8
  <2>2. CASE control'[k].msg = a /\ a \notin Controlled /\ control'[k].resend_cnt = RESEND_CNT
    <3> DEFINE n == msgs[a].what
    <3>1. written'[n] = written[n] + 1 /\ written[n] \in Nat /\ RESEND_CNT \in Nat
      BY <1>8, <1>11
    <3>2. msgs'[control'[k].msg].what = n /\ control'[k].resend_cnt = RESEND_CNT
      BY <1>9, <2>2
    <3> HIDE DEF n
    <3>3. written'[n] >= 1 + RESEND_CNT - RESEND_CNT
      BY <3>1
    <3> QED BY <3>2, <3>3
  <2>3. CASE /\ control'[k].msg = a
             /\ \E i \in DOMAIN control :
                   /\ control[i].msg = a
                   /\ control'[k].resend_cnt = control[i].resend_cnt - 1
    <3>1. PICK i \in DOMAIN control :
              control[i].msg = a /\ control'[k].resend_cnt = control[i].resend_cnt - 1
      BY <2>3
    <3>2. /\ control[i].resend_cnt \in Int
          /\ written[msgs[a].what] >= 1 + RESEND_CNT - control[i].resend_cnt
      BY <1>1, <3>1, TypesOfItems DEF AttemptsWritten
    <3> DEFINE n == msgs[a].what
               c == control[i].resend_cnt
    <3>3. written'[n] = written[n] + 1 /\ written[n] \in Nat /\ RESEND_CNT \in Nat
      BY <1>8, <1>11
    <3>4. msgs'[control'[k].msg].what = n /\ control'[k].resend_cnt = c - 1
      BY <1>9, <2>3, <3>1
    <3>5. c \in Int /\ written[n] >= 1 + RESEND_CNT - c
      BY <3>2
    <3> HIDE DEF n, c
    <3>6. written'[n] >= 1 + RESEND_CNT - (c - 1)
      BY <3>3, <3>5
    <3> QED BY <3>4, <3>6
  <2> QED BY <1>7, <2>1, <2>2, <2>3
<1>20. OverdueQueued'
  BY <1>2 DEF OverdueQueued
<1>21. NoResend' /\ InOrder'
  <2> SUFFICES ASSUME prompt PROVE NoResend' /\ InOrder'
    BY <1>2 DEF NoResend, InOrder
  <2>1. /\ \A k \in DOMAIN to_send : to_send[k] \in DOMAIN msgs \ Controlled /\ Fresh(to_send[k])
        /\ \A j, k \in DOMAIN to_send : to_send[j] = to_send[k] => j = k
        /\ \A k \in DOMAIN control :
              control[k].age <= RESEND_TIME /\ control[k].resend_cnt = RESEND_CNT
        /\ \A j, k \in DOMAIN wire : wire[j].what = wire[k].what => j = k
        /\ \A k \in DOMAIN wire : wire[k].what \notin Range(received)
        /\ \A j, k \in DOMAIN received : received[j] = received[k] => j = k
    BY <1>1, Zenon DEF NoResend
  <2>2. a \in DOMAIN msgs \ Controlled /\ Fresh(a)
    BY <1>3, <2>1
  <2>3. /\ msgs[a].what \notin Range(received)
        /\ \A k \in DOMAIN wire : wire[k].what # msgs[a].what
    BY <1>4, <2>2 DEF Fresh
  <2>4. ASSUME NEW k \in DOMAIN rest
        PROVE  rest[k] \in DOMAIN msgs \ Controlled' /\ Fresh(rest[k]) /\ rest[k] # a
    <3>1. k + 1 # 1 /\ rest[k] = to_send[k + 1] /\ k + 1 \in DOMAIN to_send
      BY <1>3
    <3>2. rest[k] # a
      BY <1>3, <2>1, <3>1
    <3> QED BY <1>7, <2>1, <3>1, <3>2
  <2>5. ASSUME NEW b \in DOMAIN msgs, b # a, Fresh(b) PROVE Fresh(b)'
    <3> SUFFICES ASSUME msgs[b].what # Receipt
                 PROVE  /\ msgs[b].what \notin Range(received)
                        /\ \A k \in DOMAIN wire' : wire'[k].what # msgs[b].what
      BY <1>2, <1>6, <2>5 DEF Fresh
    <3>1. msgs[b].what # msgs[a].what
      BY <1>1, <1>2, <2>5 DEF Distinct
    <3>2. /\ msgs[b].what \notin Range(received)
          /\ \A k \in DOMAIN wire : wire[k].what # msgs[b].what
      BY <2>5 DEF Fresh
    <3> QED BY <1>9, <1>10, <3>1, <3>2
  <2>6. NoResend'
    <3>1. \A k \in DOMAIN to_send' : to_send'[k] \in DOMAIN msgs' \ Controlled' /\ Fresh(to_send[k])'
      <4> SUFFICES ASSUME NEW k \in DOMAIN to_send'
                   PROVE  to_send'[k] \in DOMAIN msgs' \ Controlled' /\ Fresh(to_send[k])'
        OBVIOUS
      <4>1. to_send'[k] = rest[k] /\ k \in DOMAIN rest
        BY <1>2
      <4>2. /\ to_send'[k] \in DOMAIN msgs \ Controlled' /\ to_send'[k] # a
            /\ Fresh(to_send'[k])
        BY <2>4, <4>1
      <4> QED BY <1>6, <2>5, <4>2, Zenon
    <3>2. \A j, k \in DOMAIN to_send' : to_send'[j] = to_send'[k] => j = k
      BY <1>2, <1>3, <2>1
    <3>3. ASSUME NEW k \in DOMAIN control'
          PROVE  control'[k].age <= RESEND_TIME /\ control'[k].resend_cnt = RESEND_CNT
      <4>1. \A i \in DOMAIN control : control[i].msg # a
        BY <2>2 DEF Controlled
      <4>2. CASE control'[k].msg # a /\ \E i \in DOMAIN control : control'[k] = control[i]
        BY <2>1, <4>2
      <4>3. CASE control'[k].age = 0 /\ control'[k].resend_cnt = RESEND_CNT
        BY <1>8, <4>3
      <4> QED BY <1>7, <4>1, <4>2, <4>3
    <3>4. \A j, k \in DOMAIN wire' : wire'[j].what = wire'[k].what => j = k
      <4> SUFFICES ASSUME NEW j \in DOMAIN wire', NEW k \in DOMAIN wire',
                          wire'[j].what = wire'[k].what
                   PROVE  j = k
        OBVIOUS
      <4>1. \A i \in DOMAIN wire' :
                \/ i \in DOMAIN wire /\ wire'[i].what = wire[i].what
                \/ i = Len(wire) + 1 /\ wire'[i].what = msgs[a].what
        BY <1>9, <1>10
      <4> QED BY <2>1, <2>3, <4>1
    <3>5. \A k \in DOMAIN wire' : wire'[k].what \notin Range(received')
      BY <1>2, <1>9, <1>10, <2>1, <2>3
    <3>6. pc' # "closed" /\ \A j, k \in DOMAIN received' : received'[j] = received'[k] => j = k
      BY <1>2, <2>1
    <3> QED BY <3>1, <3>2, <3>3, <3>4, <3>5, <3>6, Zenon DEF NoResend
  <2>7. InOrder'
    <3> SUFFICES ASSUME fails = 0 PROVE InOrder'
      BY <1>2 DEF InOrder
    <3>1. /\ msg_num = Len(received) + Len(wire) + 1
          /\ \A k \in DOMAIN received : received[k] = k
          /\ \A k \in DOMAIN wire : wire[k].what = Len(received) + k
          /\ \A n \in msg_num .. created : \E j \in DOMAIN to_send : msgs[to_send[j]].what = n
          /\ \A k \in DOMAIN to_send :
                msgs[to_send[k]].what # Receipt =>
                    /\ msgs[to_send[k]].id = NO_ID /\ msgs[to_send[k]].what >= msg_num
                    /\ \A j \in DOMAIN to_send :
                          j < k => msgs[to_send[j]].what < msgs[to_send[k]].what
      BY <1>1 DEF InOrder
    <3>2. msgs[a].id = NO_ID /\ msgs[a].what >= msg_num
      BY <1>3, <1>4, <3>1
    <3>3. msgs[a].what = msg_num
      <4>1. msg_num \in msg_num .. created
        BY <1>6, <1>8, <3>2
      <4>2. PICK j \in DOMAIN to_send : msgs[to_send[j]].what = msg_num
        BY <3>1, <4>1
      <4>3. msg_num # Receipt
        BY <1>6 DEF Receipt
      <4>4. j # 1 => 1 < j
        BY <1>3
      <4>5. j # 1 => msgs[a].what < msg_num
        BY <1>3, <3>1, <4>2, <4>3, <4>4
      <4> QED BY <1>3, <1>6, <1>8, <3>2, <4>2, <4>5
    <3>4. msg_num' = msg_num + 1
      BY <1>2, <3>2
    <3>5. /\ msg_num' = Len(received') + Len(wire') + 1 /\ msg_num' <= created' + 1
          /\ \A k \in DOMAIN received' : received'[k] = k
      <4>1. Len(received) \in Nat
        BY <1>1 DEF Counters
      <4> QED BY <1>2, <1>8, <1>10, <3>1, <3>3, <3>4, <4>1
    <3>6. \A k \in DOMAIN wire' : wire'[k].what = Len(received') + k
      <4>1. Len(received) \in Nat
        BY <1>1 DEF Counters
      <4>2. \A i \in DOMAIN wire' :
                \/ i \in DOMAIN wire /\ wire'[i].what = wire[i].what
                \/ i = Len(wire) + 1 /\ wire'[i].what = msgs[a].what
        BY <1>9, <1>10
      <4>3. Len(wire) \in Nat /\ msgs[a].what = Len(received) + (Len(wire) + 1)
        BY <1>10, <3>1, <3>3, <4>1
      <4> QED BY <1>2, <3>1, <4>2, <4>3
    <3>7. \A k \in DOMAIN rest : msgs'[rest[k]] = msgs[to_send[k + 1]]
      BY <1>3, <1>6, <2>4
    <3>8. ASSUME NEW n \in msg_num' .. created PROVE \E j \in DOMAIN rest : msgs'[rest[j]].what = n
      <4>1. n \in msg_num .. created /\ n # msg_num
        BY <1>6, <1>8, <3>4
      <4>2. PICK j \in DOMAIN to_send : msgs[to_send[j]].what = n
        BY <3>1, <4>1
      <4>3. j - 1 \in DOMAIN rest /\ rest[j - 1] = to_send[j]
        BY <1>3, <3>3, <4>1, <4>2
      <4> QED BY <1>6, <2>4, <4>2, <4>3
    <3>9. ASSUME NEW k \in DOMAIN rest, msgs'[rest[k]].what # Receipt
          PROVE  /\ msgs'[rest[k]].id = NO_ID /\ msgs'[rest[k]].what >= msg_num'
                 /\ \A j \in DOMAIN rest : j < k => msgs'[rest[j]].what < msgs'[rest[k]].what
      <4>1. k + 1 \in DOMAIN to_send /\ msgs[to_send[k + 1]].what # Receipt
        BY <1>3, <3>7, <3>9
      <4>2. /\ msgs[to_send[k + 1]].id = NO_ID
            /\ \A j \in DOMAIN to_send :
                  j < k + 1 => msgs[to_send[j]].what < msgs[to_send[k + 1]].what
        BY <3>1, <4>1
      <4>3. msg_num < msgs[to_send[k + 1]].what
        <5>1. 1 < k + 1 /\ 1 \in DOMAIN to_send
          BY <1>3
        <5>2. msgs[to_send[1]].what < msgs[to_send[k + 1]].what
          BY <4>2, <5>1
        <5> QED BY <1>3, <3>3, <5>2
      <4>4. msgs[to_send[k + 1]].what \in Int
        BY <1>1, <2>1, <4>1, TypesOfItems
      <4>5. ASSUME NEW j \in DOMAIN rest, j < k
            PROVE  msgs'[rest[j]].what < msgs'[rest[k]].what
        <5>1. j + 1 \in DOMAIN to_send /\ j + 1 < k + 1
          BY <1>3, <4>5
        <5> QED BY <3>7, <4>2, <5>1
      <4> QED BY <1>6, <3>4, <3>7, <4>2, <4>3, <4>4, <4>5
    <3> QED BY <1>2, <3>5, <3>6, <3>8, <3>9 DEF InOrder
  <2> QED BY <2>6, <2>7
<1> QED BY <1>6, <1>13, <1>14, <1>16, <1>17, <1>18, <1>19, <1>20, <1>21 DEF IInv

LEMMA Inductive ==
    ASSUME DeliveryAssumption, IInv, [Next]_vars
    PROVE  IInv'
<1>1. CASE UNCHANGED vars
  BY <1>1, StandStill
<1>2. ASSUME NEW a \in Addr, send_msg(a) \/ ProcessMsg(a) \/ ProcessField(a) PROVE IInv'
  BY <1>2, SendStep, ProcessMsgStep, ProcessFieldStep
<1>3. CASE Select
  BY <1>3, SelectStep
<1>4. CASE WriteOne
  BY <1>4, WriteReceiptStep, WriteMessageStep
<1>5. CASE WriteFails \/ WriteDeleted
  BY <1>5, WriteFailsStep, WriteDeletedStep
<1>6. CASE Resend
  BY <1>6, ResendStep
<1>7. CASE ProcessReceipt \/ ProcessDone
  BY <1>7, ProcessReceiptStep, ProcessDoneStep
<1>8. CASE Tick \/ Break
  BY <1>8, TickStep, BreakStep
<1>9. CASE PeerReads \/ PeerSends
  BY <1>9, PeerReadsStep, PeerSendsStep
<1>10. CASE Idle
  BY <1>1, <1>10 DEF Idle
<1> QED BY <1>1, <1>2, <1>3, <1>4, <1>5, <1>6, <1>7, <1>8, <1>9, <1>10 DEF Next

THEOREM Invariance == Spec => []IInv
<1>1. Init => IInv
  BY InitIInv, DeliveryAssumption
<1>2. IInv /\ [Next]_vars => IInv'
  BY Inductive, DeliveryAssumption
<1> QED BY <1>1, <1>2, PTL DEF Spec

-----------------------------------------------------------------------------
(***************************************************************************)
(* What the invariant means                                                *)
(***************************************************************************)

\* Every list holds what it is meant to hold, and no number is given twice.
THEOREM TypeCorrect == Spec => []TypeOK
<1>1. IInv => TypeOK
  BY DEF IInv
<1> QED BY <1>1, Invariance, PTL

\* Every message alive is in the queue or under control, and what is under
\* control is alive, is there once and has its own number.
THEOREM EverythingOwned == Spec => []Owned
<1>1. IInv => Owned
  <2> SUFFICES ASSUME IInv, pc # "closed" PROVE Owned
    BY DEF Owned
  <2>1. DOMAIN msgs \subseteq Queued \cup Controlled
    BY DEF IInv, Held
  <2>2. Controlled \subseteq DOMAIN msgs
    BY DEF IInv, ControlSound, Controlled
  <2>3. \A j, k \in DOMAIN control :
            msgs[control[j].msg].id = msgs[control[k].msg].id => j = k
    BY DEF IInv, ControlSound, Distinct
  <2> QED BY <2>1, <2>2, <2>3 DEF Owned
<1> QED BY <1>1, Invariance, PTL

\* As long as receipts come in time, the queue holds no deleted message, none
\* twice, and none that waits for its receipt.
THEOREM QueueIsSound == Spec => []QueueSound
<1>1. IInv => QueueSound
  <2> SUFFICES ASSUME IInv, prompt PROVE QueueSound
    BY DEF QueueSound
  <2>1. /\ \A k \in DOMAIN to_send : to_send[k] \in DOMAIN msgs \ Controlled
        /\ \A j, k \in DOMAIN to_send : to_send[j] = to_send[k] => j = k
    BY DEF IInv, NoResend
  <2> QED BY <2>1 DEF QueueSound, Queued, Range, IsInjective
<1> QED BY <1>1, Invariance, PTL

\* As long as receipts come in time, the peer gets no message twice and, unless
\* a write fails, gets them in the order in which they were sent.
THEOREM OnceInOrder == Spec => []DeliveredOnceInOrder
<1>1. IInv => DeliveredOnceInOrder
  <2> SUFFICES ASSUME IInv, prompt PROVE DeliveredOnceInOrder
    BY DEF DeliveredOnceInOrder
  <2>1. IsInjective(received)
    BY DEF IInv, NoResend, IsInjective
  <2>2. ASSUME fails = 0 PROVE received = [k \in DOMAIN received |-> k]
    <3>1. \A k \in DOMAIN received : received[k] = k
      BY <2>2 DEF IInv, InOrder
    <3>2. received = [k \in DOMAIN received |-> received[k]]
      BY DEF IInv, Counters
    <3> QED BY <3>1, <3>2
  <2> QED BY <2>1, <2>2 DEF DeliveredOnceInOrder
<1> QED BY <1>1, Invariance, PTL

\* Who deletes a message: Resend what is exhausted, ProcessReceipt what is
\* confirmed, WriteOne a receipt, and the server everything when it closes.
LEMMA Deletions ==
    ASSUME IInv, [Next]_vars, NEW a \in DOMAIN msgs
    PROVE  \/ a \in DOMAIN msgs' /\ msgs'[a].what = msgs[a].what
           \/ /\ Resend
              /\ \E k \in DOMAIN control : a = control[k].msg /\ exhausted(control[k])
           \/ ProcessReceipt /\ a \in Acknowledged(Head(to_process))
           \/ WriteOne /\ msgs[a].what = Receipt
           \/ Break /\ to_send' = <<>> /\ pc' = "closed"
<1> DEFINE Stays == a \in DOMAIN msgs' /\ msgs'[a].what = msgs[a].what
<1>1. TypeOK /\ Counters /\ Distinct
  BY DEF IInv
<1>2. CASE UNCHANGED msgs
  BY <1>2
<1>3. ASSUME NEW b \in Addr, NEW what, Put(b, what) PROVE Stays
  BY <1>1, <1>3, PutFacts
<1>4. ASSUME NEW b \in DOMAIN msgs, msgs' = [msgs EXCEPT ![b] = numbered(b)] PROVE Stays
  <2>1. msgs[b] \in [what : 0 .. created, id : NO_REQ_ID .. (msg_num - 1)]
    BY <1>1 DEF TypeOK
  <2>2. numbered(b).what = msgs[b].what
    BY <2>1 DEF numbered
  <2> QED BY <1>4, <2>2
<1>5. ASSUME NEW gone, msgs' = MsgsWithout(gone), a \notin gone PROVE Stays
  BY <1>5 DEF MsgsWithout
<1>6. ASSUME NEW b \in Addr, send_msg(b) \/ ProcessMsg(b) \/ ProcessField(b) PROVE Stays
  <2>1. CASE send_msg(b) \/ ProcessMsg(b)
    BY <1>3, <2>1 DEF send_msg, ProcessMsg
  <2>2. CASE ProcessField(b)
    <3>1. Put(b, Receipt) \/ UNCHANGED msgs
      BY <2>2 DEF ProcessField, memory
    <3> QED BY <1>3, <3>1
  <2> QED BY <1>6, <2>1, <2>2
<1>7. CASE WriteOne
  <2> DEFINE b == Head(to_send)
  <2>1. /\ b \in DOMAIN msgs
        /\ \/ msgs[b].what = Receipt /\ msgs' = MsgsWithout({b})
           \/ msgs' = [msgs EXCEPT ![b] = numbered(b)]
    BY <1>7 DEF WriteOne
  <2> HIDE DEF b
  <2>2. CASE msgs[b].what = Receipt /\ msgs' = MsgsWithout({b})
    <3>1. CASE a = b
      BY <1>7, <2>2, <3>1
    <3>2. CASE a # b
      BY <1>5, <2>2, <3>2
    <3> QED BY <3>1, <3>2
  <2>3. CASE msgs' = [msgs EXCEPT ![b] = numbered(b)]
    BY <1>4, <2>1, <2>3
  <2> QED BY <2>1, <2>2, <2>3
<1>8. CASE WriteFails
  BY <1>4, <1>8 DEF WriteFails
<1>9. CASE Resend
  <2>1. PICK gone \in Removals : msgs' = MsgsWithout(gone)
    BY <1>9 DEF Resend
  <2> QED BY <1>5, <1>9, <2>1, RemovalsUnderControl
<1>10. CASE ProcessReceipt
  <2>1. msgs' = MsgsWithout(Acknowledged(Head(to_process)))
    BY <1>10 DEF ProcessReceipt
  <2> QED BY <1>5, <1>10, <2>1
<1>11. CASE Break
  BY <1>2, <1>11 DEF Break, memory
<1>12. CASE Select \/ WriteDeleted \/ ProcessDone \/ Tick \/ PeerReads \/ PeerSends \/ Idle
  BY <1>2, <1>12 DEF Select, WriteDeleted, ProcessDone, Tick, PeerReads, PeerSends, Idle,
                     memory, vars
<1>13. CASE UNCHANGED vars
  BY <1>2, <1>13 DEF vars, memory
<1> QED BY <1>6, <1>7, <1>8, <1>9, <1>10, <1>11, <1>12, <1>13 DEF Next

\* A message is given up only when all its attempts have been used, or when the
\* peer has read it.
LEMMA GivenUpStep ==
    ASSUME DeliveryAssumption, IInv, IInv', GivenUpLast, [Next]_vars
    PROVE  GivenUpLast'
<1> SUFFICES ASSUME pc' # "closed", NEW n \in 1 .. created'
             PROVE  \/ \E a \in DOMAIN msgs' : msgs'[a].what = n
                    \/ n \in Range(received')
                    \/ written'[n] > RESEND_CNT
  BY DEF GivenUpLast
<1>1. /\ TypeOK /\ Counters /\ Distinct /\ ControlSound /\ Numbered /\ AttemptsWritten
  BY DEF IInv
<1>2. pc # "closed"
  BY DEF Next, send_msg, ProcessMsg, ProcessField, Select, WriteOne, WriteFails, WriteDeleted,
         Resend, ProcessReceipt, ProcessDone, Tick, Break, PeerReads, PeerSends, Idle, vars
<1>3. \/ \E a \in DOMAIN msgs' : msgs'[a].what = n
      \/ created \in Nat /\ n \in 1 .. created
  <2>1. ASSUME NEW a \in Addr, send_msg(a)
        PROVE  created' = created + 1 /\ \E b \in DOMAIN msgs' : msgs'[b].what = created'
    <3>1. created' = created + 1 /\ Put(a, created')
      BY <2>1 DEF send_msg
    <3>2. a \in DOMAIN msgs' /\ msgs'[a].what = created'
      BY <3>1 DEF Put
    <3> QED BY <3>1, <3>2
  <2>2. created' = created \/ \E a \in Addr : send_msg(a)
    BY DEF Next, ProcessMsg, ProcessField, Select, WriteOne, WriteFails, WriteDeleted,
           Resend, ProcessReceipt, ProcessDone, Tick, Break, PeerReads, PeerSends, Idle, vars,
           counters
  <2>3. created \in Nat
    BY <1>1 DEF Counters
  <2> QED BY <2>1, <2>2, <2>3
<1> SUFFICES ASSUME created \in Nat, n \in 1 .. created
             PROVE  \/ \E a \in DOMAIN msgs' : msgs'[a].what = n
                    \/ n \in Range(received')
                    \/ written'[n] > RESEND_CNT
  BY <1>3
<1>4. Range(received) \subseteq Range(received')
  <2>1. CASE PeerReads
    <3>1. received' = Append(received, Head(wire).what)
      BY <2>1 DEF PeerReads
    <3>2. \A k \in DOMAIN received : k \in DOMAIN received' /\ received'[k] = received[k]
      BY <1>1, <3>1 DEF Counters
    <3> QED BY <3>2, Zenon DEF Range
  <2>2. PeerReads \/ received' = received
    BY DEF Next, send_msg, ProcessMsg, ProcessField, Select, WriteOne, WriteFails, WriteDeleted,
           Resend, ProcessReceipt, ProcessDone, Tick, Break, PeerSends, Idle, vars, peer
  <2> QED BY <2>1, <2>2
<1>5. written[n] > RESEND_CNT => written'[n] > RESEND_CNT
  <2>1. n \in 1 .. MaxMsgs /\ written \in [1 .. MaxMsgs -> Nat]
    BY <1>1 DEF Counters, DeliveryAssumption
  <2>2. CASE WriteOne
    <3>1. written' = written \/ \E m : written' = [written EXCEPT ![m] = @ + 1]
      BY <2>2, Zenon DEF WriteOne
    <3>2. RESEND_CNT \in Nat
      BY DEF DeliveryAssumption
    <3> QED BY <2>1, <3>1, <3>2
  <2>3. WriteOne \/ written' = written
    BY DEF Next, send_msg, ProcessMsg, ProcessField, Select, WriteFails, WriteDeleted,
           Resend, ProcessReceipt, ProcessDone, Tick, Break, PeerReads, PeerSends, Idle, vars,
           counters
  <2> QED BY <2>2, <2>3
<1>6. ASSUME NEW a \in DOMAIN msgs, msgs[a].what = n
      PROVE  \/ \E b \in DOMAIN msgs' : msgs'[b].what = n
             \/ n \in Range(received)
             \/ written[n] > RESEND_CNT
  <2>1. n # Receipt /\ msgs[a].what # Receipt
    BY <1>6 DEF Receipt
  <2>2. CASE \E k \in DOMAIN control : a = control[k].msg /\ exhausted(control[k])
    <3>1. PICK k \in DOMAIN control : a = control[k].msg /\ exhausted(control[k])
      BY <2>2
    <3> DEFINE c == control[k].resend_cnt
    <3>2. c \in Int /\ c <= 0 /\ written[n] >= 1 + RESEND_CNT - c
      BY <1>1, <1>6, <3>1, TypesOfItems DEF AttemptsWritten, exhausted
    <3>3. RESEND_CNT \in Nat /\ written[n] \in Nat
      BY <1>1 DEF Counters, DeliveryAssumption
    <3> HIDE DEF c
    <3>4. written[n] > RESEND_CNT
      BY <3>2, <3>3
    <3> QED BY <3>4
  <2>3. CASE ProcessReceipt /\ a \in Acknowledged(Head(to_process))
    <3>1. a \in Controlled /\ msgs[a].id = Head(to_process) /\ to_process # <<>>
      BY <2>3 DEF Acknowledged, ProcessReceipt
    <3>2. msgs[a].id > NO_ID
      BY <1>1, <3>1 DEF ControlSound, Controlled
    <3>3. 1 \in DOMAIN to_process /\ Head(to_process) = to_process[1]
      BY <1>1, <3>1, TailItems DEF TypeOK
    <3> QED BY <1>1, <1>6, <3>1, <3>2, <3>3 DEF Numbered, Confirms
  <2> QED BY <1>6, <2>1, <2>2, <2>3, Deletions
<1>7. \/ \E a \in DOMAIN msgs : msgs[a].what = n
      \/ n \in Range(received)
      \/ written[n] > RESEND_CNT
  BY <1>2 DEF GivenUpLast
<1> QED BY <1>4, <1>5, <1>6, <1>7

THEOREM NothingGivenUpEarly == Spec => []GivenUpLast
<1>1. Init => GivenUpLast
  BY DEF Init, GivenUpLast
<1>2. IInv /\ IInv' /\ GivenUpLast /\ [Next]_vars => GivenUpLast'
  BY GivenUpStep, DeliveryAssumption
<1> QED BY <1>1, <1>2, Invariance, PTL DEF Spec

\* Unless a write fails, only a receipt for a message that was overdue leaves a
\* deleted message in the queue.
THEOREM LateReceiptsOnly == Spec => OnlyLateReceiptsDelete
<1> DEFINE Late == \A k \in DOMAIN control :
               LET a == control[k].msg
               IN  fails = 0 /\ a \in Queued' \ DOMAIN msgs'
                   => pc = "process" /\ control[k].age > RESEND_TIME
<1>1. ASSUME IInv, [Next]_vars PROVE Late
  <2> SUFFICES ASSUME NEW k \in DOMAIN control, fails = 0,
                      control[k].msg \in Queued', control[k].msg \notin DOMAIN msgs'
               PROVE  pc = "process" /\ control[k].age > RESEND_TIME
    OBVIOUS
  <2>1. TypeOK /\ Counters /\ ControlSound /\ Distinct /\ OverdueQueued
    BY <1>1 DEF IInv
  <2> DEFINE a == control[k].msg
  <2>2. a \in DOMAIN msgs /\ msgs[a].id > NO_ID
    BY <2>1 DEF ControlSound
  <2>3. msgs[a].what # Receipt
    BY <2>1, <2>2 DEF Distinct, NO_ID, NO_REQ_ID
  <2>4. CASE Resend /\ \E j \in DOMAIN control : a = control[j].msg /\ exhausted(control[j])
    <3>1. exhausted(control[k])
      BY <2>1, <2>4 DEF ControlSound
    <3>2. to_send = <<>>
      BY <2>1, <2>4 DEF Counters, Resend
    <3>3. Queued = {}
      BY <3>2 DEF Queued, Range
    <3>4. PICK i \in DOMAIN control : need_resend(control[i]) /\ control[i].msg = a
      BY <2>1, <2>4, <3>3, OverdueFacts
    <3>5. need_resend(control[k])
      BY <2>1, <3>4 DEF ControlSound
    <3>6. control[k].resend_cnt \in Int
      BY <2>1, TypesOfItems
    <3> QED BY <3>1, <3>5, <3>6 DEF exhausted, need_resend
  <2>5. CASE ProcessReceipt
    <3>1. pc = "process" /\ Queued' = Queued
      BY <2>5 DEF ProcessReceipt, Queued
    <3> QED BY <2>1, <3>1 DEF OverdueQueued
  <2>6. CASE to_send' = <<>>
    BY <2>6 DEF Queued, Range
  <2> QED BY <1>1, <2>2, <2>3, <2>4, <2>5, <2>6, Deletions
<1>2. IInv /\ [Next]_vars => [Late]_vars
  BY <1>1
<1> QED BY <1>2, Invariance, PTL DEF Spec, OnlyLateReceiptsDelete

-----------------------------------------------------------------------------
(***************************************************************************)
(* How often a message is written                                          *)
(***************************************************************************)

\* Where in a list an item is.
Positions(s, a) == {k \in DOMAIN s : s[k] = a}

\* The attempts that a message in the queue has used.  A pointer to a deleted
\* message may become one to a new message, which then has one attempt more.
Used(a) ==
    IF a \notin DOMAIN msgs THEN 1
    ELSE IF msgs[a].what = Receipt THEN 0 ELSE written[msgs[a].what]

\* Every write of a message under control has used up an attempt, and what was
\* never under control has not been written.
Attempts ==
    /\ \A k \in DOMAIN control :
          /\ control[k].resend_cnt <= RESEND_CNT
          /\ written[msgs[control[k].msg].what] = 1 + RESEND_CNT - control[k].resend_cnt
    /\ pc # "closed" =>
          \A a \in DOMAIN msgs \ Controlled :
              msgs[a].what # Receipt => written[msgs[a].what] = 0
    /\ \A n \in 1 .. MaxMsgs : n > created => written[n] = 0

\* What a message may still be written, because the queue has it once or several
\* times, is bounded as well: resending adds a place in the queue that was empty,
\* or to one that is left of a write that failed.
Spare == 1 + RESEND_CNT + fails - (IF pc = "resend" THEN 1 ELSE 0)

Budget == \A a \in Addr : Cardinality(Positions(to_send, a)) + Used(a) <= Spare

\* A set with no more members than a finite one.
LEMMA FewerCounted ==
    ASSUME NEW S, IsFiniteSet(S), NEW T, NEW f \in [T -> S],
           \A x, y \in T : f[x] = f[y] => x = y
    PROVE  /\ IsFiniteSet(T) /\ Cardinality(T) <= Cardinality(S)
           /\ Cardinality(T) \in Nat /\ Cardinality(S) \in Nat
<1>1. f \in Injection(T, S)
  BY Zenon DEF Injection, IsInjective
<1>2. IsFiniteSet(T) /\ Cardinality(T) <= Cardinality(S)
  BY <1>1, FS_Injection
<1> QED BY <1>2, FS_CardinalityType

\* One member more than that.
LEMMA OneMoreCounted ==
    ASSUME NEW S, IsFiniteSet(S), NEW T, NEW e, T \subseteq S \cup {e}
    PROVE  /\ IsFiniteSet(T) /\ Cardinality(T) <= Cardinality(S) + 1
           /\ Cardinality(T) \in Nat /\ Cardinality(S) \in Nat
<1>1. /\ IsFiniteSet(S \cup {e}) /\ Cardinality(S) \in Nat
      /\ Cardinality(S \cup {e}) <= Cardinality(S) + 1
  BY FS_AddElement, FS_CardinalityType
<1>2. IsFiniteSet(T) /\ Cardinality(T) <= Cardinality(S \cup {e})
  BY <1>1, FS_Subset
<1>3. Cardinality(T) \in Nat /\ Cardinality(S \cup {e}) \in Nat
  BY <1>1, <1>2, FS_CardinalityType
<1> QED BY <1>1, <1>2, <1>3

LEMMA PositionsCounted ==
    ASSUME NEW S, NEW s \in Seq(S), NEW a
    PROVE  IsFiniteSet(Positions(s, a)) /\ Cardinality(Positions(s, a)) \in Nat
<1>1. DOMAIN s = 1 .. Len(s) /\ Len(s) \in Nat
  OBVIOUS
<1>2. IsFiniteSet(1 .. Len(s))
  BY <1>1, NumbersCounted
<1>3. Positions(s, a) \in SUBSET (1 .. Len(s))
  BY <1>1 DEF Positions
<1>4. IsFiniteSet(Positions(s, a))
  BY <1>2, <1>3, FS_Subset
<1> QED BY <1>4, FS_CardinalityType

\* An item put at the end is in the list once more.
LEMMA AppendCounted ==
    ASSUME NEW S, NEW s \in Seq(S), NEW e \in S, NEW a
    PROVE  Cardinality(Positions(Append(s, e), a)) <=
               Cardinality(Positions(s, a)) + (IF a = e THEN 1 ELSE 0)
<1> DEFINE t == Append(s, e)
<1>1. /\ \A k \in DOMAIN s : k \in DOMAIN t /\ t[k] = s[k]
      /\ t[Len(s) + 1] = e /\ Len(s) + 1 \in DOMAIN t
      /\ \A k \in DOMAIN t : k \in DOMAIN s \/ k = Len(s) + 1
  BY AppendItems
<1>2. IsFiniteSet(Positions(s, a)) /\ Cardinality(Positions(s, a)) \in Nat
  BY PositionsCounted
<1> HIDE DEF t
<1>3. CASE a = e
  <2>1. Positions(t, a) \subseteq Positions(s, a) \cup {Len(s) + 1}
    BY <1>1 DEF Positions
  <2>2. Cardinality(Positions(t, a)) <= Cardinality(Positions(s, a)) + 1
    BY <1>2, <2>1, OneMoreCounted
  <2> QED BY <1>3, <2>2 DEF t
<1>4. CASE a # e
  <2>1. Positions(t, a) = Positions(s, a)
    BY <1>1, <1>4, Zenon DEF Positions
  <2> QED BY <1>2, <1>4, <2>1 DEF t
<1> QED BY <1>3, <1>4

\* The first item taken off is in the list once less.
LEMMA TailCounted ==
    ASSUME NEW S, NEW s \in Seq(S), s # <<>>, NEW a
    PROVE  Cardinality(Positions(Tail(s), a)) + (IF a = Head(s) THEN 1 ELSE 0)
               <= Cardinality(Positions(s, a))
<1> DEFINE t == Tail(s)
           f == [k \in Positions(t, a) |-> k + 1]
<1>1. /\ t \in Seq(S)
      /\ Head(s) = s[1] /\ 1 \in DOMAIN s
      /\ DOMAIN t = 1 .. Len(t) /\ Len(t) \in Nat
      /\ \A k \in DOMAIN t : k + 1 \in DOMAIN s /\ t[k] = s[k + 1]
  BY TailItems
<1>2. IsFiniteSet(Positions(s, a)) /\ Cardinality(Positions(s, a)) \in Nat
  BY PositionsCounted
<1>7. Cardinality(Positions(t, a)) \in Nat
  BY <1>1, PositionsCounted
<1> HIDE DEF t
<1>3. \A k \in Positions(t, a) : k \in Nat \ {0} /\ k + 1 # 1 /\ k + 1 \in Positions(s, a)
  BY <1>1 DEF Positions
<1>4. \A j, k \in Positions(t, a) : f[j] = f[k] => j = k
  BY <1>3
<1>5. CASE a = Head(s)
  <2>1. 1 \in Positions(s, a)
    BY <1>1, <1>5 DEF Positions
  <2> DEFINE R == Positions(s, a) \ {1}
  <2>2. IsFiniteSet(R) /\ Cardinality(R) = Cardinality(Positions(s, a)) - 1
    BY <1>2, <2>1, FS_RemoveElement
  <2>3. f \in [Positions(t, a) -> R]
    BY <1>3
  <2> HIDE DEF R, f
  <2>4. Cardinality(Positions(t, a)) <= Cardinality(R)
    BY <1>4, <2>2, <2>3, FewerCounted
  <2> QED BY <1>2, <1>5, <1>7, <2>2, <2>4 DEF t
<1>6. CASE a # Head(s)
  <2>1. f \in [Positions(t, a) -> Positions(s, a)]
    BY <1>3
  <2> HIDE DEF f
  <2>2. Cardinality(Positions(t, a)) <= Cardinality(Positions(s, a))
    BY <1>2, <1>4, <2>1, FewerCounted
  <2> QED BY <1>6, <1>7, <2>2 DEF t
<1> QED BY <1>5, <1>6

\* A list put behind another one adds a place where it has one.
LEMMA ConcatCounted ==
    ASSUME NEW S, NEW s \in Seq(S), NEW t \in Seq(S), NEW a,
           \A j, k \in DOMAIN t : t[j] = t[k] => j = k
    PROVE  /\ Cardinality(Positions(s \o t, a)) <= Cardinality(Positions(s, a)) + 1
           /\ (\A k \in DOMAIN t : t[k] # a) => Positions(s \o t, a) = Positions(s, a)
<1> DEFINE u == s \o t
<1>1. /\ Len(s) \in Nat /\ Len(t) \in Nat /\ Len(u) = Len(s) + Len(t)
      /\ DOMAIN u = 1 .. Len(u) /\ DOMAIN s = 1 .. Len(s) /\ DOMAIN t = 1 .. Len(t)
      /\ \A k \in 1 .. Len(u) : u[k] = IF k <= Len(s) THEN s[k] ELSE t[k - Len(s)]
  OBVIOUS
<1> HIDE DEF u
<1>2. \A k \in DOMAIN u :
          \/ k \in DOMAIN s /\ u[k] = s[k]
          \/ k \in Int /\ k - Len(s) \in DOMAIN t /\ u[k] = t[k - Len(s)]
  BY <1>1
<1>3. \A k \in DOMAIN s : k \in DOMAIN u /\ u[k] = s[k]
  BY <1>1
<1>4. IsFiniteSet(Positions(s, a)) /\ Cardinality(Positions(s, a)) \in Nat
  BY PositionsCounted
<1>5. CASE \A k \in DOMAIN t : t[k] # a
  <2>1. \A k \in DOMAIN u : u[k] = a => k \in DOMAIN s /\ s[k] = a
    BY <1>2, <1>5
  <2>2. Positions(u, a) = Positions(s, a)
    BY <1>3, <2>1, Zenon DEF Positions
  <2> QED BY <1>4, <2>2 DEF u
<1>6. CASE \E k \in DOMAIN t : t[k] = a
  <2>1. PICK n \in DOMAIN t : t[n] = a
    BY <1>6
  <2>2. \A k \in DOMAIN u : u[k] = a => (k \in DOMAIN s /\ s[k] = a) \/ k = n + Len(s)
    <3> SUFFICES ASSUME NEW k \in DOMAIN u, u[k] = a, k \in Int, k - Len(s) \in DOMAIN t,
                        t[k - Len(s)] = a
                 PROVE  k = n + Len(s)
      BY <1>2
    <3>1. k - Len(s) = n
      BY <2>1
    <3>2. n \in Int /\ Len(s) \in Int
      BY <1>1
    <3> QED BY <3>1, <3>2
  <2>3. Positions(u, a) \subseteq Positions(s, a) \cup {n + Len(s)}
    BY <2>2 DEF Positions
  <2>4. Cardinality(Positions(u, a)) <= Cardinality(Positions(s, a)) + 1
    BY <1>4, <2>3, OneMoreCounted
  <2> QED BY <2>1, <2>4 DEF u
<1> QED BY <1>5, <1>6

UsesCounted == \A a : Used(a) \in Nat

LEMMA UsedIsNumber == IInv => UsesCounted
<1> SUFFICES ASSUME IInv, NEW a PROVE Used(a) \in Nat
  BY DEF UsesCounted
<1>1. TypeOK /\ Counters
  BY DEF IInv
<1>2. ASSUME a \in DOMAIN msgs, msgs[a].what # Receipt PROVE written[msgs[a].what] \in Nat
  <2>1. /\ msgs[a].what \in Int /\ 0 <= msgs[a].what /\ msgs[a].what <= created
        /\ created \in 0 .. MaxMsgs /\ MaxMsgs \in Nat
    BY <1>1, <1>2, TypesOfItems, DeliveryAssumption DEF Counters, DeliveryAssumption
  <2>2. msgs[a].what \in 1 .. MaxMsgs
    BY <1>2, <2>1 DEF Receipt
  <2> QED BY <1>1, <2>2 DEF Counters
<1> QED BY <1>2 DEF Used

\* A step that writes nothing uses up no attempt.
LEMMA AttemptsKept ==
    ASSUME DeliveryAssumption, IInv, Attempts,
           written' = written,
           created' = created \/ (created' = created + 1 /\ created' <= MaxMsgs),
           \A b \in DOMAIN msgs' :
               \/ b \in DOMAIN msgs /\ msgs'[b].what = msgs[b].what
               \/ b \notin DOMAIN msgs /\ msgs'[b].what = Receipt
               \/ b \notin DOMAIN msgs /\ msgs'[b].what = created' /\ created' = created + 1,
           \A k \in DOMAIN control' :
               /\ control'[k].msg \in DOMAIN msgs'
               /\ \E i \in DOMAIN control : /\ control'[k].msg = control[i].msg
                                            /\ control'[k].resend_cnt = control[i].resend_cnt,
           pc' # "closed" => /\ pc # "closed"
                             /\ \A b \in DOMAIN msgs' : b \in Controlled => b \in Controlled'
    PROVE  Attempts'
<1>1. /\ created \in Nat /\ MaxMsgs \in Nat /\ ControlSound
      /\ \A b \in DOMAIN msgs : msgs[b].what \in Int /\ msgs[b].what <= created
  BY TypesOfItems DEF IInv, Counters, DeliveryAssumption
<1>2. ASSUME NEW k \in DOMAIN control'
      PROVE  /\ control'[k].resend_cnt <= RESEND_CNT
             /\ written[msgs'[control'[k].msg].what] = 1 + RESEND_CNT - control'[k].resend_cnt
  <2>1. PICK i \in DOMAIN control : /\ control'[k].msg = control[i].msg
                                    /\ control'[k].resend_cnt = control[i].resend_cnt
    OBVIOUS
  <2>2. control[i].msg \in DOMAIN msgs
    BY <1>1 DEF ControlSound
  <2>3. msgs'[control'[k].msg].what = msgs[control[i].msg].what
    BY <2>1, <2>2
  <2> QED BY <2>1, <2>3 DEF Attempts
<1>3. ASSUME NEW n \in 1 .. MaxMsgs, n > created' PROVE written[n] = 0
  BY <1>1, <1>3 DEF Attempts
<1>4. ASSUME pc' # "closed", NEW b \in DOMAIN msgs' \ Controlled', msgs'[b].what # Receipt
      PROVE  written[msgs'[b].what] = 0
  <2>1. CASE b \in DOMAIN msgs /\ msgs'[b].what = msgs[b].what
    BY <1>4, <2>1 DEF Attempts
  <2>2. CASE msgs'[b].what = created' /\ created' = created + 1
    <3>1. created' \in 1 .. MaxMsgs /\ created' > created
      BY <1>1, <2>2
    <3> QED BY <2>2, <3>1 DEF Attempts
  <2> QED BY <1>4, <2>1, <2>2
<1> QED BY <1>2, <1>3, <1>4 DEF Attempts

\* A message under control has been written.
LEMMA ControlledWasWritten ==
    ASSUME DeliveryAssumption, IInv, Attempts, NEW k \in DOMAIN control
    PROVE  /\ Used(control[k].msg) = 1 + RESEND_CNT - control[k].resend_cnt
           /\ Used(control[k].msg) >= 1
<1> DEFINE a == control[k].msg
<1>1. a \in DOMAIN msgs /\ msgs[a].id > NO_ID /\ Distinct /\ TypeOK /\ Counters
  BY DEF IInv, ControlSound
<1>2. msgs[a].what # Receipt
  BY <1>1 DEF Distinct, NO_ID, NO_REQ_ID
<1>3. Used(a) = written[msgs[a].what]
  BY <1>1, <1>2 DEF Used
<1>4. control[k].resend_cnt \in Int /\ RESEND_CNT \in Int
  BY <1>1, TypesOfItems DEF DeliveryAssumption
<1>5. /\ control[k].resend_cnt <= RESEND_CNT
      /\ written[msgs[a].what] = 1 + RESEND_CNT - control[k].resend_cnt
  BY DEF Attempts
<1> HIDE DEF a
<1>6. Used(a) = 1 + RESEND_CNT - control[k].resend_cnt
  BY <1>3, <1>5
<1>7. Used(a) >= 1
  BY <1>4, <1>5, <1>6
<1> QED BY <1>6, <1>7 DEF a

\* What stays under control stays as it is.
LEMMA KeptUnderControl ==
    ASSUME TypeOK, NEW gone, control' = ControlWithout(gone)
    PROVE  \A k \in DOMAIN control' : \E i \in DOMAIN control : control'[k] = control[i]
<1> DEFINE Item == [msg : Addr, age : 0 .. (RESEND_TIME + 1), resend_cnt : Int]
           I    == {k \in DOMAIN control : control[k].msg \notin gone}
<1>1. control \in Seq(Item)
  BY DEF TypeOK
<1>2. I \in SUBSET DOMAIN control /\ control' = Sublist(control, I)
  BY DEF ControlWithout
<1>3. control' \in Seq(Item) /\ Takes(control', control, I)
  <2> HIDE DEF Item, I
  <2> QED BY <1>1, <1>2, SublistTakes
<1>4. DOMAIN control' = 1 .. Len(control')
  BY <1>3
<1>5. PICK g \in [1 .. Len(control') -> I] :
          \A k \in 1 .. Len(control') : control'[k] = control[g[k]]
  BY <1>3, Zenon DEF Takes
<1> QED BY <1>4, <1>5

\* Nor does a message that is deleted.
LEMMA RemovalUses ==
    ASSUME DeliveryAssumption, IInv, IInv', Attempts, NEW gone, gone \subseteq Controlled,
           control' = ControlWithout(gone), msgs' = MsgsWithout(gone),
           written' = written, created' = created, pc # "closed"
    PROVE  Attempts' /\ \A a : Used(a)' <= Used(a)
<1>1. TypeOK /\ ControlSound'
  BY DEF IInv
<1>2. /\ DOMAIN msgs' = DOMAIN msgs \ gone
      /\ \A b \in DOMAIN msgs \ gone : msgs'[b] = msgs[b]
      /\ Controlled' = Controlled \ gone
  BY <1>1, RemoveFacts
<1>3. \A k \in DOMAIN control' :
          /\ control'[k].msg \in DOMAIN msgs'
          /\ \E i \in DOMAIN control : /\ control'[k].msg = control[i].msg
                                       /\ control'[k].resend_cnt = control[i].resend_cnt
  <2>1. \A k \in DOMAIN control' : control'[k].msg \in DOMAIN msgs'
    BY <1>1 DEF ControlSound
  <2>2. \A k \in DOMAIN control' : \E i \in DOMAIN control : control'[k] = control[i]
    BY <1>1, KeptUnderControl
  <2> QED BY <2>1, <2>2
<1>4. Attempts'
  <2>1. \A b \in DOMAIN msgs' : b \in DOMAIN msgs /\ msgs'[b].what = msgs[b].what
    BY <1>2
  <2>2. \A b \in DOMAIN msgs' : b \in Controlled => b \in Controlled'
    BY <1>2
  <2> QED BY <1>3, <2>1, <2>2, AttemptsKept
<1>5. ASSUME NEW a PROVE Used(a)' <= Used(a)
  <2>1. Used(a) \in Nat
    BY UsedIsNumber DEF UsesCounted
  <2>2. CASE a \in gone
    <3>1. PICK k \in DOMAIN control : a = control[k].msg
      BY <2>2, Zenon DEF Controlled
    <3>2. Used(a)' = 1
      BY <1>2, <2>2 DEF Used
    <3> QED BY <3>1, <3>2, ControlledWasWritten
  <2>3. CASE a \notin gone
    <3>1. Used(a)' = Used(a)
      BY <1>2, <2>3 DEF Used
    <3> QED BY <2>1, <3>1
  <2> QED BY <2>2, <2>3
<1> QED BY <1>4, <1>5

\* A step that leaves the queue as it is.
LEMMA BudgetKept ==
    ASSUME DeliveryAssumption, IInv, IInv', Budget, to_send' = to_send,
           \A a : Used(a)' <= Used(a),
           fails' = fails, pc' = pc \/ pc' # "resend"
    PROVE  Budget'
<1> SUFFICES ASSUME NEW a \in Addr
             PROVE  Cardinality(Positions(to_send, a)) + Used(a)' <= Spare'
  BY DEF Budget
<1>1. to_send \in Seq(Addr) /\ fails \in Nat /\ RESEND_CNT \in Nat
  BY DEF IInv, TypeOK, Counters, DeliveryAssumption
<1>2. Cardinality(Positions(to_send, a)) \in Nat
  BY <1>1, PositionsCounted
<1>3. Used(a) \in Nat /\ Used(a)' \in Nat
  <2>1. UsesCounted /\ UsesCounted'
    BY UsedIsNumber, PTL
  <2> QED BY <2>1 DEF UsesCounted
<1>4. Spare <= Spare' /\ Spare \in Int /\ Spare' \in Int
  BY <1>1 DEF Spare
<1>5. Cardinality(Positions(to_send, a)) + Used(a) <= Spare
  BY DEF Budget
<1> DEFINE c == Cardinality(Positions(to_send, a))
           u == Used(a)
           v == Used(a)'
<1>6. c \in Nat /\ u \in Nat /\ v \in Nat /\ v <= u /\ c + u <= Spare
  BY <1>2, <1>3, <1>5
<1> HIDE DEF c, u, v, Spare
<1>7. c + v <= Spare'
  BY <1>4, <1>6
<1> QED BY <1>7 DEF c, v

\* Steps that write, delete and queue nothing.
LEMMA BudgetStandsStill ==
    ASSUME DeliveryAssumption, IInv, IInv', Attempts, Budget,
           UNCHANGED <<msgs, to_send, control, written, created, fails>>,
           pc' = pc \/ (pc # "closed" /\ pc' # "resend")
    PROVE  Attempts' /\ Budget'
<1>1. ControlSound
  BY DEF IInv
<1>2. Attempts'
  <2>1. Controlled' = Controlled
    BY DEF Controlled
  <2> QED BY <1>1, <2>1, AttemptsKept DEF ControlSound
<1>3. \A a : Used(a)' <= Used(a)
  <2> SUFFICES ASSUME NEW a PROVE Used(a)' <= Used(a)
    OBVIOUS
  <2>1. Used(a)' = Used(a) /\ Used(a) \in Nat
    BY UsedIsNumber DEF Used, UsesCounted
  <2> QED BY <2>1
<1>4. to_send' = to_send /\ fails' = fails /\ (pc' = pc \/ pc' # "resend")
  OBVIOUS
<1> QED BY <1>2, <1>3, <1>4, BudgetKept

\* Time and the breaking of a connection.
LEMMA BudgetInTime ==
    ASSUME DeliveryAssumption, IInv, IInv', Attempts, Budget, Tick
    PROVE  Attempts' /\ Budget'
<1>1. /\ UNCHANGED <<msgs, to_send, written, created, fails, pc>>
      /\ control' = [k \in DOMAIN control |->
             IF control[k].age <= RESEND_TIME
             THEN [control[k] EXCEPT !.age = @ + 1] ELSE control[k]]
  BY DEF Tick, counters
<1>2. \A k \in DOMAIN control :
          control[k] \in [msg : Addr, age : 0 .. (RESEND_TIME + 1), resend_cnt : Int]
  BY ItemOfSeq DEF IInv, TypeOK
<1>3. /\ DOMAIN control' = DOMAIN control
      /\ \A k \in DOMAIN control : /\ control'[k].msg = control[k].msg
                                   /\ control'[k].resend_cnt = control[k].resend_cnt
  BY <1>1, <1>2
<1>4. Controlled' = Controlled
  BY <1>3, Zenon DEF Controlled
<1>5. Attempts'
  <2>1. \A k \in DOMAIN control' :
            /\ control'[k].msg \in DOMAIN msgs'
            /\ \E i \in DOMAIN control : /\ control'[k].msg = control[i].msg
                                         /\ control'[k].resend_cnt = control[i].resend_cnt
    BY <1>1, <1>3 DEF IInv, ControlSound
  <2> QED BY <1>1, <1>4, <2>1, AttemptsKept
<1>6. \A a : Used(a)' <= Used(a)
  <2> SUFFICES ASSUME NEW a PROVE Used(a)' <= Used(a)
    OBVIOUS
  <2>1. Used(a)' = Used(a) /\ Used(a) \in Nat
    BY <1>1, UsedIsNumber DEF Used, UsesCounted
  <2> QED BY <2>1
<1> QED BY <1>1, <1>5, <1>6, BudgetKept

LEMMA BudgetOfBreak ==
    ASSUME DeliveryAssumption, IInv, IInv', Attempts, Budget, Break
    PROVE  Attempts' /\ Budget'
<1>1. /\ written' = written /\ created' = created /\ fails' = fails /\ pc = "select"
      /\ \/ UNCHANGED <<msgs, to_send, control, pc>>
         \/ pc' = "closed" /\ msgs' = MsgsWithout(Range(to_send)) /\ to_send' = <<>> /\ control' = <<>>
  BY DEF Break, memory
<1>2. CASE UNCHANGED <<msgs, to_send, control, pc>>
  BY <1>1, <1>2, BudgetStandsStill
<1>3. CASE pc' = "closed" /\ msgs' = MsgsWithout(Range(to_send)) /\ to_send' = <<>> /\ control' = <<>>
  <2>1. \A b \in DOMAIN msgs' : b \in DOMAIN msgs /\ msgs'[b] = msgs[b]
    BY <1>3 DEF MsgsWithout
  <2>2. DOMAIN control' = {}
    BY <1>3
  <2>3. Attempts'
    BY <1>1, <1>3, <2>1, <2>2, AttemptsKept
  <2>4. RESEND_CNT \in Nat /\ fails \in Nat
    BY DEF DeliveryAssumption, IInv, Counters
  <2>5. ASSUME NEW a \in Addr
        PROVE  Cardinality(Positions(to_send, a))' + Used(a)' <= Spare'
    <3>1. Positions(to_send, a)' = {}
      BY <1>3 DEF Positions
    <3>2. Cardinality(Positions(to_send, a))' = 0
      BY <3>1, FS_EmptySet
    <3>3. Spare' = 1 + RESEND_CNT + fails /\ Spare = 1 + RESEND_CNT + fails
      BY <1>1, <1>3, <2>4 DEF Spare
    <3>4. Used(a)' = 1 \/ Used(a)' = Used(a)
      BY <1>1, <2>1 DEF Used
    <3>5. Used(a) <= Spare /\ Used(a) \in Nat
      <4>1. to_send \in Seq(Addr) /\ Used(a) \in Nat
        BY UsedIsNumber DEF IInv, TypeOK, UsesCounted
      <4>2. Cardinality(Positions(to_send, a)) \in Nat
        BY <4>1, PositionsCounted
      <4> QED BY <2>4, <3>3, <4>1, <4>2 DEF Budget
    <3> QED BY <2>4, <3>2, <3>3, <3>4, <3>5
  <2> QED BY <2>3, <2>5 DEF Budget
<1> QED BY <1>1, <1>2, <1>3

\* What is put in the queue was not there, unless by a pointer left behind.
LEMMA BudgetOfPut ==
    ASSUME DeliveryAssumption, IInv, IInv', Attempts, Budget,
           NEW b \in Addr, NEW what, Put(b, what),
           \/ what = Receipt /\ created' = created
           \/ what = created' /\ created' = created + 1 /\ created' <= MaxMsgs,
           written' = written, fails' = fails,
           pc' = pc, pc # "closed"
    PROVE  Attempts' /\ Budget'
<1>1. /\ TypeOK /\ Counters /\ ControlSound
  BY DEF IInv
<1>2. /\ b \notin DOMAIN msgs
      /\ DOMAIN msgs' = DOMAIN msgs \cup {b}
      /\ msgs'[b] = [what |-> what, id |-> FirstId(what)]
      /\ \A c \in DOMAIN msgs : msgs'[c] = msgs[c]
      /\ control' = control
      /\ Controlled' = Controlled
  BY <1>1, PutFacts
<1>3. to_send' = Append(to_send, b) /\ to_send \in Seq(Addr)
  BY <1>1 DEF Put, TypeOK
<1>4. Attempts'
  <2>1. \A k \in DOMAIN control' :
            /\ control'[k].msg \in DOMAIN msgs'
            /\ \E i \in DOMAIN control : /\ control'[k].msg = control[i].msg
                                         /\ control'[k].resend_cnt = control[i].resend_cnt
    BY <1>1, <1>2 DEF ControlSound
  <2>2. msgs'[b].what = what
    BY <1>2
  <2>3. \A c \in DOMAIN msgs' :
            \/ c \in DOMAIN msgs /\ msgs'[c].what = msgs[c].what
            \/ c \notin DOMAIN msgs /\ msgs'[c].what = Receipt
            \/ c \notin DOMAIN msgs /\ msgs'[c].what = created' /\ created' = created + 1
    BY <1>2, <2>2
  <2> QED BY <1>2, <2>1, <2>3, AttemptsKept
<1>5. Used(b) = 1 /\ Used(b)' = 0
  <2>1. ASSUME what # Receipt PROVE written[what] = 0
    <3>1. what \in 1 .. MaxMsgs /\ what > created
      BY <1>1, <2>1 DEF Counters, DeliveryAssumption
    <3> QED BY <3>1 DEF Attempts
  <2>2. b \in DOMAIN msgs' /\ msgs'[b].what = what
    BY <1>2
  <2>3. Used(b)' = IF what = Receipt THEN 0 ELSE written[what]
    BY <2>2 DEF Used
  <2> QED BY <1>2, <2>1, <2>3 DEF Used
<1>6. \A a \in Addr : a # b => Used(a)' = Used(a)
  <2> SUFFICES ASSUME NEW a \in Addr, a # b PROVE Used(a)' = Used(a)
    OBVIOUS
  <2>1. a \in DOMAIN msgs <=> a \in DOMAIN msgs'
    BY <1>2
  <2>2. a \in DOMAIN msgs => msgs'[a] = msgs[a]
    BY <1>2
  <2> QED BY <2>1, <2>2 DEF Used
<1>7. Spare' = Spare
  BY DEF Spare
<1>8. ASSUME NEW a \in Addr
      PROVE  Cardinality(Positions(to_send', a)) + Used(a)' <= Spare
  <2> DEFINE c == Cardinality(Positions(to_send, a))
             d == Cardinality(Positions(to_send', a))
             u == Used(a)
  <2>1. c \in Nat /\ d \in Nat
    <3>1. to_send' \in Seq(Addr)
      BY DEF IInv, TypeOK
    <3> QED BY <1>3, <3>1, PositionsCounted
  <2>2. d <= c + (IF a = b THEN 1 ELSE 0)
    BY <1>3, AppendCounted
  <2>3. c + u <= Spare /\ u \in Nat
    BY UsedIsNumber DEF Budget, UsesCounted
  <2>4. Used(a)' + (IF a = b THEN 1 ELSE 0) = u
    BY <1>5, <1>6, <2>3
  <2>5. Spare \in Int /\ Used(a)' \in Nat
    <3>1. RESEND_CNT \in Int /\ fails \in Int
      BY <1>1 DEF DeliveryAssumption, Counters
    <3> QED BY <1>5, <1>6, <2>3, <3>1 DEF Spare
  <2> DEFINE v == Used(a)'
  <2> HIDE DEF c, d, u, v, Spare
  <2>6. d + v <= Spare
    BY <2>1, <2>2, <2>3, <2>4, <2>5 DEF v
  <2> QED BY <2>6 DEF d, v
<1> QED BY <1>4, <1>7, <1>8 DEF Budget

\* A receipt that is processed.
LEMMA BudgetOfReceipt ==
    ASSUME DeliveryAssumption, IInv, IInv', Attempts, Budget, ProcessReceipt
    PROVE  Attempts' /\ Budget'
<1> DEFINE gone == Acknowledged(Head(to_process))
<1>1. /\ control' = ControlWithout(gone) /\ msgs' = MsgsWithout(gone)
      /\ UNCHANGED <<to_send, written, created, fails, pc>>
      /\ pc = "process"
  BY DEF ProcessReceipt, counters
<1>2. gone \subseteq Controlled
  BY DEF Acknowledged
<1> HIDE DEF gone
<1>3. Attempts' /\ \A a : Used(a)' <= Used(a)
  BY <1>1, <1>2, RemovalUses
<1> QED BY <1>1, <1>3, BudgetKept

\* What is put in the queue again has attempts left.
LEMMA OverdueOnce ==
    ASSUME TypeOK, ControlSound, Resend
    PROVE  \E again \in Seq(Addr) :
              /\ to_send' = to_send \o again
              /\ \A j, k \in DOMAIN again : again[j] = again[k] => j = k
              /\ \A k \in DOMAIN again : \E i \in DOMAIN control :
                    again[k] = control[i].msg /\ need_resend(control[i])
<1> DEFINE I       == {k \in DOMAIN control : need_resend(control[k])}
           Item    == [msg : Addr, age : 0 .. (RESEND_TIME + 1), resend_cnt : Int]
           overdue == Sublist(control, I)
           again   == [k \in DOMAIN overdue |-> overdue[k].msg]
<1>1. control \in Seq(Item) /\ to_send \in Seq(Addr) /\ I \in SUBSET DOMAIN control
  BY DEF TypeOK
<1>2. to_send' = to_send \o again
  BY DEF Resend
<1>3. overdue \in Seq(Item) /\ Takes(overdue, control, I)
  <2> HIDE DEF Item, I
  <2> QED BY <1>1, SublistTakes
<1>4. /\ DOMAIN overdue = 1 .. Len(overdue) /\ Len(overdue) \in Nat
      /\ \A k \in DOMAIN overdue : overdue[k] \in Item
  <2> HIDE DEF overdue, Item
  <2> QED BY <1>3
<1>5. PICK g \in [1 .. Len(overdue) -> I] :
          /\ \A k \in 1 .. Len(overdue) : overdue[k] = control[g[k]]
          /\ \A j, k \in 1 .. Len(overdue) : g[j] = g[k] => j = k
          /\ \A i \in I : \E k \in 1 .. Len(overdue) : g[k] = i
  BY <1>3, Zenon DEF Takes
<1>6. \A k \in 1 .. Len(overdue) :
          g[k] \in DOMAIN control /\ need_resend(control[g[k]])
  BY <1>5
<1> HIDE DEF overdue
<1>7. again \in Seq(Addr) /\ DOMAIN again = 1 .. Len(overdue)
  BY <1>4
<1>8. \A k \in DOMAIN again : again[k] = control[g[k]].msg
  BY <1>4, <1>5
<1> HIDE DEF again
<1>9. \A j, k \in DOMAIN again : again[j] = again[k] => j = k
  <2> SUFFICES ASSUME NEW j \in DOMAIN again, NEW k \in DOMAIN again, again[j] = again[k]
               PROVE  j = k
    OBVIOUS
  <2>1. control[g[j]].msg = control[g[k]].msg /\ g[j] \in DOMAIN control /\ g[k] \in DOMAIN control
    BY <1>6, <1>7, <1>8
  <2>2. g[j] = g[k]
    BY <2>1 DEF ControlSound
  <2> QED BY <1>5, <1>7, <2>2
<1>10. \A k \in DOMAIN again : \E i \in DOMAIN control :
           again[k] = control[i].msg /\ need_resend(control[i])
  BY <1>6, <1>7, <1>8
<1> QED BY <1>2, <1>7, <1>9, <1>10

LEMMA BudgetOfResend ==
    ASSUME DeliveryAssumption, IInv, IInv', Attempts, Budget, Resend
    PROVE  Attempts' /\ Budget'
<1>1. /\ TypeOK /\ Counters /\ ControlSound
  BY DEF IInv
<1>2. PICK gone \in Removals : control' = ControlWithout(gone) /\ msgs' = MsgsWithout(gone)
  BY DEF Resend
<1>3. gone \subseteq Controlled
  BY RemovalsUnderControl, Zenon DEF Controlled
<1>4. /\ written' = written /\ created' = created /\ fails' = fails
      /\ pc \in {"resend", "write"} /\ pc' \in {"process", "select"}
      /\ pc = "resend" \/ to_send = <<>>
  BY DEF Resend, counters
<1>5. Attempts' /\ \A a : Used(a)' <= Used(a)
  BY <1>2, <1>3, <1>4, RemovalUses
<1>6. PICK again \in Seq(Addr) :
          /\ to_send' = to_send \o again
          /\ \A j, k \in DOMAIN again : again[j] = again[k] => j = k
          /\ \A k \in DOMAIN again : \E i \in DOMAIN control :
                again[k] = control[i].msg /\ need_resend(control[i])
  BY <1>1, OverdueOnce
<1>7. ASSUME NEW a \in Addr
      PROVE  Cardinality(Positions(to_send', a)) + Used(a)' <= Spare'
  <2> DEFINE c == Cardinality(Positions(to_send, a))
             d == Cardinality(Positions(to_send', a))
             u == Used(a)
             v == Used(a)'
  <2>1. to_send \in Seq(Addr) /\ to_send' \in Seq(Addr)
    BY DEF IInv, TypeOK
  <2>2. c \in Nat /\ d \in Nat
    BY <2>1, PositionsCounted
  <2>3. d <= c + 1 /\ ((\A k \in DOMAIN again : again[k] # a) => d = c)
    BY <1>6, <2>1, ConcatCounted
  <2>4. c + u <= Spare /\ u \in Nat /\ v \in Nat /\ v <= u
    <3>1. UsesCounted /\ UsesCounted'
      BY UsedIsNumber, PTL
    <3> QED BY <1>5, <3>1 DEF Budget, UsesCounted
  <2>5. RESEND_CNT \in Nat /\ fails \in Nat
    BY <1>1 DEF DeliveryAssumption, Counters
  <2>6. /\ Spare' = 1 + RESEND_CNT + fails
        /\ pc = "resend" => Spare = RESEND_CNT + fails
        /\ pc # "resend" => Spare = 1 + RESEND_CNT + fails
    BY <1>4, <2>5 DEF Spare
  <2>7. CASE pc = "resend"
    <3> HIDE DEF c, d, u, v
    <3>1. d + v <= Spare'
      BY <2>2, <2>3, <2>4, <2>5, <2>6, <2>7
    <3> QED BY <3>1 DEF d, v
  <2>8. CASE pc # "resend" /\ \A k \in DOMAIN again : again[k] # a
    <3> HIDE DEF c, d, u, v
    <3>1. d + v <= Spare'
      BY <2>2, <2>3, <2>4, <2>5, <2>6, <2>8
    <3> QED BY <3>1 DEF d, v
  <2>9. CASE pc # "resend" /\ \E k \in DOMAIN again : again[k] = a
    <3>1. PICK i \in DOMAIN control : a = control[i].msg /\ need_resend(control[i])
      BY <1>6, <2>9
    <3>2. control[i].resend_cnt \in Int /\ control[i].resend_cnt > 0
      BY <1>1, <3>1, TypesOfItems DEF need_resend
    <3>3. u = 1 + RESEND_CNT - control[i].resend_cnt
      BY <3>1, ControlledWasWritten
    <3>4. c = 0
      <4>1. to_send = <<>>
        BY <1>4, <2>9
      <4>2. Positions(to_send, a) = {}
        BY <4>1 DEF Positions
      <4> QED BY <4>2, FS_EmptySet
    <3> HIDE DEF c, d, u, v
    <3>5. u <= RESEND_CNT
      BY <2>5, <3>2, <3>3
    <3>6. d + v <= Spare'
      BY <2>2, <2>3, <2>4, <2>5, <2>6, <2>9, <3>4, <3>5
    <3> QED BY <3>6 DEF d, v
  <2> QED BY <2>7, <2>8, <2>9
<1> QED BY <1>5, <1>7 DEF Budget

\* A write that fails leaves every message its place in the queue, and one more
\* attempt.
LEMMA BudgetOfFailure ==
    ASSUME DeliveryAssumption, IInv, IInv', Attempts, Budget, WriteFails
    PROVE  Attempts' /\ Budget'
<1> DEFINE b    == Head(to_send)
           rest == Tail(to_send)
<1>1. /\ TypeOK /\ Counters /\ Distinct /\ ControlSound
  BY DEF IInv
<1>2. /\ control' = control /\ written' = written /\ created' = created /\ fails' = fails + 1
      /\ pc = "write" /\ pc' = "resend"
      /\ to_send # <<>> /\ b \in DOMAIN msgs /\ to_send' = Append(rest, b)
      /\ msgs' = [msgs EXCEPT ![b] = numbered(b)]
      /\ msg_num' = IF msgs[b].id = NO_ID THEN msg_num + 1 ELSE msg_num
  BY DEF WriteFails, put_back, peer
<1>3. to_send \in Seq(Addr) /\ rest \in Seq(Addr) /\ b \in Addr
  <2>1. to_send \in Seq(Addr)
    BY <1>1 DEF TypeOK
  <2> QED BY <1>1, <1>2, <2>1, TailItems DEF TypeOK
<1> HIDE DEF b
<1>4. DOMAIN msgs' = DOMAIN msgs /\ \A c \in DOMAIN msgs : msgs'[c].what = msgs[c].what
  BY <1>1, <1>2, NumberFacts
<1>5. Attempts'
  <2>1. Controlled' = Controlled
    BY <1>2 DEF Controlled
  <2>2. \A k \in DOMAIN control' : control'[k].msg \in DOMAIN msgs'
    BY <1>1, <1>2, <1>4 DEF ControlSound
  <2> QED BY <1>2, <1>4, <2>1, <2>2, AttemptsKept
<1>6. \A a \in Addr : Used(a)' = Used(a)
  BY <1>2, <1>4 DEF Used
<1>7. ASSUME NEW a \in Addr
      PROVE  Cardinality(Positions(to_send', a)) + Used(a)' <= Spare'
  <2> DEFINE c == Cardinality(Positions(to_send, a))
             m == Cardinality(Positions(rest, a))
             d == Cardinality(Positions(to_send', a))
             u == Used(a)
             e == IF a = b THEN 1 ELSE 0
  <2>1. c \in Nat /\ m \in Nat /\ d \in Nat
    <3>1. to_send' \in Seq(Addr)
      BY DEF IInv, TypeOK
    <3> QED BY <1>3, <3>1, PositionsCounted
  <2>2. m + e <= c
    BY <1>2, <1>3, TailCounted DEF b
  <2>3. d <= m + e
    BY <1>2, <1>3, AppendCounted
  <2>4. c + u <= Spare /\ u \in Nat
    BY UsedIsNumber DEF Budget, UsesCounted
  <2>5. Spare' = Spare /\ Spare \in Int
    <3>1. RESEND_CNT \in Int /\ fails \in Int
      BY <1>1 DEF DeliveryAssumption, Counters
    <3> QED BY <1>2, <3>1 DEF Spare
  <2>6. e \in Nat
    OBVIOUS
  <2> HIDE DEF c, d, m, u, e, Spare
  <2>7. d + u <= Spare
    BY <2>1, <2>2, <2>3, <2>4, <2>5, <2>6
  <2> QED BY <1>6, <2>5, <2>7 DEF d, u
<1> QED BY <1>5, <1>7 DEF Budget

\* A receipt that is written is deleted: a pointer that is still in the queue
\* may become one to a new message.
LEMMA BudgetOfWrittenReceipt ==
    ASSUME DeliveryAssumption, IInv, IInv', Attempts, Budget,
           WriteOne, msgs[Head(to_send)].what = Receipt
    PROVE  Attempts' /\ Budget'
<1> DEFINE b    == Head(to_send)
           rest == Tail(to_send)
<1>1. /\ TypeOK /\ Counters /\ Distinct /\ ControlSound
  BY DEF IInv
<1>2. /\ control' = control /\ written' = written /\ created' = created /\ fails' = fails
      /\ pc = "write" /\ pc' = "write"
      /\ to_send # <<>> /\ b \in DOMAIN msgs /\ to_send' = rest
      /\ msgs' = MsgsWithout({b})
      /\ msgs[b].what = Receipt
  BY DEF WriteOne
<1>3. to_send \in Seq(Addr) /\ rest \in Seq(Addr)
  <2>1. to_send \in Seq(Addr)
    BY <1>1 DEF TypeOK
  <2> QED BY <1>2, <2>1, TailItems
<1> HIDE DEF b
<1>4. DOMAIN msgs' = DOMAIN msgs \ {b} /\ \A c \in DOMAIN msgs \ {b} : msgs'[c] = msgs[c]
  BY <1>2 DEF MsgsWithout
<1>5. Attempts'
  <2>1. Controlled' = Controlled
    BY <1>2 DEF Controlled
  <2>2. \A k \in DOMAIN control' :
            /\ control'[k].msg \in DOMAIN msgs'
            /\ \E i \in DOMAIN control : /\ control'[k].msg = control[i].msg
                                         /\ control'[k].resend_cnt = control[i].resend_cnt
    BY <1>1, <1>2 DEF IInv, ControlSound
  <2> QED BY <1>2, <1>4, <2>1, <2>2, AttemptsKept
<1>6. \A a \in Addr : Used(a)' = IF a = b THEN 1 ELSE Used(a)
  BY <1>2, <1>4 DEF Used
<1>7. Used(b) = 0
  BY <1>2 DEF Used
<1>8. ASSUME NEW a \in Addr
      PROVE  Cardinality(Positions(to_send', a)) + Used(a)' <= Spare'
  <2> DEFINE c == Cardinality(Positions(to_send, a))
             d == Cardinality(Positions(to_send', a))
             u == Used(a)
             v == Used(a)'
             e == IF a = b THEN 1 ELSE 0
  <2>1. c \in Nat /\ d \in Nat
    BY <1>2, <1>3, PositionsCounted
  <2>2. d + e <= c
    BY <1>2, <1>3, TailCounted DEF b
  <2>3. c + u <= Spare /\ u \in Nat
    BY UsedIsNumber DEF Budget, UsesCounted
  <2>4. Spare' = Spare /\ Spare \in Int
    <3>1. RESEND_CNT \in Int /\ fails \in Int
      BY <1>1 DEF DeliveryAssumption, Counters
    <3> QED BY <1>2, <3>1 DEF Spare
  <2>5. e \in Nat /\ v = u + e
    BY <1>6, <1>7, <2>3
  <2> HIDE DEF c, d, u, v, e, Spare
  <2>6. d + v <= Spare'
    BY <2>1, <2>2, <2>3, <2>4, <2>5
  <2> QED BY <2>6 DEF d, v
<1> QED BY <1>5, <1>8 DEF Budget

\* Any other message that is written uses up an attempt and a place.
LEMMA BudgetOfWrittenMessage ==
    ASSUME DeliveryAssumption, IInv, IInv', Attempts, Budget,
           WriteOne, msgs[Head(to_send)].what # Receipt
    PROVE  Attempts' /\ Budget'
<1> DEFINE b    == Head(to_send)
           rest == Tail(to_send)
           w    == msgs[b].what
<1>1. /\ TypeOK /\ Counters /\ Distinct /\ ControlSound
  BY DEF IInv
<1>2. /\ created' = created /\ fails' = fails
      /\ pc = "write" /\ pc' = "write"
      /\ to_send # <<>> /\ b \in DOMAIN msgs /\ to_send' = rest
      /\ msgs' = [msgs EXCEPT ![b] = numbered(b)]
      /\ msg_num' = IF msgs[b].id = NO_ID THEN msg_num + 1 ELSE msg_num
      /\ control' = controlled_after_sending(b)
      /\ written' = [written EXCEPT ![w] = @ + 1]
      /\ w # Receipt
  BY DEF WriteOne
<1>3. to_send \in Seq(Addr) /\ rest \in Seq(Addr) /\ b \in Addr
  <2>1. to_send \in Seq(Addr)
    BY <1>1 DEF TypeOK
  <2> QED BY <1>1, <1>2, <2>1, TailItems DEF TypeOK
<1> HIDE DEF b
<1>4. DOMAIN msgs' = DOMAIN msgs /\ \A c \in DOMAIN msgs : msgs'[c].what = msgs[c].what
  BY <1>1, <1>2, NumberFacts
<1>5. /\ Controlled' = Controlled \cup {b}
      /\ \A k \in DOMAIN control' :
            \/ control'[k].msg # b /\ \E i \in DOMAIN control : control'[k] = control[i]
            \/ /\ control'[k].msg = b /\ control'[k].age = 0
               /\ \/ b \notin Controlled /\ control'[k].resend_cnt = RESEND_CNT
                  \/ \E i \in DOMAIN control :
                        /\ control[i].msg = b
                        /\ control'[k].resend_cnt = control[i].resend_cnt - 1
  BY <1>1, <1>2, <1>3, SendingFacts
<1>6. w \in 1 .. MaxMsgs /\ w <= created /\ created \in Nat
  <2>1. /\ w \in Int /\ 0 <= w /\ w <= created /\ created \in 0 .. MaxMsgs /\ MaxMsgs \in Nat
    BY <1>1, <1>2, TypesOfItems DEF Counters, DeliveryAssumption
  <2> HIDE DEF w
  <2> QED BY <1>2, <2>1 DEF Receipt
<1>7. /\ written \in [1 .. MaxMsgs -> Nat] /\ written'[w] = written[w] + 1
      /\ \A n \in 1 .. MaxMsgs : n # w => written'[n] = written[n]
      /\ \A n : n # w => written'[n] = written[n]
  <2>1. written \in [1 .. MaxMsgs -> Nat]
    BY <1>1 DEF Counters
  <2> HIDE DEF w
  <2> QED BY <1>2, <1>6, <2>1
<1>8. \A c \in DOMAIN msgs : c # b => msgs[c].what # w
  BY <1>1, <1>2 DEF Distinct
<1> HIDE DEF w
<1>9. Attempts'
  <2>1. ASSUME NEW k \in DOMAIN control'
        PROVE  /\ control'[k].resend_cnt <= RESEND_CNT
               /\ written'[msgs'[control'[k].msg].what] = 1 + RESEND_CNT - control'[k].resend_cnt
    <3>1. CASE control'[k].msg # b /\ \E i \in DOMAIN control : control'[k] = control[i]
      <4>1. PICK i \in DOMAIN control : control'[k] = control[i] /\ control[i].msg # b
        BY <3>1
      <4>2. control[i].msg \in DOMAIN msgs
        BY <1>1 DEF ControlSound
      <4>3. msgs'[control'[k].msg].what = msgs[control[i].msg].what /\ msgs[control[i].msg].what # w
        BY <1>4, <1>8, <4>1, <4>2
      <4>4. written'[msgs'[control'[k].msg].what] = written[msgs[control[i].msg].what]
        BY <1>7, <4>3
      <4> QED BY <4>1, <4>4 DEF Attempts
    <3>2. CASE /\ control'[k].msg = b /\ b \notin Controlled /\ control'[k].resend_cnt = RESEND_CNT
      <4>1. written[w] = 0
        BY <1>2, <3>2 DEF Attempts, w
      <4>2. msgs'[control'[k].msg].what = w
        BY <1>2, <1>4, <3>2 DEF w
      <4>3. RESEND_CNT \in Nat
        BY DEF DeliveryAssumption
      <4> QED BY <1>7, <3>2, <4>1, <4>2, <4>3
    <3>3. CASE /\ control'[k].msg = b
               /\ \E i \in DOMAIN control :
                     /\ control[i].msg = b
                     /\ control'[k].resend_cnt = control[i].resend_cnt - 1
      <4>1. PICK i \in DOMAIN control : /\ control[i].msg = b
                                        /\ control'[k].resend_cnt = control[i].resend_cnt - 1
        BY <3>3
      <4>2. /\ control[i].resend_cnt <= RESEND_CNT
            /\ written[w] = 1 + RESEND_CNT - control[i].resend_cnt
        BY <4>1 DEF Attempts, w
      <4>3. msgs'[control'[k].msg].what = w
        BY <1>2, <1>4, <3>3 DEF w
      <4>4. RESEND_CNT \in Nat /\ control[i].resend_cnt \in Int
        BY <1>1, TypesOfItems DEF DeliveryAssumption
      <4> DEFINE r == control[i].resend_cnt
                 s == control'[k].resend_cnt
      <4>5. s = r - 1 /\ r \in Int /\ r <= RESEND_CNT /\ written[w] = 1 + RESEND_CNT - r
        BY <4>1, <4>2, <4>4
      <4> HIDE DEF r, s
      <4>6. s <= RESEND_CNT /\ written'[w] = 1 + RESEND_CNT - s
        BY <1>7, <4>4, <4>5
      <4> QED BY <4>3, <4>6 DEF s
    <3> QED BY <1>5, <3>1, <3>2, <3>3
  <2>2. ASSUME NEW c \in DOMAIN msgs' \ Controlled', msgs'[c].what # Receipt
        PROVE  written'[msgs'[c].what] = 0
    <3>1. c # b /\ c \in DOMAIN msgs \ Controlled /\ msgs[c].what # Receipt
      BY <1>4, <1>5, <2>2
    <3>2. msgs'[c].what = msgs[c].what /\ msgs[c].what # w
      BY <1>4, <1>8, <3>1
    <3>3. written[msgs[c].what] = 0
      BY <1>2, <3>1 DEF Attempts
    <3> QED BY <1>7, <3>2, <3>3
  <2>3. ASSUME NEW n \in 1 .. MaxMsgs, n > created PROVE written'[n] = 0
    <3>1. n # w
      BY <1>6, <2>3
    <3> QED BY <1>7, <2>3, <3>1 DEF Attempts
  <2> QED BY <1>2, <2>1, <2>2, <2>3 DEF Attempts
<1>10. ASSUME NEW a \in Addr
       PROVE  Used(a)' = Used(a) + (IF a = b THEN 1 ELSE 0)
  <2>1. Used(a) \in Nat
    BY UsedIsNumber DEF UsesCounted
  <2>2. CASE a = b
    <3>1. Used(a) = written[w]
      BY <1>2, <2>2 DEF Used, w
    <3>2. Used(a)' = written'[w]
      BY <1>2, <1>4, <2>2 DEF Used, w
    <3> QED BY <1>7, <2>2, <3>1, <3>2
  <2>3. CASE a # b /\ a \in DOMAIN msgs
    <3>1. Used(a)' = IF msgs[a].what = Receipt THEN 0 ELSE written'[msgs[a].what]
      BY <1>4, <2>3 DEF Used
    <3>2. written'[msgs[a].what] = written[msgs[a].what]
      BY <1>7, <1>8, <2>3
    <3> QED BY <2>1, <2>3, <3>1, <3>2 DEF Used
  <2>4. CASE a # b /\ a \notin DOMAIN msgs
    BY <1>4, <2>1, <2>4 DEF Used
  <2> QED BY <2>2, <2>3, <2>4
<1>11. ASSUME NEW a \in Addr
       PROVE  Cardinality(Positions(to_send', a)) + Used(a)' <= Spare'
  <2> DEFINE c == Cardinality(Positions(to_send, a))
             d == Cardinality(Positions(to_send', a))
             u == Used(a)
             v == Used(a)'
             e == IF a = b THEN 1 ELSE 0
  <2>1. c \in Nat /\ d \in Nat
    BY <1>2, <1>3, PositionsCounted
  <2>2. d + e <= c
    BY <1>2, <1>3, TailCounted DEF b
  <2>3. c + u <= Spare /\ u \in Nat
    BY UsedIsNumber DEF Budget, UsesCounted
  <2>4. Spare' = Spare /\ Spare \in Int
    <3>1. RESEND_CNT \in Int /\ fails \in Int
      BY <1>1 DEF DeliveryAssumption, Counters
    <3> QED BY <1>2, <3>1 DEF Spare
  <2>5. e \in Nat /\ v = u + e
    BY <1>10
  <2> HIDE DEF c, d, u, v, e, Spare
  <2>6. d + v <= Spare'
    BY <2>1, <2>2, <2>3, <2>4, <2>5
  <2> QED BY <2>6 DEF d, v
<1> QED BY <1>9, <1>11 DEF Budget

LEMMA BudgetIsInductive ==
    ASSUME DeliveryAssumption, IInv, IInv', Attempts, Budget, [Next]_vars
    PROVE  Attempts' /\ Budget'
<1>1. ASSUME NEW a \in Addr, send_msg(a) \/ ProcessMsg(a) PROVE Attempts' /\ Budget'
  <2>1. CASE send_msg(a)
    <3>1. /\ Put(a, created') /\ created' = created + 1 /\ created < MaxMsgs
          /\ written' = written /\ fails' = fails /\ pc' = pc /\ pc # "closed"
      BY <2>1 DEF send_msg
    <3>2. created' <= MaxMsgs
      BY <3>1 DEF IInv, Counters, DeliveryAssumption
    <3> QED BY <3>1, <3>2, BudgetOfPut
  <2>2. CASE ProcessMsg(a)
    <3>1. /\ Put(a, Receipt) /\ created' = created
          /\ written' = written /\ fails' = fails /\ pc' = pc /\ pc # "closed"
      BY <2>2 DEF ProcessMsg, counters
    <3> QED BY <3>1, BudgetOfPut
  <2> QED BY <1>1, <2>1, <2>2
<1>2. ASSUME NEW a \in Addr, ProcessField(a) PROVE Attempts' /\ Budget'
  <2>1. /\ Put(a, Receipt) \/ UNCHANGED memory
        /\ created' = created
        /\ written' = written /\ fails' = fails /\ pc' = pc /\ pc # "closed"
    BY <1>2 DEF ProcessField, counters
  <2>2. CASE Put(a, Receipt)
    BY <2>1, <2>2, BudgetOfPut
  <2>3. CASE UNCHANGED memory
    BY <2>1, <2>3, BudgetStandsStill DEF memory
  <2> QED BY <2>1, <2>2, <2>3
<1>3. CASE WriteOne
  BY <1>3, BudgetOfWrittenReceipt, BudgetOfWrittenMessage
<1>4. CASE WriteFails
  BY <1>4, BudgetOfFailure
<1>5. CASE Resend
  BY <1>5, BudgetOfResend
<1>6. CASE ProcessReceipt
  BY <1>6, BudgetOfReceipt
<1>7. CASE Tick \/ Break
  BY <1>7, BudgetInTime, BudgetOfBreak
<1>8. CASE \/ Select \/ WriteDeleted \/ ProcessDone \/ PeerReads \/ PeerSends \/ Idle
           \/ UNCHANGED vars
  <2>1. /\ UNCHANGED <<msgs, to_send, control, written, created, fails>>
        /\ pc' = pc \/ (pc # "closed" /\ pc' # "resend")
    BY <1>8 DEF Select, WriteDeleted, ProcessDone, PeerReads, PeerSends, Idle, memory, counters,
                vars
  <2> QED BY <2>1, BudgetStandsStill
<1> QED BY <1>1, <1>2, <1>3, <1>4, <1>5, <1>6, <1>7, <1>8 DEF Next

\* Every message is written once and at most RESEND_CNT times again, and once
\* more for each write that fails: also when a pointer that was left behind in
\* the queue has become one to a new message, which is then sent early and twice.
LEMMA AttemptsBoundedStep ==
    ASSUME DeliveryAssumption, IInv, IInv', Budget', AttemptsBounded, [Next]_vars
    PROVE  AttemptsBounded'
<1>1. /\ TypeOK /\ Counters /\ Distinct
      /\ fails \in Nat /\ fails' \in Nat /\ RESEND_CNT \in Nat
      /\ written \in [1 .. MaxMsgs -> Nat]
  BY DEF IInv, Counters, DeliveryAssumption
<1>2. SUFFICES ASSUME NEW n \in 1 .. MaxMsgs
               PROVE  written'[n] <= 1 + RESEND_CNT + fails'
  BY DEF AttemptsBounded
<1>3. written[n] <= 1 + RESEND_CNT + fails
  BY DEF AttemptsBounded
<1>4. fails' >= fails /\ (WriteOne => fails' = fails)
  BY <1>1 DEF Next, send_msg, ProcessMsg, ProcessField, Select, WriteOne, WriteFails, WriteDeleted,
              Resend, ProcessReceipt, ProcessDone, Tick, Break, PeerReads, PeerSends, Idle, vars,
              counters
<1>5. CASE written'[n] = written[n]
  BY <1>1, <1>3, <1>4, <1>5
<1>6. CASE written'[n] # written[n]
  <2>1. WriteOne
    BY <1>6 DEF Next, send_msg, ProcessMsg, ProcessField, Select, WriteFails, WriteDeleted,
                Resend, ProcessReceipt, ProcessDone, Tick, Break, PeerReads, PeerSends, Idle, vars,
                counters
  <2>11. PICK b : b = Head(to_send)
    OBVIOUS
  <2>2. /\ to_send # <<>> /\ b \in DOMAIN msgs /\ pc' = "write"
        /\ msgs[b].what # Receipt
        /\ msgs' = [msgs EXCEPT ![b] = numbered(b)]
        /\ written' = [written EXCEPT ![msgs[b].what] = @ + 1]
        /\ msg_num' = IF msgs[b].id = NO_ID THEN msg_num + 1 ELSE msg_num
        /\ created' = created
    BY <1>6, <2>1, <2>11 DEF WriteOne
  <2>3. b \in Addr /\ to_send' \in Seq(Addr)
    BY <1>1, <2>2 DEF IInv, TypeOK
  <2>4. n = msgs[b].what
    BY <1>1, <1>6, <2>2
  <2>5. b \in DOMAIN msgs' /\ msgs'[b].what = n
    BY <1>1, <2>2, <2>4, NumberFacts
  <2>6. Used(b)' = written'[n]
    BY <2>2, <2>4, <2>5 DEF Used
  <2>7. Cardinality(Positions(to_send', b)) \in Nat
    BY <2>3, PositionsCounted
  <2>8. Cardinality(Positions(to_send', b)) + Used(b)' <= Spare'
    BY <2>3 DEF Budget
  <2>9. Spare' = 1 + RESEND_CNT + fails'
    BY <1>1, <2>2 DEF Spare
  <2>10. written'[n] \in Nat
    BY DEF IInv, Counters
  <2> QED BY <1>1, <2>6, <2>7, <2>8, <2>9, <2>10
<1> QED BY <1>5, <1>6

THEOREM WrittenWithinBounds == Spec => []AttemptsBounded
<1> DEFINE Within == Attempts /\ Budget /\ AttemptsBounded
<1>1. Init => Within
  <2> SUFFICES ASSUME Init PROVE Within
    OBVIOUS
  <2>1. /\ RESEND_CNT \in Nat \ {0} /\ DOMAIN control = {} /\ DOMAIN msgs = {} /\ fails = 0
        /\ written = [n \in 1 .. MaxMsgs |-> 0] /\ pc = "select"
    BY DeliveryAssumption DEF Init, DeliveryAssumption
  <2>2. Attempts /\ AttemptsBounded
    BY <2>1 DEF Attempts, AttemptsBounded
  <2>3. ASSUME NEW a \in Addr PROVE Cardinality(Positions(to_send, a)) + Used(a) <= Spare
    <3>1. Positions(to_send, a) = {}
      BY DEF Init, Positions
    <3>2. Cardinality(Positions(to_send, a)) = 0
      BY <3>1, FS_EmptySet
    <3> QED BY <2>1, <3>2 DEF Used, Spare
  <2> QED BY <2>2, <2>3 DEF Budget
<1>2. IInv /\ IInv' /\ Within /\ [Next]_vars => Within'
  BY BudgetIsInductive, AttemptsBoundedStep, DeliveryAssumption
<1>3. Within => AttemptsBounded
  OBVIOUS
<1> HIDE DEF Within
<1> QED BY <1>1, <1>2, <1>3, Invariance, PTL DEF Spec
=============================================================================
