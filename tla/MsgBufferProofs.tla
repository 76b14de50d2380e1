---------------------------- MODULE MsgBufferProofs ----------------------------
(***************************************************************************)
(* Proofs about core/msg_buffer.cpp: what is extracted is what was sent.   *)
(*                                                                         *)
(* Where reads end where pieces of the stream end, a buffer is clean       *)
(* (messages, and at most the beginning of another one at its end), or it  *)
(* has a short write in it and every start mark in it is followed by a     *)
(* type (WholeReads).  Where reads end anywhere, what has been read and    *)
(* not extracted are the next messages and a part of one (SplitReads).     *)
(***************************************************************************)
EXTENDS MsgBuffer, Counting, SequenceTheorems

-----------------------------------------------------------------------------
(***************************************************************************)
(* Sequences that are joined                                               *)
(***************************************************************************)

\* f has the joins of the first items of s, from one to all of them.
Joins(s, f) == f = [i \in 1 .. Len(s) |-> IF i = 1 THEN s[i] ELSE f[i - 1] \o s[i]]

\* The recursive function in FlattenSeq exists, hence it is what its equation says.
LEMMA JoinsExist ==
    ASSUME NEW S, NEW s \in Seq(Seq(S))
    PROVE  \E f \in [1 .. Len(s) -> Seq(S)] :
               /\ Joins(s, f)
               /\ FlattenSeq(s) = IF Len(s) = 0 THEN s ELSE f[Len(s)]
<1> DEFINE Item(h, i) == IF i = 1 THEN s[i] ELSE h[i - 1] \o s[i]
           Upto(m, h) == h = [i \in 1 .. m |-> Item(h, i)]
           Numbers == {m \in Nat : m <= Len(s) => \E h \in [1 .. m -> Seq(S)] : Upto(m, h)}
<1>1. 0 \in Numbers
  <2> DEFINE h == [i \in 1 .. 0 |-> <<>>]
  <2>1. 1 .. 0 = {}
    OBVIOUS
  <2>2. h \in [1 .. 0 -> Seq(S)] /\ Upto(0, h)
    BY <2>1
  <2> QED BY <2>2
<1> HIDE DEF Upto
<1>2. ASSUME NEW m \in Numbers, m \in Nat PROVE m + 1 \in Numbers
  <2> SUFFICES ASSUME m + 1 <= Len(s)
               PROVE  \E h \in [1 .. m + 1 -> Seq(S)] : Upto(m + 1, h)
    OBVIOUS
  <2>1. PICK h \in [1 .. m -> Seq(S)] : Upto(m, h)
    BY <1>2, SMT
  <2> DEFINE g == [i \in 1 .. m + 1 |-> IF i = m + 1 THEN Item(h, i) ELSE h[i]]
  <2>2. Item(h, m + 1) \in Seq(S)
    BY <2>1, SMT
  <2> HIDE DEF Item
  <2>3. g \in [1 .. m + 1 -> Seq(S)]
    <3>1. \A i \in 1 .. m + 1 : i = m + 1 \/ i \in 1 .. m
      BY SMT
    <3>2. \A i \in 1 .. m + 1 : (IF i = m + 1 THEN Item(h, i) ELSE h[i]) \in Seq(S)
      BY <2>1, <2>2, <3>1, Zenon
    <3> QED BY <3>2, Zenon
  <2>4. ASSUME NEW i \in 1 .. m + 1 PROVE g[i] = Item(g, i)
    <3>1. i = 1 \/ g[i - 1] = h[i - 1]
      BY SMT
    <3>2. Item(g, i) = Item(h, i)
      BY <3>1, SMT DEF Item
    <3>3. i # m + 1 => h[i] = Item(h, i)
      <4>1. i # m + 1 => i \in 1 .. m
        BY SMT
      <4> QED BY <2>1, <4>1, Zenon DEF Upto
    <3> QED BY <3>2, <3>3, SMT
  <2>5. g = [i \in 1 .. m + 1 |-> g[i]]
    BY Zenon
  <2>6. Upto(m + 1, g)
    BY <2>4, <2>5, Zenon DEF Upto
  <2> QED BY <2>3, <2>6, Zenon
<1>3. Len(s) \in Numbers
  <2> HIDE DEF Numbers
  <2> QED BY <1>1, <1>2, ByCounting
<1>4. PICK f \in [1 .. Len(s) -> Seq(S)] : Joins(s, f)
  <2>1. PICK f \in [1 .. Len(s) -> Seq(S)] : Upto(Len(s), f)
    BY <1>3
  <2> QED BY <2>1, Zenon DEF Upto, Joins
<1> DEFINE chosen == CHOOSE h : Joins(s, h)
<1>5. Joins(s, chosen)
  BY <1>4
<1>6. FlattenSeq(s) = IF Len(s) = 0 THEN s ELSE chosen[Len(s)]
  BY Zenon DEF FlattenSeq, Joins
<1> HIDE DEF chosen
<1>7. \A m \in Nat : m <= Len(s) => (m >= 1 => chosen[m] = f[m])
  <2> DEFINE Same == {m \in Nat : m <= Len(s) => (m >= 1 => chosen[m] = f[m])}
  <2>1. 0 \in Same
    OBVIOUS
  <2>2. ASSUME NEW m \in Same, m \in Nat PROVE m + 1 \in Same
    <3> SUFFICES ASSUME m + 1 <= Len(s) PROVE chosen[m + 1] = f[m + 1]
      OBVIOUS
    <3>1. /\ chosen[m + 1] = IF m + 1 = 1 THEN s[m + 1] ELSE chosen[(m + 1) - 1] \o s[m + 1]
          /\ f[m + 1] = IF m + 1 = 1 THEN s[m + 1] ELSE f[(m + 1) - 1] \o s[m + 1]
      <4>1. m + 1 \in 1 .. Len(s)
        BY SMT
      <4> QED BY <1>4, <1>5, <4>1, Zenon DEF Joins
    <3>2. (m + 1) - 1 = m
      BY SMT
    <3> QED BY <2>2, <3>1, <3>2, SMT
  <2> HIDE DEF Same
  <2>3. Nat \subseteq Same
    BY <2>1, <2>2, ByCounting
  <2> QED BY <2>3 DEF Same
<1>8. Len(s) > 0 => chosen[Len(s)] = f[Len(s)]
  BY <1>7, SMT
<1> QED BY <1>4, <1>6, <1>8, SMT

\* A join is a sequence of the items' items, and that of nothing is nothing.
LEMMA JoinedType ==
    ASSUME NEW S, NEW s \in Seq(Seq(S))
    PROVE  /\ FlattenSeq(s) \in Seq(S)
           /\ s = <<>> => FlattenSeq(s) = <<>>
<1>1. PICK f \in [1 .. Len(s) -> Seq(S)] : FlattenSeq(s) = IF Len(s) = 0 THEN s ELSE f[Len(s)]
  BY JoinsExist
<1>2. s = <<>> <=> Len(s) = 0
  OBVIOUS
<1>3. Len(s) # 0 => Len(s) \in 1 .. Len(s)
  OBVIOUS
<1>4. CASE Len(s) = 0
  <2>1. s = <<>> /\ FlattenSeq(s) = s
    BY <1>1, <1>2, <1>4
  <2>2. <<>> \in Seq(S)
    OBVIOUS
  <2> QED BY <2>1, <2>2
<1>5. CASE Len(s) # 0
  <2>1. FlattenSeq(s) = f[Len(s)] /\ f[Len(s)] \in Seq(S)
    BY <1>1, <1>3, <1>5
  <2> QED BY <1>2, <1>5, <2>1
<1> QED BY <1>4, <1>5

\* Two sequences are joined by joining what they join to.
LEMMA JoinedBoth ==
    ASSUME NEW S, NEW s \in Seq(Seq(S)), NEW t \in Seq(Seq(S))
    PROVE  FlattenSeq(s \o t) = FlattenSeq(s) \o FlattenSeq(t)
<1>1. \A a, b, c \in Seq(S) : (a \o b) \o c = a \o (b \o c)
  OBVIOUS
<1>2. PICK f \in [1 .. Len(s) -> Seq(S)] :
          Joins(s, f) /\ FlattenSeq(s) = IF Len(s) = 0 THEN s ELSE f[Len(s)]
  BY JoinsExist
<1>3. PICK g \in [1 .. Len(t) -> Seq(S)] :
          Joins(t, g) /\ FlattenSeq(t) = IF Len(t) = 0 THEN t ELSE g[Len(t)]
  BY JoinsExist
<1>4. PICK both \in Seq(Seq(S)) :
          /\ both = s \o t /\ Len(both) = Len(s) + Len(t)
          /\ \A i \in 1 .. Len(s) : both[i] = s[i]
          /\ \A i \in 1 .. Len(t) : both[Len(s) + i] = t[i]
  <2>1. s \o t \in Seq(Seq(S))
    OBVIOUS
  <2>2. /\ Len(s \o t) = Len(s) + Len(t)
        /\ \A i \in 1 .. Len(s) : (s \o t)[i] = s[i]
        /\ \A i \in 1 .. Len(t) : (s \o t)[Len(s) + i] = t[i]
    BY SMT
  <2> QED BY <2>1, <2>2, Zenon
<1>5. PICK h \in [1 .. Len(both) -> Seq(S)] :
          Joins(both, h) /\ FlattenSeq(both) = IF Len(both) = 0 THEN both ELSE h[Len(both)]
  BY JoinsExist
<1>6. /\ \A i \in 1 .. Len(s) : f[i] = IF i = 1 THEN s[i] ELSE f[i - 1] \o s[i]
      /\ \A i \in 1 .. Len(t) : g[i] = IF i = 1 THEN t[i] ELSE g[i - 1] \o t[i]
      /\ \A i \in 1 .. Len(both) : h[i] = IF i = 1 THEN both[i] ELSE h[i - 1] \o both[i]
  BY <1>2, <1>3, <1>5, Zenon DEF Joins
<1> DEFINE First == {m \in Nat : m >= 1 /\ m <= Len(s) => h[m] = f[m]}
           Second == {m \in Nat : m >= 1 /\ m <= Len(t) => h[Len(s) + m] = FlattenSeq(s) \o g[m]}
<1>7. 0 \in First /\ 0 \in Second
  OBVIOUS
<1>8. ASSUME NEW m \in First, m \in Nat PROVE m + 1 \in First
  <2> SUFFICES ASSUME m + 1 <= Len(s) PROVE h[m + 1] = f[m + 1]
    OBVIOUS
  <2>1. m + 1 \in 1 .. Len(s) /\ m + 1 \in 1 .. Len(both) /\ (m + 1) - 1 = m
    BY <1>4, SMT
  <2>2. f[m + 1] = IF m + 1 = 1 THEN s[m + 1] ELSE f[m] \o s[m + 1]
    BY <1>6, <2>1, Zenon
  <2>3. h[m + 1] = IF m + 1 = 1 THEN s[m + 1] ELSE h[m] \o s[m + 1]
    BY <1>4, <1>6, <2>1, Zenon
  <2>4. m = 0 \/ h[m] = f[m]
    BY <1>8, <2>1
  <2> QED BY <2>2, <2>3, <2>4
<1>9. Nat \subseteq First
  <2> HIDE DEF First
  <2> QED BY <1>7, <1>8, ByCounting
<1>10. ASSUME NEW m \in Second, m \in Nat PROVE m + 1 \in Second
  <2> SUFFICES ASSUME m + 1 <= Len(t)
               PROVE  h[Len(s) + (m + 1)] = FlattenSeq(s) \o g[m + 1]
    OBVIOUS
  <2>1. /\ m + 1 \in 1 .. Len(t) /\ (m + 1) - 1 = m
        /\ Len(s) + (m + 1) \in 1 .. Len(both) /\ (Len(s) + (m + 1)) - 1 = Len(s) + m
    BY <1>4, SMT
  <2>2. h[Len(s) + (m + 1)] = IF Len(s) + (m + 1) = 1 THEN t[m + 1] ELSE h[Len(s) + m] \o t[m + 1]
    <3>1. both[Len(s) + (m + 1)] = t[m + 1]
      BY <1>4, <2>1, Zenon
    <3>2. h[Len(s) + (m + 1)] = IF Len(s) + (m + 1) = 1 THEN both[Len(s) + (m + 1)]
                                ELSE h[(Len(s) + (m + 1)) - 1] \o both[Len(s) + (m + 1)]
      BY <1>6, <2>1, Zenon
    <3> QED BY <2>1, <3>1, <3>2, Zenon
  <2>3. g[m + 1] = IF m + 1 = 1 THEN t[m + 1] ELSE g[m] \o t[m + 1]
    BY <1>6, <2>1, Zenon
  <2>4. t[m + 1] \in Seq(S) /\ FlattenSeq(s) \in Seq(S)
    BY <2>1, JoinedType
  <2>5. CASE m = 0
    <3>1. g[m + 1] = t[m + 1]
      BY <2>3, <2>5
    <3>2. CASE Len(s) = 0
      BY <1>2, <2>2, <2>4, <2>5, <3>1, <3>2
    <3>3. CASE Len(s) # 0
      <4>1. Len(s) \in First /\ Len(s) + m = Len(s) /\ Len(s) >= 1
        <5>1. Len(s) \in Nat
          OBVIOUS
        <5> HIDE DEF First
        <5> QED BY <1>9, <2>5, <3>3, <5>1
      <4>2. h[Len(s)] = f[Len(s)] /\ FlattenSeq(s) = f[Len(s)]
        BY <1>2, <3>3, <4>1
      <4>3. Len(s) + (m + 1) # 1
        BY <4>1
      <4> QED BY <2>2, <3>1, <4>1, <4>2, <4>3
    <3> QED BY <3>2, <3>3
  <2>6. CASE m # 0
    <3>1. h[Len(s) + m] = FlattenSeq(s) \o g[m] /\ m \in 1 .. Len(t) /\ g[m] \in Seq(S)
      <4>1. m \in 1 .. Len(t)
        BY <2>6
      <4>2. h[Len(s) + m] = FlattenSeq(s) \o g[m]
        BY <1>10, <4>1
      <4> QED BY <4>1, <4>2
    <3>2. Len(s) + (m + 1) # 1 /\ m + 1 # 1
      BY <2>6
    <3>3. h[Len(s) + (m + 1)] = (FlattenSeq(s) \o g[m]) \o t[m + 1]
      BY <2>2, <3>1, <3>2
    <3>4. g[m + 1] = g[m] \o t[m + 1]
      BY <2>3, <3>2
    <3>5. (FlattenSeq(s) \o g[m]) \o t[m + 1] = FlattenSeq(s) \o (g[m] \o t[m + 1])
      <4> DEFINE x == FlattenSeq(s)
                 y == g[m]
                 z == t[m + 1]
      <4>1. x \in Seq(S) /\ y \in Seq(S) /\ z \in Seq(S)
        BY <2>4, <3>1, Zenon
      <4> HIDE DEF x, y, z
      <4>2. (x \o y) \o z = x \o (y \o z)
        BY <1>1, <4>1, Zenon
      <4> QED BY <4>2, Zenon DEF x, y, z
    <3> QED BY <3>3, <3>4, <3>5, Zenon
  <2> QED BY <2>5, <2>6
<1>11. Nat \subseteq Second
  <2> HIDE DEF Second
  <2> QED BY <1>7, <1>10, ByCounting
<1>12. CASE Len(t) = 0
  <2>1. t = <<>> /\ both = s
    BY <1>4, <1>12
  <2> QED BY <1>3, <1>4, <1>12, <2>1, JoinedType
<1>13. CASE Len(t) # 0
  <2>1. Len(t) \in Second /\ Len(t) >= 1 /\ Len(both) # 0
    <3>1. Len(t) \in Nat /\ Len(t) >= 1 /\ Len(both) # 0
      BY <1>4, <1>13
    <3> HIDE DEF Second
    <3> QED BY <1>11, <3>1
  <2>2. h[Len(both)] = FlattenSeq(s) \o g[Len(t)]
    BY <1>4, <2>1
  <2> QED BY <1>3, <1>4, <1>5, <1>13, <2>1, <2>2
<1> QED BY <1>12, <1>13

\* One sequence is what it is, and one more is put behind or before the others.
LEMMA JoinedOne ==
    ASSUME NEW S, NEW x \in Seq(S)
    PROVE  FlattenSeq(<<x>>) = x
<1>1. <<x>> \in Seq(Seq(S)) /\ Len(<<x>>) = 1 /\ <<x>>[1] = x
  OBVIOUS
<1>2. PICK f \in [1 .. Len(<<x>>) -> Seq(S)] :
          Joins(<<x>>, f) /\ FlattenSeq(<<x>>) = IF Len(<<x>>) = 0 THEN <<x>> ELSE f[Len(<<x>>)]
  BY <1>1, JoinsExist
<1>3. \A i \in 1 .. Len(<<x>>) : f[i] = IF i = 1 THEN <<x>>[i] ELSE f[i - 1] \o <<x>>[i]
  BY <1>2, Zenon DEF Joins
<1>4. 1 \in 1 .. Len(<<x>>)
  BY <1>1
<1> QED BY <1>1, <1>2, <1>3, <1>4

\* Items that are put in a sequence of their own are joined to what they were.
LEMMA JoinedSingles ==
    ASSUME NEW S, NEW s \in Seq(S)
    PROVE  FlattenSeq([k \in 1 .. Len(s) |-> <<s[k]>>]) = s
<1> DEFINE singles == [k \in 1 .. Len(s) |-> <<s[k]>>]
<1>1. PICK ss \in Seq(Seq(S)) : /\ ss = singles /\ Len(ss) = Len(s)
                                /\ \A i \in 1 .. Len(s) : ss[i] = <<s[i]>>
  <2>1. \A i \in 1 .. Len(s) : <<s[i]>> \in Seq(S)
    OBVIOUS
  <2>2. singles \in Seq(Seq(S)) /\ Len(singles) = Len(s)
    BY <2>1
  <2> QED BY <2>2
<1>2. PICK f \in [1 .. Len(ss) -> Seq(S)] :
          Joins(ss, f) /\ FlattenSeq(ss) = IF Len(ss) = 0 THEN ss ELSE f[Len(ss)]
  BY JoinsExist
<1>3. \A i \in 1 .. Len(ss) : f[i] = IF i = 1 THEN ss[i] ELSE f[i - 1] \o ss[i]
  BY <1>2, Zenon DEF Joins
<1> DEFINE Upto == {m \in Nat : m >= 1 /\ m <= Len(s) => f[m] = SubSeq(s, 1, m)}
<1>4. 0 \in Upto
  OBVIOUS
<1>5. ASSUME NEW m \in Upto, m \in Nat PROVE m + 1 \in Upto
  <2> SUFFICES ASSUME m + 1 <= Len(s) PROVE f[m + 1] = SubSeq(s, 1, m + 1)
    OBVIOUS
  <2>1. m + 1 \in 1 .. Len(s) /\ m + 1 \in 1 .. Len(ss) /\ (m + 1) - 1 = m
    BY <1>1
  <2>2. f[m + 1] = IF m + 1 = 1 THEN <<s[m + 1]>> ELSE f[m] \o <<s[m + 1]>>
    BY <1>1, <1>3, <2>1, Zenon
  <2>3. CASE m = 0
    BY <2>1, <2>2, <2>3
  <2>4. CASE m # 0
    <3>1. f[m] = SubSeq(s, 1, m)
      BY <1>5, <2>4
    <3>2. SubSeq(s, 1, m + 1) = SubSeq(s, 1, m) \o <<s[m + 1]>>
      BY <2>1
    <3> QED BY <2>2, <2>4, <3>1, <3>2
  <2> QED BY <2>3, <2>4
<1>6. Nat \subseteq Upto
  <2> HIDE DEF Upto
  <2> QED BY <1>4, <1>5, ByCounting
<1>7. CASE Len(s) = 0
  BY <1>1, <1>2, <1>7
<1>8. CASE Len(s) # 0
  <2>1. f[Len(s)] = SubSeq(s, 1, Len(s))
    BY <1>6, <1>8
  <2> QED BY <1>1, <1>2, <1>8, <2>1
<1> QED BY <1>7, <1>8
-----------------------------------------------------------------------------
(***************************************************************************)
(* Bytes, and the type that they begin with                                *)
(***************************************************************************)

Byte == {MSG_START, ZERO} \cup Type \cup Content

\* Bytes that begin with a start mark and a type.
Headed(b) ==
    /\ Len(b) >= MIN_SIZE
    /\ b[1] = MSG_START /\ b[2] \in Type
    /\ \A k \in 3 .. MIN_SIZE : b[k] = ZERO

LEMMA HeaderBytes ==
    ASSUME NEW t \in Type
    PROVE  /\ Header(t) \in Seq(Byte) /\ Len(Header(t)) = MIN_SIZE
           /\ \A k \in 1 .. MIN_SIZE :
                  Header(t)[k] = IF k = 1 THEN MSG_START ELSE IF k = 2 THEN t ELSE ZERO
BY BufferAssumption DEF Header, Byte

\* Which type bytes begin with.
LEMMA TypeOfBytes ==
    ASSUME NEW b \in Seq(Byte)
    PROVE  /\ get_msg_type(b) = IF Len(b) < MIN_SIZE THEN "UNDEFINED"
                                ELSE IF Headed(b) THEN b[2] ELSE "INVALID"
           /\ create_instance(b) <=> Headed(b) /\ Len(b) = DataSize[b[2]]
<1>1. MIN_SIZE \in Nat /\ MIN_SIZE >= 2 /\ Len(b) \in Nat
  BY BufferAssumption
<1>2. ASSUME Len(b) >= MIN_SIZE, b[2] \in Type
      PROVE  IsPrefix(Header(b[2]), b) <=> Headed(b)
  <2>1. PICK h \in Seq(Byte) :
            /\ h = Header(b[2]) /\ Len(h) = MIN_SIZE
            /\ \A k \in 1 .. MIN_SIZE :
                   h[k] = IF k = 1 THEN MSG_START ELSE IF k = 2 THEN b[2] ELSE ZERO
    BY <1>2, HeaderBytes
  <2>2. /\ SubSeq(h, 1, MIN_SIZE) = h
        /\ SubSeq(b, 1, MIN_SIZE) \in Seq(Byte) /\ Len(SubSeq(b, 1, MIN_SIZE)) = MIN_SIZE
        /\ \A k \in 1 .. MIN_SIZE : SubSeq(b, 1, MIN_SIZE)[k] = b[k]
    BY <1>1, <1>2, <2>1
  <2>3. h = SubSeq(b, 1, MIN_SIZE) <=> \A k \in 1 .. MIN_SIZE : h[k] = b[k]
    <3>1. ASSUME \A k \in 1 .. MIN_SIZE : h[k] = b[k] PROVE h = SubSeq(b, 1, MIN_SIZE)
      BY <2>1, <2>2, <3>1, SeqEqual
    <3>2. ASSUME h = SubSeq(b, 1, MIN_SIZE), NEW k \in 1 .. MIN_SIZE PROVE h[k] = b[k]
      BY <2>2, <3>2
    <3> QED BY <3>1, <3>2
  <2>4. (\A k \in 1 .. MIN_SIZE : h[k] = b[k]) <=> Headed(b)
    BY <1>1, <1>2, <2>1 DEF Headed
  <2>5. IsPrefix(h, b) <=> h = SubSeq(b, 1, MIN_SIZE)
    BY <1>1, <1>2, <2>1, <2>2 DEF IsPrefix
  <2> QED BY <2>1, <2>3, <2>4, <2>5
<1>3. get_msg_type(b) = IF Len(b) < MIN_SIZE THEN "UNDEFINED"
                        ELSE IF Headed(b) THEN b[2] ELSE "INVALID"
  <2>1. CASE Len(b) < MIN_SIZE
    BY <2>1 DEF get_msg_type
  <2>2. CASE Len(b) >= MIN_SIZE
    BY <1>1, <1>2, <2>2 DEF get_msg_type, Headed
  <2> QED BY <1>1, <2>1, <2>2
<1>4. "UNDEFINED" \notin Type /\ "INVALID" \notin Type
  BY BufferAssumption
<1>5. create_instance(b) <=> Headed(b) /\ Len(b) = DataSize[b[2]]
  <2>1. CASE Len(b) < MIN_SIZE
    BY <1>1, <1>3, <1>4, <2>1 DEF create_instance, Headed
  <2>2. CASE Len(b) >= MIN_SIZE
    BY <1>1, <1>3, <1>4, <2>2 DEF create_instance, Headed
  <2> QED BY <1>1, <2>1, <2>2
<1> QED BY <1>3, <1>5

\* A message is its header and as many bytes as its type says.
LEMMA MessageBytes ==
    ASSUME NEW m \in Message
    PROVE  /\ m \in Seq(Byte) /\ Headed(m) /\ Len(m) = DataSize[m[2]]
           /\ Len(m) \in Nat /\ Len(m) >= MIN_SIZE /\ Len(m) >= 2
           /\ m[1] = MSG_START /\ create_instance(m)
<1>1. PICK t \in Type : \E data \in [1 .. (DataSize[t] - MIN_SIZE) -> Content] : m = Header(t) \o data
  <2>1. PICK M \in {{Header(t) \o data : data \in [1 .. (DataSize[t] - MIN_SIZE) -> Content]} : t \in Type} :
            m \in M
    BY DEF Message
  <2>2. PICK t \in Type : M = {Header(t) \o data : data \in [1 .. (DataSize[t] - MIN_SIZE) -> Content]}
    BY <2>1, Zenon
  <2> QED BY <2>1, <2>2
<1>2. PICK data \in [1 .. (DataSize[t] - MIN_SIZE) -> Content] : m = Header(t) \o data
  BY <1>1
<1>3. MIN_SIZE \in Nat /\ MIN_SIZE >= 2 /\ DataSize[t] \in Nat /\ DataSize[t] - MIN_SIZE \in Nat
  BY BufferAssumption
<1>4. PICK h \in Seq(Byte) :
          /\ h = Header(t) /\ Len(h) = MIN_SIZE
          /\ \A k \in 1 .. MIN_SIZE :
                 h[k] = IF k = 1 THEN MSG_START ELSE IF k = 2 THEN t ELSE ZERO
  BY HeaderBytes
<1>5. data \in Seq(Byte) /\ Len(data) = DataSize[t] - MIN_SIZE
  <2>1. PICK d \in Nat : d = DataSize[t] - MIN_SIZE
    BY <1>3
  <2>2. data \in [1 .. d -> Byte]
    BY <2>1 DEF Byte
  <2>3. data \in Seq(Byte) /\ Len(data) = d
    BY <2>2
  <2> QED BY <2>1, <2>3
<1>6. /\ m \in Seq(Byte) /\ Len(m) = DataSize[t]
      /\ \A k \in 1 .. MIN_SIZE : m[k] = h[k]
  <2>1. m = h \o data
    BY <1>2, <1>4
  <2>2. PICK d \in Seq(Byte) : d = data /\ Len(d) = DataSize[t] - MIN_SIZE
    BY <1>5
  <2>3. m = h \o d
    BY <2>1, <2>2
  <2>4. m \in Seq(Byte) /\ Len(m) = Len(h) + Len(d) /\ \A k \in 1 .. Len(h) : m[k] = h[k]
    BY <2>3
  <2>5. Len(h) + Len(d) = DataSize[t]
    BY <1>3, <1>4, <2>2
  <2> QED BY <1>4, <2>4, <2>5
<1>7. m[1] = MSG_START /\ m[2] = t /\ \A k \in 3 .. MIN_SIZE : m[k] = ZERO
  BY <1>3, <1>4, <1>6
<1>8. Len(m) >= MIN_SIZE
  BY <1>3, <1>6, BufferAssumption
<1>9. Headed(m)
  BY <1>7, <1>8 DEF Headed
<1>10. create_instance(m)
  BY <1>6, <1>7, <1>9, TypeOfBytes
<1> QED BY <1>3, <1>6, <1>7, <1>8, <1>9, <1>10

\* What begins like a message has its type.
LEMMA BeginsLike ==
    ASSUME NEW m \in Message, NEW b \in Seq(Byte),
           \A k \in 1 .. MIN_SIZE : k <= Len(b) => b[k] = m[k]
    PROVE  /\ Len(b) >= MIN_SIZE => Headed(b) /\ b[2] = m[2]
           /\ create_instance(b) => Len(b) = Len(m)
<1>1. MIN_SIZE \in Nat /\ MIN_SIZE >= 2 /\ Len(b) \in Nat
  BY BufferAssumption
<1>2. Headed(m) /\ Len(m) = DataSize[m[2]]
  BY MessageBytes
<1>3. ASSUME Len(b) >= MIN_SIZE PROVE Headed(b) /\ b[2] = m[2]
  BY <1>1, <1>2, <1>3 DEF Headed
<1>4. create_instance(b) => Len(b) >= MIN_SIZE /\ Len(b) = DataSize[b[2]]
  BY TypeOfBytes DEF Headed
<1> QED BY <1>2, <1>3, <1>4

-----------------------------------------------------------------------------
(***************************************************************************)
(* Looking for a start mark                                                *)
(***************************************************************************)

\* What is left of bytes are bytes.
LEMMA BytesFrom ==
    ASSUME NEW S, NEW b \in Seq(S), NEW n \in Nat, n >= 1
    PROVE  /\ From(b, n) \in Seq(S)
           /\ Len(From(b, n)) = IF n <= Len(b) THEN Len(b) - n + 1 ELSE 0
           /\ \A k \in 1 .. Len(b) - n + 1 : From(b, n)[k] = b[n + k - 1]
BY DEF From

\* The first mark is one, and there is none before it.
LEMMA FirstMark ==
    ASSUME NEW b \in Seq(Byte), NEW n \in Nat, n >= 1
    PROVE  /\ \/ start_mark_pos(b, n) = 0
              \/ start_mark_pos(b, n) \in n .. Len(b) /\ b[start_mark_pos(b, n)] = MSG_START
           /\ before_mark(b, n) \in Nat
           /\ before_mark(b, n) <= Len(b)
           /\ n <= Len(b) => before_mark(b, n) >= n - 1
           /\ (\A k \in n .. Len(b) : b[k] # MSG_START) => before_mark(b, n) = Len(b)
<1> DEFINE marks == {k \in n .. Len(b) : b[k] = MSG_START}
<1>1. marks \subseteq Nat /\ Len(b) \in Nat
  OBVIOUS
<1>2. start_mark_pos(b, n) = IF marks = {} THEN 0 ELSE Min(marks)
  BY DEF start_mark_pos
<1>3. ASSUME marks # {} PROVE Min(marks) \in marks
  <2>1. \E p \in marks : \A k \in marks : p <= k
    <3> HIDE DEF marks
    <3> QED BY <1>1, <1>3, Smallest
  <2> QED BY <2>1 DEF Min
<1>4. (\A k \in n .. Len(b) : b[k] # MSG_START) => marks = {}
  OBVIOUS
<1>5. CASE marks = {}
  <2>1. start_mark_pos(b, n) = 0
    BY <1>2, <1>5
  <2>2. before_mark(b, n) = Len(b)
    BY <2>1 DEF before_mark
  <2> QED BY <1>1, <2>1, <2>2
<1>6. CASE marks # {}
  <2>1. start_mark_pos(b, n) = Min(marks)
    BY <1>2, <1>6
  <2>2. start_mark_pos(b, n) \in n .. Len(b) /\ b[start_mark_pos(b, n)] = MSG_START
    BY <1>3, <1>6, <2>1
  <2>3. start_mark_pos(b, n) # 0 /\ before_mark(b, n) = start_mark_pos(b, n) - 1
    BY <2>2 DEF before_mark
  <2> HIDE DEF marks
  <2> QED BY <1>1, <1>4, <1>6, <2>2, <2>3
<1> QED BY <1>5, <1>6

\* What can be made the first byte to read: a start mark that is followed by a type,
\* or by too little to tell.
StartsAt(b, r) ==
    \E k \in 1 .. Len(b) :
        r = From(b, k) /\ b[k] = MSG_START /\ get_msg_type(From(b, k)) # "INVALID"

\* Nothing remains, or what begins with such a mark.
LEMMA MovedToStart ==
    ASSUME NEW b \in Seq(Byte)
    PROVE  move_msg_to_start(b) = <<>> \/ StartsAt(b, move_msg_to_start(b))
<1> DEFINE N == Len(b) + MIN_SIZE
           mark(n) == start_mark_pos(b, n)
           Body(h, n) == IF mark(n) = 0 THEN <<>>
                         ELSE IF get_msg_type(From(b, mark(n))) = "INVALID" THEN h[mark(n) + MIN_SIZE]
                         ELSE From(b, mark(n))
           Upto(m, h) == h = [n \in (N + 1) - m .. N |-> Body(h, n)]
           Numbers == {m \in Nat : m <= N => \E h : Upto(m, h)}
           Fine(r) == r = <<>> \/ StartsAt(b, r)
<1>1. N \in Nat /\ N >= 1 /\ MIN_SIZE \in Nat /\ MIN_SIZE >= 2 /\ Len(b) \in Nat
  BY BufferAssumption
<1>2. \A n \in 1 .. N : mark(n) # 0 => /\ mark(n) \in 1 .. Len(b) /\ b[mark(n)] = MSG_START
                                       /\ mark(n) + MIN_SIZE \in n + 1 .. N
  <2> TAKE n \in 1 .. N
  <2>1. mark(n) = 0 \/ (mark(n) \in n .. Len(b) /\ b[mark(n)] = MSG_START)
    BY <1>1, FirstMark
  <2> HIDE DEF mark
  <2> QED BY <1>1, <2>1
<1> HIDE DEF N, mark
<1>3. 0 \in Numbers
  <2> DEFINE h == [n \in (N + 1) - 0 .. N |-> <<>>]
  <2>1. (N + 1) - 0 .. N = {}
    BY <1>1
  <2>2. Upto(0, h)
    BY <2>1
  <2> QED BY <2>2
<1>4. ASSUME NEW m \in Numbers, m \in Nat PROVE m + 1 \in Numbers
  <2> SUFFICES ASSUME m + 1 <= N PROVE \E h : Upto(m + 1, h)
    OBVIOUS
  <2> HIDE DEF Upto
  <2>1. PICK h : Upto(m, h)
    BY <1>1, <1>4
  <2> DEFINE first == N - m
  <2>2. /\ first = (N + 1) - (m + 1) /\ first \in 1 .. N
        /\ \A n \in first .. N : n = first \/ n \in (N + 1) - m .. N
        /\ \A n \in (N + 1) - m .. N : n # first /\ n \in first .. N
        /\ \A n \in first .. N : n \in 1 .. N
        /\ \A n \in first .. N : \A k \in n + 1 .. N : k # first /\ k \in first .. N
    BY <1>1, <1>4
  <2> HIDE DEF first
  <2> DEFINE g == [n \in first .. N |-> IF n = first THEN Body(h, n) ELSE h[n]]
  <2>3. \A n \in first .. N : Body(g, n) = Body(h, n)
    <3> TAKE n \in first .. N
    <3>1. mark(n) # 0 => g[mark(n) + MIN_SIZE] = h[mark(n) + MIN_SIZE]
      <4>1. mark(n) # 0 => mark(n) + MIN_SIZE # first /\ mark(n) + MIN_SIZE \in first .. N
        BY <1>2, <2>2, Zenon
      <4> HIDE DEF Body
      <4> QED BY <4>1, Zenon
    <3> HIDE DEF g
    <3> QED BY <3>1, Zenon
  <2> HIDE DEF Body
  <2>4. ASSUME NEW n \in first .. N PROVE g[n] = Body(g, n)
    <3>1. n # first => h[n] = Body(h, n)
      BY <2>1, <2>2, Zenon DEF Upto
    <3>2. g[n] = IF n = first THEN Body(h, n) ELSE h[n]
      OBVIOUS
    <3> HIDE DEF g
    <3> QED BY <2>3, <3>1, <3>2, Zenon
  <2>5. g = [n \in first .. N |-> g[n]]
    BY Zenon
  <2>6. Upto(m + 1, g)
    BY <2>2, <2>4, <2>5, Zenon DEF Upto
  <2> QED BY <2>6, Zenon
<1> DEFINE after == CHOOSE h : h = [n \in 1 .. N |-> Body(h, n)]
<1>5. after = [n \in 1 .. N |-> Body(after, n)]
  <2>1. N \in Numbers
    <3> HIDE DEF Numbers
    <3> QED BY <1>1, <1>3, <1>4, ByCounting
  <2>2. PICK h : Upto(N, h)
    BY <1>1, <2>1
  <2>3. (N + 1) - N = 1
    BY <1>1
  <2>4. h = [n \in 1 .. N |-> Body(h, n)]
    <3> HIDE DEF Body
    <3> QED BY <2>2, <2>3, Zenon
  <2> HIDE DEF Body
  <2> QED BY <2>4, Zenon
<1>6. move_msg_to_start(b) = after[1]
  BY Zenon DEF move_msg_to_start, N, mark
<1> HIDE DEF after
<1>7. \A n \in 1 .. N : after[n] = Body(after, n)
  <2> HIDE DEF Body
  <2> QED BY <1>5, Zenon
<1> DEFINE Right == {m \in Nat : \A n \in 1 .. N : n >= (N + 1) - m => Fine(after[n])}
<1> HIDE DEF Upto, Numbers
<1>8. 0 \in Right
  BY <1>1
<1>9. ASSUME NEW m \in Right, m \in Nat PROVE m + 1 \in Right
  <2> SUFFICES ASSUME NEW n \in 1 .. N, n >= (N + 1) - (m + 1) PROVE Fine(after[n])
    OBVIOUS
  <2>1. CASE mark(n) = 0
    BY <1>7, <2>1
  <2>2. CASE mark(n) # 0 /\ get_msg_type(From(b, mark(n))) = "INVALID"
    <3>1. after[n] = after[mark(n) + MIN_SIZE]
      BY <1>7, <2>2, Zenon
    <3>2. mark(n) + MIN_SIZE \in n + 1 .. N
      BY <1>2, <2>2, Zenon
    <3>3. mark(n) + MIN_SIZE \in 1 .. N /\ mark(n) + MIN_SIZE >= (N + 1) - m
      BY <1>1, <1>9, <3>2
    <3> HIDE DEF Fine
    <3>4. Fine(after[mark(n) + MIN_SIZE])
      BY <1>9, <3>3
    <3> QED BY <3>1, <3>4, Zenon
  <2>3. CASE mark(n) # 0 /\ get_msg_type(From(b, mark(n))) # "INVALID"
    <3>1. after[n] = From(b, mark(n))
      BY <1>7, <2>3, Zenon
    <3>2. mark(n) \in 1 .. Len(b) /\ b[mark(n)] = MSG_START
      BY <1>2, <2>3, Zenon
    <3> QED BY <2>3, <3>1, <3>2, Zenon DEF StartsAt
  <2> QED BY <2>1, <2>2, <2>3, Zenon
<1>10. N \in Right
  <2> HIDE DEF Right
  <2> QED BY <1>1, <1>8, <1>9, ByCounting
<1>11. 1 \in 1 .. N /\ 1 >= (N + 1) - N
  BY <1>1
<1>12. Fine(after[1])
  <2> HIDE DEF Fine
  <2> QED BY <1>10, <1>11
<1> QED BY <1>6, <1>12, Zenon

\* The same holds of where a new reading begins, and it begins at once where it can.
LEMMA ReadingStart ==
    ASSUME NEW b \in Seq(Byte)
    PROVE  /\ new_reading_start(b) = <<>> \/ StartsAt(b, new_reading_start(b))
           /\ has_start_mark(b) /\ get_msg_type(b) # "INVALID" => new_reading_start(b) = b
<1>1. ASSUME has_start_mark(b), get_msg_type(b) # "INVALID" PROVE StartsAt(b, b)
  <2>1. From(b, 1) = b /\ 1 \in 1 .. Len(b)
    BY <1>1 DEF From, has_start_mark
  <2> QED BY <1>1, <2>1, Zenon DEF StartsAt, has_start_mark
<1>2. CASE has_start_mark(b) /\ get_msg_type(b) # "INVALID"
  BY <1>1, <1>2 DEF new_reading_start
<1>3. CASE ~(has_start_mark(b) /\ get_msg_type(b) # "INVALID")
  <2>1. new_reading_start(b) = move_msg_to_start(b)
    BY <1>3, Zenon DEF new_reading_start
  <2> QED BY <1>3, <2>1, MovedToStart, Zenon
<1> QED BY <1>2, <1>3

\* What remains are bytes, not more than before, that begin with a mark.
LEMMA Remains ==
    ASSUME NEW b \in Seq(Byte), NEW r, r = <<>> \/ StartsAt(b, r)
    PROVE  /\ r \in Seq(Byte) /\ Len(r) <= Len(b)
           /\ r # <<>> => has_start_mark(r) /\ get_msg_type(r) # "INVALID"
<1>1. CASE r = <<>>
  BY <1>1
<1>2. CASE StartsAt(b, r)
  <2>1. PICK k \in 1 .. Len(b) :
            r = From(b, k) /\ b[k] = MSG_START /\ get_msg_type(From(b, k)) # "INVALID"
    BY <1>2 DEF StartsAt
  <2>2. /\ r \in Seq(Byte) /\ Len(r) = Len(b) - k + 1
        /\ r[1] = b[k + 1 - 1]
    <3>1. 1 \in 1 .. Len(b) - k + 1 /\ k \in Nat /\ k >= 1 /\ k <= Len(b)
      OBVIOUS
    <3> QED BY <2>1, <3>1, BytesFrom
  <2>3. r[1] = MSG_START /\ Len(r) <= Len(b) /\ r # <<>>
    BY <2>1, <2>2
  <2>4. get_msg_type(r) # "INVALID"
    BY <2>1, Zenon
  <2> QED BY <2>2, <2>3, <2>4 DEF has_start_mark
<1> QED BY <1>1, <1>2

-----------------------------------------------------------------------------
(***************************************************************************)
(* Messages that are joined, and pieces that are read                      *)
(***************************************************************************)

\* Joined messages begin with the first one, and only no messages join to nothing.
LEMMA MessagesJoined ==
    ASSUME NEW ms \in Seq(Message)
    PROVE  /\ ms \in Seq(Seq(Byte)) /\ FlattenSeq(ms) \in Seq(Byte)
           /\ ms = <<>> => FlattenSeq(ms) = <<>>
           /\ ms # <<>> => /\ ms[1] \in Message /\ Tail(ms) \in Seq(Message)
                           /\ FlattenSeq(Tail(ms)) \in Seq(Byte)
                           /\ ms = <<ms[1]>> \o Tail(ms)
                           /\ FlattenSeq(ms) = ms[1] \o FlattenSeq(Tail(ms))
                           /\ FlattenSeq(ms) # <<>>
<1>1. Message \subseteq Seq(Byte)
  BY MessageBytes
<1>2. ASSUME NEW s \in Seq(Message) PROVE s \in Seq(Seq(Byte)) /\ FlattenSeq(s) \in Seq(Byte)
  <2>1. s \in Seq(Seq(Byte))
    BY <1>1, SeqMonotonic
  <2> QED BY <2>1, JoinedType
<1>3. ms = <<>> => FlattenSeq(ms) = <<>>
  BY <1>2, JoinedType
<1>4. ASSUME ms # <<>>
      PROVE  /\ ms[1] \in Message /\ Tail(ms) \in Seq(Message)
             /\ FlattenSeq(Tail(ms)) \in Seq(Byte)
             /\ ms = <<ms[1]>> \o Tail(ms)
             /\ FlattenSeq(ms) = ms[1] \o FlattenSeq(Tail(ms))
             /\ FlattenSeq(ms) # <<>>
  <2>1. ms[1] \in Message /\ Tail(ms) \in Seq(Message) /\ ms = <<ms[1]>> \o Tail(ms)
    BY <1>4
  <2>2. PICK m \in Seq(Byte), t \in Seq(Message) : m = ms[1] /\ t = Tail(ms) /\ m \in Message
    BY <1>1, <2>1
  <2>3. /\ <<m>> \in Seq(Seq(Byte)) /\ t \in Seq(Seq(Byte)) /\ FlattenSeq(t) \in Seq(Byte)
        /\ FlattenSeq(<<m>>) = m
    <3>1. <<m>> \in Seq(Seq(Byte))
      BY <2>2
    <3>2. FlattenSeq(<<m>>) = m
      BY <2>2, JoinedOne, Zenon
    <3> QED BY <1>2, <2>2, <3>1, <3>2
  <2>4. FlattenSeq(<<m>> \o t) = FlattenSeq(<<m>>) \o FlattenSeq(t)
    BY <2>3, JoinedBoth
  <2>5. FlattenSeq(ms) = m \o FlattenSeq(t)
    BY <2>1, <2>2, <2>3, <2>4, Zenon
  <2>6. Len(m) \in Nat /\ Len(m) >= 2
    BY <2>2, MessageBytes
  <2>7. m \o FlattenSeq(t) # <<>>
    BY <2>3, <2>6
  <2> QED BY <2>1, <2>2, <2>3, <2>5, <2>7
<1> QED BY <1>2, <1>3, <1>4

\* What is left of a piece, and the message that it ends.
Stretch == [rest : Seq(Byte), msg : Seq(Message)]

LEMMA PieceType ==
    /\ WholePiece \subseteq Stretch /\ CutPiece \subseteq Stretch
    /\ \A p \in WholePiece : p.rest \in Message /\ p.msg = <<p.rest>>
    /\ \A p \in CutPiece :
           /\ p.msg = <<>>
           /\ \E m \in Message : \E n \in 1 .. (Len(m) - 1) : p.rest = SubSeq(m, 1, n)
<1>1. ASSUME NEW p \in WholePiece
      PROVE  p \in Stretch /\ p.rest \in Message /\ p.msg = <<p.rest>>
  <2>1. PICK m \in Message : p = [rest |-> m, msg |-> <<m>>]
    BY DEF WholePiece, Whole
  <2>2. m \in Seq(Byte) /\ <<m>> \in Seq(Message)
    BY MessageBytes
  <2> QED BY <2>1, <2>2 DEF Stretch
<1>2. ASSUME NEW p \in CutPiece
      PROVE  /\ p \in Stretch /\ p.msg = <<>>
             /\ \E m \in Message : \E n \in 1 .. (Len(m) - 1) : p.rest = SubSeq(m, 1, n)
  <2>1. PICK m \in Message : p \in {Cut(m, n) : n \in 1 .. (Len(m) - 1)}
    BY Zenon DEF CutPiece
  <2>2. PICK n \in 1 .. (Len(m) - 1) : p = [rest |-> SubSeq(m, 1, n), msg |-> <<>>]
    BY <2>1 DEF Cut
  <2>3. m \in Seq(Byte) /\ Len(m) \in Nat
    BY MessageBytes
  <2>4. SubSeq(m, 1, n) \in Seq(Byte) /\ <<>> \in Seq(Message)
    BY <2>3
  <2>5. p.rest = SubSeq(m, 1, n) /\ p.msg = <<>>
    BY <2>2
  <2> QED BY <2>2, <2>4, <2>5 DEF Stretch
<1> QED BY <1>1, <1>2, Zenon

\* What n pieces of s have left, the messages that they end, and with j bytes of
\* the piece behind them what is read.
Rests(w) == [k \in DOMAIN w |-> w[k].rest]
Msgs(w) == [k \in DOMAIN w |-> w[k].msg]
Chunk(s, n, j) ==
    FlattenSeq(Rests(SubSeq(s, 1, n))) \o (IF j = 0 THEN <<>> ELSE SubSeq(s[n + 1].rest, 1, j))
Behind(s, n) == \E k \in 1 .. (n - 1) : s[k].msg = <<>>

\* How many bytes of which pieces a read may return.
MayRead(s, n, j) ==
    /\ n \in 0 .. Len(s)
    /\ \/ j = 0
       \/ n < Len(s) /\ j \in 1 .. Len(s[n + 1].rest) - 1

LEMMA PiecesRead ==
    ASSUME NEW w \in Seq(Stretch)
    PROVE  /\ Rests(w) \in Seq(Seq(Byte)) /\ Len(Rests(w)) = Len(w)
           /\ \A k \in 1 .. Len(w) : Rests(w)[k] = w[k].rest
           /\ Msgs(w) \in Seq(Seq(Message)) /\ Len(Msgs(w)) = Len(w)
           /\ \A k \in 1 .. Len(w) : Msgs(w)[k] = w[k].msg
           /\ FlattenSeq(Rests(w)) \in Seq(Byte)
           /\ FlattenSeq(Msgs(w)) \in Seq(Message)
<1>1. DOMAIN w = 1 .. Len(w) /\ Len(w) \in Nat
  OBVIOUS
<1>2. \A k \in 1 .. Len(w) : w[k].rest \in Seq(Byte) /\ w[k].msg \in Seq(Message)
  <2> TAKE k \in 1 .. Len(w)
  <2>1. w[k] \in Stretch
    BY ElementOfSeq
  <2> QED BY <2>1 DEF Stretch
<1>3. /\ Rests(w) \in Seq(Seq(Byte)) /\ Len(Rests(w)) = Len(w)
      /\ \A k \in 1 .. Len(w) : Rests(w)[k] = w[k].rest
  BY <1>1, <1>2 DEF Rests
<1>4. /\ Msgs(w) \in Seq(Seq(Message)) /\ Len(Msgs(w)) = Len(w)
      /\ \A k \in 1 .. Len(w) : Msgs(w)[k] = w[k].msg
  BY <1>1, <1>2 DEF Msgs
<1> QED BY <1>3, <1>4, JoinedType

\* What is read are bytes; what is left of the stream.
LEMMA ChunkRead ==
    ASSUME NEW s \in Seq(Stretch), NEW n, NEW j, MayRead(s, n, j)
    PROVE  /\ SubSeq(s, 1, n) \in Seq(Stretch) /\ Len(SubSeq(s, 1, n)) = n
           /\ \A k \in 1 .. n : SubSeq(s, 1, n)[k] = s[k]
           /\ From(s, n + 1) \in Seq(Stretch) /\ Len(From(s, n + 1)) = Len(s) - n
           /\ \A k \in 1 .. Len(s) - n : From(s, n + 1)[k] = s[n + k]
           /\ Chunk(s, n, j) \in Seq(Byte)
<1>1. n \in Nat /\ n <= Len(s) /\ Len(s) \in Nat
  BY DEF MayRead
<1>2. /\ SubSeq(s, 1, n) \in Seq(Stretch) /\ Len(SubSeq(s, 1, n)) = n
      /\ \A k \in 1 .. n : SubSeq(s, 1, n)[k] = s[k]
  BY <1>1
<1>3. /\ From(s, n + 1) \in Seq(Stretch) /\ Len(From(s, n + 1)) = Len(s) - n
      /\ \A k \in 1 .. Len(s) - n : From(s, n + 1)[k] = s[n + k]
  BY <1>1 DEF From
<1>4. FlattenSeq(Rests(SubSeq(s, 1, n))) \in Seq(Byte)
  BY <1>2, PiecesRead
<1>5. (IF j = 0 THEN <<>> ELSE SubSeq(s[n + 1].rest, 1, j)) \in Seq(Byte)
  <2>1. CASE j = 0
    BY <2>1
  <2>2. CASE j # 0
    <3>1. n + 1 \in 1 .. Len(s) /\ j \in 1 .. Len(s[n + 1].rest) - 1
      BY <1>1, <2>2 DEF MayRead
    <3>2. s[n + 1].rest \in Seq(Byte)
      <4>1. s[n + 1] \in Stretch
        BY <3>1, ElementOfSeq
      <4> QED BY <4>1 DEF Stretch
    <3>3. SubSeq(s[n + 1].rest, 1, j) \in Seq(Byte)
      BY <3>1, <3>2
    <3> QED BY <2>2, <3>3
  <2> QED BY <2>1, <2>2
<1> QED BY <1>2, <1>3, <1>4, <1>5 DEF Chunk

-----------------------------------------------------------------------------
(***************************************************************************)
(* What the steps do                                                       *)
(***************************************************************************)

\* A stream whose next piece has r left.
Shortened(s, r) == [s EXCEPT ![1].rest = r]

\* What is left of a stream whose next piece has been read in part.
LEMMA PartRead ==
    ASSUME NEW s \in Seq(Stretch), s # <<>>, NEW r \in Seq(Byte),
           NEW t, t = Shortened(s, r)
    PROVE  /\ t \in Seq(Stretch) /\ Len(t) = Len(s)
           /\ t[1].rest = r /\ t[1].msg = s[1].msg
           /\ \A k \in 2 .. Len(s) : t[k] = s[k]
<1> DEFINE p == [s[1] EXCEPT !.rest = r]
<1>1. 1 \in 1 .. Len(s) /\ s[1] \in Stretch
  <2>1. 1 \in 1 .. Len(s)
    OBVIOUS
  <2> QED BY <2>1, ElementOfSeq
<1>2. p \in Stretch /\ p.rest = r /\ p.msg = s[1].msg
  BY <1>1 DEF Stretch
<1>3. t = [s EXCEPT ![1] = p]
  BY DEF Shortened
<1> HIDE DEF p
<1>4. /\ t \in Seq(Stretch) /\ Len(t) = Len(s)
      /\ \A k \in 1 .. Len(s) : t[k] = IF k = 1 THEN p ELSE s[k]
  <2>1. PICK u : u = [s EXCEPT ![1] = p]
    OBVIOUS
  <2>2. /\ u \in Seq(Stretch) /\ Len(u) = Len(s)
        /\ \A k \in 1 .. Len(s) : u[k] = IF k = 1 THEN p ELSE s[k]
    BY <1>1, <1>2, <2>1, ExceptSeq
  <2> QED BY <1>3, <2>1, <2>2, Zenon
<1>5. t[1] = p
  BY <1>1, <1>4
<1>6. \A k \in 2 .. Len(s) : t[k] = s[k]
  BY <1>4
<1> QED BY <1>2, <1>4, <1>5, <1>6

\* A read returns n pieces, and j bytes of the next.
LEMMA ReadStep ==
    ASSUME stream \in Seq(Stretch), NEW n, NEW j, MayRead(stream, n, j), Read(n, j),
           NEW b, b = buf \o Chunk(stream, n, j)
    PROVE  /\ pc = "idle" /\ Chunk(stream, n, j) # <<>> /\ Len(b) <= BUFF_SIZE
           /\ Behind(stream, n) => reads = "mixed"
           /\ stream' \in Seq(Stretch) /\ Len(stream') = Len(stream) - n
           /\ \/ j = 0 /\ stream' = From(stream, n + 1)
              \/ /\ j # 0 /\ reads = "split"
                 /\ stream'[1].rest = From(stream[n + 1].rest, j + 1)
                 /\ stream'[1].msg = stream[n + 1].msg
                 /\ \A k \in 2 .. Len(stream) - n : stream'[k] = stream[n + k]
           /\ due' = IF Behind(stream, n) THEN due
                     ELSE due \o FlattenSeq(Msgs(SubSeq(stream, 1, n)))
           /\ buf' = IF to_extract_msg = null /\ ~has_start_mark(b) THEN move_msg_to_start(b) ELSE b
           /\ to_extract_msg' = IF Abandons(b) THEN null ELSE to_extract_msg
           /\ capacity' = IF Abandons(b) THEN 0 ELSE capacity
           /\ pc' = IF buf' = <<>> THEN "idle" ELSE "gain"
           /\ reads' = reads /\ extracted' = extracted
<1>1. /\ SubSeq(stream, 1, n) \in Seq(Stretch)
      /\ \A k \in 1 .. n : SubSeq(stream, 1, n)[k] = stream[k]
      /\ From(stream, n + 1) \in Seq(Stretch) /\ Len(From(stream, n + 1)) = Len(stream) - n
      /\ \A k \in 1 .. Len(stream) - n : From(stream, n + 1)[k] = stream[n + k]
  BY ChunkRead
<1>2. n \in Nat /\ n <= Len(stream)
  BY DEF MayRead
<1>3. (\E k \in 1 .. (n - 1) : SubSeq(stream, 1, n)[k].msg = <<>>) <=> Behind(stream, n)
  <2>1. \A k \in 1 .. (n - 1) : SubSeq(stream, 1, n)[k] = stream[k]
    BY <1>1, <1>2
  <2> QED BY <2>1, Zenon DEF Behind
<1>4. /\ pc = "idle" /\ Chunk(stream, n, j) # <<>> /\ Len(b) <= BUFF_SIZE
      /\ j # 0 => reads = "split"
      /\ Behind(stream, n) => reads = "mixed"
      /\ stream' = IF j = 0 THEN From(stream, n + 1)
                   ELSE [From(stream, n + 1) EXCEPT ![1].rest = From(@, j + 1)]
      /\ due' = IF Behind(stream, n) THEN due
                ELSE due \o FlattenSeq(Msgs(SubSeq(stream, 1, n)))
      /\ buf' = IF to_extract_msg = null /\ ~has_start_mark(b) THEN move_msg_to_start(b) ELSE b
      /\ to_extract_msg' = IF Abandons(b) THEN null ELSE to_extract_msg
      /\ capacity' = IF Abandons(b) THEN 0 ELSE capacity
      /\ pc' = IF buf' = <<>> THEN "idle" ELSE "gain"
      /\ reads' = reads /\ extracted' = extracted
  BY <1>3, Zenon DEF Read, Chunk, Rests, Msgs
<1>5. j = 0 => stream' = From(stream, n + 1)
  BY <1>4
<1>6. ASSUME j # 0
      PROVE  /\ stream' \in Seq(Stretch) /\ Len(stream') = Len(stream) - n
             /\ stream'[1].rest = From(stream[n + 1].rest, j + 1)
             /\ stream'[1].msg = stream[n + 1].msg
             /\ \A k \in 2 .. Len(stream) - n : stream'[k] = stream[n + k]
  <2>1. n + 1 \in 1 .. Len(stream) /\ 1 \in 1 .. Len(stream) - n /\ j \in Nat
        /\ Len(stream) - n >= 1
    BY <1>2, <1>6 DEF MayRead
  <2>2. PICK s \in Seq(Stretch) : s = From(stream, n + 1)
    BY <1>1
  <2>3. s # <<>> /\ s[1] = stream[n + 1] /\ Len(s) = Len(stream) - n
        /\ \A k \in 2 .. Len(s) : s[k] = stream[n + k]
    BY <1>1, <2>1, <2>2
  <2>4. PICK r : r = From(stream[n + 1].rest, j + 1)
    OBVIOUS
  <2>5. r \in Seq(Byte)
    <3>1. stream[n + 1] \in Stretch
      BY <2>1, ElementOfSeq
    <3>2. stream[n + 1].rest \in Seq(Byte)
      BY <3>1 DEF Stretch
    <3>3. j + 1 \in Nat /\ j + 1 >= 1
      BY <2>1
    <3>4. From(stream[n + 1].rest, j + 1) \in Seq(Byte)
      BY <3>2, <3>3, BytesFrom
    <3> QED BY <2>4, <3>4
  <2>6. stream' = Shortened(s, r)
    BY <1>4, <1>6, <2>2, <2>3, <2>4 DEF Shortened
  <2>7. PICK t : t = Shortened(s, r)
    OBVIOUS
  <2>8. /\ t \in Seq(Stretch) /\ Len(t) = Len(s) /\ t[1].rest = r /\ t[1].msg = s[1].msg
        /\ \A k \in 2 .. Len(s) : t[k] = s[k]
    BY <2>3, <2>5, <2>7, PartRead
  <2>9. \A k \in 2 .. Len(stream) - n : t[k] = stream[n + k]
    BY <2>3, <2>8
  <2> QED BY <2>3, <2>4, <2>6, <2>7, <2>8, <2>9, Zenon
<1>7. stream' \in Seq(Stretch) /\ Len(stream') = Len(stream) - n
  <2>1. CASE j = 0
    BY <1>1, <1>5, <2>1
  <2>2. CASE j # 0
    BY <1>6, <2>2
  <2> QED BY <2>1, <2>2
<1> QED BY <1>4, <1>5, <1>6, <1>7

\* Bytes are those up to any of them and those behind it.
LEMMA CutAt ==
    ASSUME NEW S, NEW b \in Seq(S), NEW w \in 0 .. Len(b)
    PROVE  /\ SubSeq(b, 1, w) \in Seq(S) /\ Len(SubSeq(b, 1, w)) = w
           /\ \A k \in 1 .. w : SubSeq(b, 1, w)[k] = b[k]
           /\ From(b, w + 1) \in Seq(S) /\ Len(From(b, w + 1)) = Len(b) - w
           /\ SubSeq(b, 1, w) \o From(b, w + 1) = b
<1>1. PICK x \in Seq(S) :
          x = SubSeq(b, 1, w) /\ Len(x) = w /\ \A k \in 1 .. w : x[k] = b[k]
  <2>1. /\ SubSeq(b, 1, w) \in Seq(S) /\ Len(SubSeq(b, 1, w)) = w
        /\ \A k \in 1 .. w : SubSeq(b, 1, w)[k] = b[k]
    OBVIOUS
  <2> QED BY <2>1, Zenon
<1>2. PICK y \in Seq(S) :
          y = From(b, w + 1) /\ Len(y) = Len(b) - w
          /\ \A k \in 1 .. Len(b) - w : y[k] = b[w + k]
  <2>1. /\ From(b, w + 1) \in Seq(S) /\ Len(From(b, w + 1)) = Len(b) - w
        /\ \A k \in 1 .. Len(b) - w : From(b, w + 1)[k] = b[w + k]
    BY DEF From
  <2> QED BY <2>1, Zenon
<1>3. PICK z \in Seq(S) : z = x \o y
  <2>1. x \o y \in Seq(S)
    OBVIOUS
  <2> QED BY <2>1, Zenon
<1>4. Len(z) = Len(b) /\ \A k \in 1 .. Len(b) : z[k] = b[k]
  <2>1. /\ Len(z) = Len(x) + Len(y)
        /\ \A k \in 1 .. Len(x) : z[k] = x[k]
        /\ \A k \in 1 .. Len(y) : z[Len(x) + k] = y[k]
    BY <1>3
  <2>2. ASSUME NEW k \in 1 .. Len(b), k > w PROVE z[k] = b[k]
    <3>1. k - w \in 1 .. Len(b) - w /\ w + (k - w) = k
      BY <2>2
    <3>2. z[w + (k - w)] = y[k - w]
      BY <1>1, <1>2, <2>1, <3>1
    <3>3. y[k - w] = b[w + (k - w)]
      BY <1>2, <3>1
    <3> QED BY <3>1, <3>2, <3>3
  <2> QED BY <1>1, <1>2, <2>1, <2>2
<1>5. z = b
  BY <1>4, SeqEqual
<1> QED BY <1>1, <1>2, <1>3, <1>5, Zenon

\* The bytes m that are copied and the bytes r that are left, and what becomes of them.
Copied(b, w, size, m, r) ==
    /\ m = to_extract_msg \o SubSeq(b, 1, w) /\ Len(m) = readed + w
    /\ r = From(b, w + 1) /\ Len(r) = Len(b) - w
    /\ m \o r = to_extract_msg \o b
    /\ \A k \in 1 .. readed : m[k] = to_extract_msg[k]
    /\ buf' = r
    /\ create_instance(m) =>
           /\ extracted' = Append(extracted, m)
           /\ to_extract_msg' = null /\ capacity' = 0
           /\ pc' = IF r = <<>> THEN "idle" ELSE "gain"
    /\ ~create_instance(m) =>
           /\ extracted' = extracted
           /\ to_extract_msg' = m /\ capacity' = size
           /\ pc' = "idle"

LEMMA CopyStep ==
    ASSUME NEW b \in Seq(Byte), NEW w \in 0 .. Len(b), to_extract_msg \in Seq(Byte),
           NEW size, Copy(b, w, size)
    PROVE  \E m, r \in Seq(Byte) : Copied(b, w, size, m, r)
<1> DEFINE m == to_extract_msg \o SubSeq(b, 1, w)
           r == From(b, w + 1)
<1>1. SubSeq(b, 1, w) \in Seq(Byte) /\ Len(SubSeq(b, 1, w)) = w
  OBVIOUS
<1>2. m \in Seq(Byte) /\ Len(m) = readed + w /\ \A k \in 1 .. readed : m[k] = to_extract_msg[k]
  BY <1>1 DEF readed
<1>3. r \in Seq(Byte) /\ Len(r) = Len(b) - w
  BY DEF From
<1>4. m \o r = to_extract_msg \o b
  <2>1. PICK x, y \in Seq(Byte) : x = SubSeq(b, 1, w) /\ y = r
    BY <1>1, <1>3
  <2>2. x \o y = b
    BY <2>1, CutAt
  <2>3. (to_extract_msg \o x) \o y = to_extract_msg \o (x \o y)
    OBVIOUS
  <2> QED BY <2>1, <2>2, <2>3
<1>5. /\ buf' = r
      /\ create_instance(m) =>
             /\ extracted' = Append(extracted, m)
             /\ to_extract_msg' = null /\ capacity' = 0
             /\ pc' = IF r = <<>> THEN "idle" ELSE "gain"
      /\ ~create_instance(m) =>
             /\ extracted' = extracted
             /\ to_extract_msg' = m /\ capacity' = size
             /\ pc' = "idle"
  BY DEF Copy
<1> HIDE DEF m, r
<1>6. m = to_extract_msg \o SubSeq(b, 1, w) /\ r = From(b, w + 1)
  BY DEF m, r
<1>7. Copied(b, w, size, m, r)
  BY <1>2, <1>3, <1>4, <1>5, <1>6, Zenon DEF Copied
<1> QED BY <1>2, <1>3, <1>7, Zenon

\* A new reading drops what cannot begin a message and copies what can be one.
LEMMA NewReadingStep ==
    ASSUME buf \in Seq(Byte), NewReading
    PROVE  /\ pc = "gain" /\ to_extract_msg = null
           /\ reads' = reads /\ stream' = stream /\ due' = due
           /\ new_reading_start(buf) = <<>> =>
                  /\ buf' = <<>> /\ pc' = "idle"
                  /\ UNCHANGED <<to_extract_msg, capacity, extracted>>
           /\ new_reading_start(buf) # <<>> =>
                  \E b \in Seq(Byte), size \in Nat : \E w \in 1 .. Len(b) :
                      /\ b = new_reading_start(buf) /\ Len(b) <= Len(buf)
                      /\ has_start_mark(b) /\ w <= size
                      /\ Copy(b, w, size)
                      /\ \/ Len(b) < MIN_SIZE /\ w = size /\ size = before_mark(b, 2)
                         \/ /\ Headed(b) /\ size = DataSize[b[2]]
                            /\ w < size => w = Len(b)
<1>1. /\ pc = "gain" /\ to_extract_msg = null
      /\ reads' = reads /\ stream' = stream /\ due' = due
  BY DEF NewReading
<1>2. ASSUME new_reading_start(buf) = <<>>
      PROVE  /\ buf' = <<>> /\ pc' = "idle"
             /\ UNCHANGED <<to_extract_msg, capacity, extracted>>
  BY <1>2, Zenon DEF NewReading
<1>3. ASSUME new_reading_start(buf) # <<>>
      PROVE  \E b \in Seq(Byte), size \in Nat : \E w \in 1 .. Len(b) :
                 /\ b = new_reading_start(buf) /\ Len(b) <= Len(buf)
                 /\ has_start_mark(b) /\ w <= size
                 /\ Copy(b, w, size)
                 /\ \/ Len(b) < MIN_SIZE /\ w = size /\ size = before_mark(b, 2)
                    \/ /\ Headed(b) /\ size = DataSize[b[2]]
                       /\ w < size => w = Len(b)
  <2>1. PICK b \in Seq(Byte) :
            /\ b = new_reading_start(buf) /\ Len(b) <= Len(buf)
            /\ has_start_mark(b) /\ get_msg_type(b) # "INVALID"
    <3>1. new_reading_start(buf) = <<>> \/ StartsAt(buf, new_reading_start(buf))
      BY ReadingStart
    <3>2. PICK b : b = new_reading_start(buf)
      OBVIOUS
    <3>3. /\ b \in Seq(Byte) /\ Len(b) <= Len(buf)
          /\ b # <<>> => has_start_mark(b) /\ get_msg_type(b) # "INVALID"
      BY <3>1, <3>2, Remains, Zenon
    <3> QED BY <1>3, <3>2, <3>3, Zenon
  <2> DEFINE size == IF get_msg_type(b) = "UNDEFINED" THEN before_mark(b, 2)
                     ELSE DataSize[get_msg_type(b)]
             w == Min({Len(b), size})
  <2>2. Copy(b, w, size)
    <3>1. b # <<>>
      BY <1>3, <2>1
    <3> QED BY <2>1, <3>1, Zenon DEF NewReading, new_to_write
  <2>3. Len(b) \in Nat /\ Len(b) >= 1 /\ MIN_SIZE \in Nat /\ MIN_SIZE >= 2
    BY <2>1, BufferAssumption DEF has_start_mark
  <2>4. /\ size \in Nat /\ size >= 1
        /\ \/ Len(b) < MIN_SIZE /\ size = before_mark(b, 2) /\ size <= Len(b)
           \/ Headed(b) /\ size = DataSize[b[2]]
    <3>1. CASE Len(b) < MIN_SIZE
      <4>1. get_msg_type(b) = "UNDEFINED"
        BY <3>1, TypeOfBytes
      <4>2. size = before_mark(b, 2)
        BY <4>1
      <4>3. /\ before_mark(b, 2) \in Nat /\ before_mark(b, 2) <= Len(b)
            /\ 2 <= Len(b) => before_mark(b, 2) >= 2 - 1
            /\ (\A k \in 2 .. Len(b) : b[k] # MSG_START) => before_mark(b, 2) = Len(b)
        BY FirstMark
      <4>4. before_mark(b, 2) >= 1
        BY <2>3, <4>3
      <4> HIDE DEF size
      <4> QED BY <3>1, <4>2, <4>3, <4>4
    <3>2. CASE Len(b) >= MIN_SIZE
      <4>1. Headed(b) /\ get_msg_type(b) = b[2]
        BY <2>1, <2>3, <3>2, TypeOfBytes
      <4>2. b[2] \in Type /\ b[2] # "UNDEFINED"
        BY <4>1, BufferAssumption DEF Headed
      <4>3. size = DataSize[b[2]]
        BY <4>1, <4>2
      <4>4. DataSize[b[2]] \in Nat /\ DataSize[b[2]] >= MIN_SIZE
        BY <4>2, BufferAssumption
      <4> HIDE DEF size
      <4> QED BY <2>3, <4>1, <4>3, <4>4
    <3> QED BY <2>3, <3>1, <3>2
  <2> HIDE DEF size
  <2>5. w = IF size <= Len(b) THEN size ELSE Len(b)
    <3>1. \E x \in {Len(b), size} : \A y \in {Len(b), size} : x <= y
      BY <2>3, <2>4
    <3>2. w \in {Len(b), size} /\ \A y \in {Len(b), size} : w <= y
      BY <3>1 DEF Min
    <3> HIDE DEF w
    <3> QED BY <2>3, <2>4, <3>2
  <2> HIDE DEF w
  <2>6. w \in 1 .. Len(b) /\ w <= size /\ (w < size => w = Len(b))
    BY <2>3, <2>4, <2>5
  <2>7. \/ Len(b) < MIN_SIZE /\ w = size /\ size = before_mark(b, 2)
        \/ Headed(b) /\ size = DataSize[b[2]] /\ (w < size => w = Len(b))
    BY <2>3, <2>4, <2>5, <2>6
  <2> QED BY <2>1, <2>2, <2>4, <2>6, <2>7, Zenon
<1> QED BY <1>1, <1>2, <1>3, Zenon

\* A reading that is finished copies what there is room for, or ends the program.
LEMMA FinishingStep ==
    ASSUME buf \in Seq(Byte), NEW size, FinishingReading(size)
    PROVE  /\ pc = "gain" /\ to_extract_msg # null
           /\ reads' = reads /\ stream' = stream /\ due' = due
           /\ \/ \E w \in 0 .. Len(buf) : readed + w <= capacity /\ Copy(buf, w, capacity)
              \/ pc' = "crashed" /\ UNCHANGED <<buf, to_extract_msg, capacity, extracted>>
BY Zenon DEF FinishingReading, free_pos

-----------------------------------------------------------------------------
(***************************************************************************)
(* Types                                                                   *)
(***************************************************************************)

Types ==
    /\ reads \in DOMAIN Streams
    /\ stream \in Seq(Stretch)
    /\ buf \in Seq(Byte) /\ to_extract_msg \in Seq(Byte)
    /\ capacity \in Nat
    /\ extracted \in Seq(Seq(Byte)) /\ due \in Seq(Message)
    /\ pc = "gain" => buf # <<>>
    /\ TypeOK

LEMMA InitTypes == Init => Types
<1> SUFFICES ASSUME Init PROVE Types
  OBVIOUS
<1>1. stream \in Seq(WholePiece \cup CutPiece) /\ reads \in DOMAIN Streams
  BY StreamAssumption DEF Init
<1>2. stream \in Seq(Stretch)
  <2>1. WholePiece \cup CutPiece \subseteq Stretch
    BY PieceType
  <2> QED BY <1>1, <2>1, SeqMonotonic
<1>3. /\ buf = <<>> /\ to_extract_msg = <<>> /\ capacity = 0
      /\ extracted = <<>> /\ due = <<>> /\ pc = "idle"
  BY DEF Init, null
<1>4. TypeOK
  BY <1>3, BufferAssumption DEF TypeOK, readed, null
<1> QED BY <1>1, <1>2, <1>3, <1>4 DEF Types

\* What has been copied has room, begins with a mark and is no complete message.
LEMMA CopyTypes ==
    ASSUME Types, NEW b \in Seq(Byte), Len(b) <= BUFF_SIZE,
           NEW w \in 0 .. Len(b), NEW size \in Nat, readed + w <= size,
           to_extract_msg # null \/ (w >= 1 /\ has_start_mark(b)),
           Copy(b, w, size), reads' = reads, stream' = stream, due' = due
    PROVE  Types'
<1>1. PICK m, r \in Seq(Byte) : Copied(b, w, size, m, r)
  <2>1. to_extract_msg \in Seq(Byte)
    BY DEF Types
  <2> QED BY <2>1, CopyStep
<1>2. /\ m = to_extract_msg \o SubSeq(b, 1, w) /\ Len(m) = readed + w
      /\ Len(r) = Len(b) - w
      /\ \A k \in 1 .. readed : m[k] = to_extract_msg[k]
      /\ buf' = r
      /\ create_instance(m) =>
             /\ extracted' = Append(extracted, m)
             /\ to_extract_msg' = null /\ capacity' = 0
             /\ pc' = IF r = <<>> THEN "idle" ELSE "gain"
      /\ ~create_instance(m) =>
             /\ extracted' = extracted
             /\ to_extract_msg' = m /\ capacity' = size
             /\ pc' = "idle"
  BY <1>1 DEF Copied
<1>3. has_start_mark(m)
  <2>1. CASE to_extract_msg # null
    <3>1. to_extract_msg \in Seq(Byte) /\ has_start_mark(to_extract_msg)
      BY <2>1 DEF Types, TypeOK
    <3>2. to_extract_msg[1] = MSG_START /\ 1 \in 1 .. readed /\ readed \in Nat /\ readed >= 1
      BY <3>1 DEF has_start_mark, readed
    <3>3. m[1] = MSG_START
      BY <1>2, <3>2, Zenon
    <3>4. Len(m) >= 1
      BY <1>2, <3>2
    <3> QED BY <3>3, <3>4 DEF has_start_mark
  <2>2. CASE to_extract_msg = null
    <3>1. w >= 1 /\ b[1] = MSG_START /\ m = <<>> \o SubSeq(b, 1, w)
      BY <1>2, <2>2 DEF has_start_mark, null
    <3>2. m = SubSeq(b, 1, w)
      BY <3>1
    <3>3. m[1] = MSG_START /\ Len(m) >= 1
      BY <3>1, <3>2
    <3> QED BY <3>3 DEF has_start_mark
  <2> QED BY <2>1, <2>2
<1>4. Len(r) <= BUFF_SIZE /\ Len(m) <= size /\ <<>> \in Seq(Byte)
  BY <1>2, BufferAssumption
<1>5. extracted \in Seq(Seq(Byte)) /\ due \in Seq(Message) /\ reads \in DOMAIN Streams
      /\ stream \in Seq(Stretch)
  BY DEF Types
<1>6. CASE create_instance(m)
  <2>1. /\ buf' = r /\ extracted' = Append(extracted, m)
        /\ to_extract_msg' = <<>> /\ capacity' = 0
        /\ pc' = IF r = <<>> THEN "idle" ELSE "gain"
    BY <1>2, <1>6 DEF null
  <2>2. Append(extracted, m) \in Seq(Seq(Byte))
    BY <1>5
  <2>3. Len(<<>>) = 0
    OBVIOUS
  <2>4. TypeOK'
    BY <1>4, <2>1, <2>3 DEF TypeOK, readed, null
  <2> QED BY <1>4, <1>5, <2>1, <2>2, <2>4 DEF Types
<1>7. CASE ~create_instance(m)
  <2>1. /\ buf' = r /\ extracted' = extracted
        /\ to_extract_msg' = m /\ capacity' = size /\ pc' = "idle"
    BY <1>2, <1>7
  <2>2. TypeOK'
    BY <1>3, <1>4, <1>7, <2>1 DEF TypeOK, readed
  <2> QED BY <1>4, <1>5, <2>1, <2>2 DEF Types
<1> QED BY <1>6, <1>7

LEMMA ReadTypes ==
    ASSUME Types, NEW n, NEW j, MayRead(stream, n, j), Read(n, j)
    PROVE  Types'
<1>1. /\ stream \in Seq(Stretch) /\ buf \in Seq(Byte) /\ to_extract_msg \in Seq(Byte)
      /\ capacity \in Nat /\ TypeOK /\ due \in Seq(Message)
      /\ extracted \in Seq(Seq(Byte)) /\ reads \in DOMAIN Streams
  BY DEF Types
<1>2. PICK b \in Seq(Byte) : b = buf \o Chunk(stream, n, j)
  <2>1. Chunk(stream, n, j) \in Seq(Byte)
    BY <1>1, ChunkRead
  <2>2. buf \o Chunk(stream, n, j) \in Seq(Byte)
    BY <1>1, <2>1
  <2> QED BY <2>2, Zenon
<1>3. /\ Len(b) <= BUFF_SIZE
      /\ stream' \in Seq(Stretch)
      /\ due' = IF Behind(stream, n) THEN due ELSE due \o FlattenSeq(Msgs(SubSeq(stream, 1, n)))
      /\ buf' = IF to_extract_msg = null /\ ~has_start_mark(b) THEN move_msg_to_start(b) ELSE b
      /\ to_extract_msg' = IF Abandons(b) THEN null ELSE to_extract_msg
      /\ capacity' = IF Abandons(b) THEN 0 ELSE capacity
      /\ pc' = IF buf' = <<>> THEN "idle" ELSE "gain"
      /\ reads' = reads /\ extracted' = extracted
  BY <1>1, <1>2, ReadStep, Zenon
<1>4. due' \in Seq(Message)
  <2>1. SubSeq(stream, 1, n) \in Seq(Stretch)
    BY <1>1, ChunkRead
  <2>2. PICK ms \in Seq(Message) : ms = FlattenSeq(Msgs(SubSeq(stream, 1, n)))
    BY <2>1, PiecesRead
  <2>3. due \o ms \in Seq(Message)
    BY <1>1
  <2> QED BY <1>1, <1>3, <2>2, <2>3
<1>5. buf' \in Seq(Byte) /\ Len(buf') <= BUFF_SIZE
  <2>1. move_msg_to_start(b) \in Seq(Byte) /\ Len(move_msg_to_start(b)) <= Len(b)
    BY MovedToStart, Remains, Zenon
  <2>2. move_msg_to_start(b) \in Seq(Byte) /\ Len(move_msg_to_start(b)) <= BUFF_SIZE
    BY <1>3, <2>1, BufferAssumption
  <2> QED BY <1>3, <2>2
<1>6. /\ to_extract_msg' \in Seq(Byte) /\ capacity' \in Nat /\ readed' <= capacity'
      /\ to_extract_msg' # null =>
             has_start_mark(to_extract_msg') /\ ~create_instance(to_extract_msg')
  <2>1. CASE Abandons(b)
    <3>1. to_extract_msg' = <<>> /\ capacity' = 0
      BY <1>3, <2>1 DEF null
    <3> QED BY <3>1 DEF readed, null
  <2>2. CASE ~Abandons(b)
    <3>1. to_extract_msg' = to_extract_msg /\ capacity' = capacity
      BY <1>3, <2>2
    <3> QED BY <1>1, <3>1 DEF TypeOK, readed
  <2> QED BY <2>1, <2>2
<1>7. TypeOK'
  BY <1>3, <1>5, <1>6 DEF TypeOK, null
<1> QED BY <1>1, <1>3, <1>4, <1>5, <1>6, <1>7 DEF Types

\* What a step is: a read, a new reading, one that is finished, or none.
LEMMA StepIs ==
    ASSUME [Next]_vars, stream \in Seq(Stretch)
    PROVE  \/ \E n \in 0 .. Len(stream) : \E j \in Nat : MayRead(stream, n, j) /\ Read(n, j)
           \/ NewReading
           \/ \E size : FinishingReading(size)
           \/ UNCHANGED vars
<1>1. ASSUME NEW n \in 0 .. Len(stream), Read(n, 0)
      PROVE  MayRead(stream, n, 0) /\ 0 \in Nat
  BY DEF MayRead
<1>2. ASSUME NEW n \in 0 .. Len(stream), n < Len(stream),
             NEW j \in 1 .. (Len(stream[n + 1].rest) - 1), Read(n, j)
      PROVE  MayRead(stream, n, j) /\ j \in Nat
  BY <1>2 DEF MayRead
<1> QED BY <1>1, <1>2, Zenon DEF Next, Idle

LEMMA StepTypes == Types /\ [Next]_vars => Types'
<1> SUFFICES ASSUME Types, [Next]_vars PROVE Types'
  OBVIOUS
<1>1. /\ stream \in Seq(Stretch) /\ buf \in Seq(Byte) /\ to_extract_msg \in Seq(Byte)
      /\ capacity \in Nat /\ TypeOK
  BY DEF Types
<1>2. ASSUME NEW n \in 0 .. Len(stream), NEW j \in Nat, MayRead(stream, n, j), Read(n, j)
      PROVE  Types'
  BY <1>2, ReadTypes
<1>3. CASE NewReading
  <2>1. /\ to_extract_msg = null
        /\ reads' = reads /\ stream' = stream /\ due' = due
    BY <1>1, <1>3, NewReadingStep
  <2>2. CASE new_reading_start(buf) = <<>>
    <3>1. /\ buf' = <<>> /\ pc' = "idle" /\ to_extract_msg' = to_extract_msg
          /\ capacity' = capacity /\ extracted' = extracted
      BY <1>1, <1>3, <2>2, NewReadingStep
    <3>2. <<>> \in Seq(Byte) /\ Len(<<>>) = 0
      OBVIOUS
    <3>3. TypeOK'
      BY <1>1, <3>1, <3>2, BufferAssumption DEF TypeOK, readed
    <3> QED BY <2>1, <3>1, <3>2, <3>3 DEF Types
  <2>3. CASE new_reading_start(buf) # <<>>
    <3>1. PICK b \in Seq(Byte), size \in Nat : \E w \in 1 .. Len(b) :
              /\ Len(b) <= Len(buf) /\ has_start_mark(b) /\ w <= size
              /\ Copy(b, w, size)
      BY <1>1, <1>3, <2>3, NewReadingStep, Zenon
    <3>2. PICK w \in 1 .. Len(b) :
              /\ Len(b) <= Len(buf) /\ has_start_mark(b) /\ w <= size
              /\ Copy(b, w, size)
      BY <3>1, Zenon
    <3>3. w \in 0 .. Len(b) /\ w >= 1 /\ readed = 0 /\ readed + w <= size
      BY <2>1, <3>2 DEF readed, null
    <3>4. Len(b) <= BUFF_SIZE
      BY <1>1, <3>2, BufferAssumption DEF TypeOK
    <3> QED BY <2>1, <3>2, <3>3, <3>4, CopyTypes, Zenon
  <2> QED BY <2>2, <2>3
<1>4. ASSUME NEW size, FinishingReading(size) PROVE Types'
  <2>1. /\ to_extract_msg # null
        /\ reads' = reads /\ stream' = stream /\ due' = due
        /\ \/ \E w \in 0 .. Len(buf) : readed + w <= capacity /\ Copy(buf, w, capacity)
           \/ pc' = "crashed" /\ UNCHANGED <<buf, to_extract_msg, capacity, extracted>>
    BY <1>1, <1>4, FinishingStep, Zenon
  <2>2. ASSUME NEW w \in 0 .. Len(buf), readed + w <= capacity, Copy(buf, w, capacity)
        PROVE  Types'
    <3>1. Len(buf) <= BUFF_SIZE
      BY <1>1 DEF TypeOK
    <3> QED BY <1>1, <2>1, <2>2, <3>1, CopyTypes, Zenon
  <2>3. CASE pc' = "crashed" /\ UNCHANGED <<buf, to_extract_msg, capacity, extracted>>
    <3>1. TypeOK'
      BY <1>1, <2>3 DEF TypeOK, readed
    <3> QED BY <2>1, <2>3, <3>1 DEF Types
  <2> QED BY <2>1, <2>2, <2>3
<1>5. CASE UNCHANGED vars
  BY <1>5 DEF vars, Types, TypeOK, readed
<1> QED BY <1>1, <1>2, <1>3, <1>4, <1>5, StepIs, Zenon

\* Everywhere in the program: what has been read of a message fits in what was
\* allocated for it, begins with a start mark and is no complete message.
THEOREM BufferTypeOK == Spec => []TypeOK
<1>1. Init => Types
  BY InitTypes
<1>2. Types /\ [Next]_vars => Types'
  BY StepTypes
<1>3. Types => TypeOK
  BY DEF Types
<1> QED BY <1>1, <1>2, <1>3, PTL DEF Spec

-----------------------------------------------------------------------------
(***************************************************************************)
(* Pieces that are read together                                           *)
(***************************************************************************)

LEMMA PiecesJoined ==
    ASSUME NEW u \in Seq(Stretch), NEW v \in Seq(Stretch)
    PROVE  /\ u \o v \in Seq(Stretch)
           /\ FlattenSeq(Rests(u \o v)) = FlattenSeq(Rests(u)) \o FlattenSeq(Rests(v))
           /\ FlattenSeq(Msgs(u \o v)) = FlattenSeq(Msgs(u)) \o FlattenSeq(Msgs(v))
<1>1. PICK w \in Seq(Stretch) : w = u \o v
  <2>1. u \o v \in Seq(Stretch)
    OBVIOUS
  <2> QED BY <2>1, Zenon
<1>2. /\ Len(w) = Len(u) + Len(v)
      /\ \A k \in 1 .. Len(u) : w[k] = u[k]
      /\ \A k \in 1 .. Len(v) : w[Len(u) + k] = v[k]
      /\ Len(u) \in Nat /\ Len(v) \in Nat
  BY <1>1
<1>3. PICK a, b, c \in Seq(Seq(Byte)) :
          /\ a = Rests(u) /\ b = Rests(v) /\ c = Rests(w)
          /\ Len(a) = Len(u) /\ Len(b) = Len(v) /\ Len(c) = Len(w)
          /\ \A k \in 1 .. Len(u) : a[k] = u[k].rest
          /\ \A k \in 1 .. Len(v) : b[k] = v[k].rest
          /\ \A k \in 1 .. Len(w) : c[k] = w[k].rest
  <2>1. /\ Rests(u) \in Seq(Seq(Byte)) /\ Rests(v) \in Seq(Seq(Byte)) /\ Rests(w) \in Seq(Seq(Byte))
        /\ Len(Rests(u)) = Len(u) /\ Len(Rests(v)) = Len(v) /\ Len(Rests(w)) = Len(w)
        /\ \A k \in 1 .. Len(u) : Rests(u)[k] = u[k].rest
        /\ \A k \in 1 .. Len(v) : Rests(v)[k] = v[k].rest
        /\ \A k \in 1 .. Len(w) : Rests(w)[k] = w[k].rest
    BY PiecesRead
  <2> QED BY <2>1, Zenon
<1>4. c = a \o b
  <2>1. PICK d \in Seq(Seq(Byte)) : d = a \o b
    <3>1. a \o b \in Seq(Seq(Byte))
      OBVIOUS
    <3> QED BY <3>1, Zenon
  <2>2. /\ Len(d) = Len(u) + Len(v)
        /\ \A k \in 1 .. Len(u) : d[k] = a[k]
        /\ \A k \in 1 .. Len(v) : d[Len(u) + k] = b[k]
    <3>1. /\ Len(d) = Len(a) + Len(b)
          /\ \A k \in 1 .. Len(a) : d[k] = a[k]
          /\ \A k \in 1 .. Len(b) : d[Len(a) + k] = b[k]
      BY <2>1
    <3> QED BY <1>3, <3>1, Zenon
  <2>3. ASSUME NEW k \in 1 .. Len(c) PROVE c[k] = d[k]
    <3>1. CASE k \in 1 .. Len(u)
      <4>1. k \in 1 .. Len(w) /\ c[k] = w[k].rest
        BY <1>3
      <4> QED BY <1>2, <1>3, <2>2, <3>1, <4>1, Zenon
    <3>2. CASE k \notin 1 .. Len(u)
      <4>1. k - Len(u) \in 1 .. Len(v) /\ Len(u) + (k - Len(u)) = k
        BY <1>2, <1>3, <3>2
      <4>2. PICK i \in 1 .. Len(v) : Len(u) + i = k
        BY <4>1
      <4>3. k \in 1 .. Len(w)
        BY <1>3
      <4>4. c[k] = v[i].rest
        BY <1>2, <1>3, <4>2, <4>3, Zenon
      <4>5. d[k] = b[i] /\ b[i] = v[i].rest
        BY <1>3, <2>2, <4>2, Zenon
      <4> QED BY <4>4, <4>5
    <3> QED BY <3>1, <3>2
  <2>4. Len(c) = Len(d)
    BY <1>2, <1>3, <2>2
  <2> QED BY <2>1, <2>3, <2>4, SeqEqual
<1>5. PICK a2, b2, c2 \in Seq(Seq(Message)) :
          /\ a2 = Msgs(u) /\ b2 = Msgs(v) /\ c2 = Msgs(w)
          /\ Len(a2) = Len(u) /\ Len(b2) = Len(v) /\ Len(c2) = Len(w)
          /\ \A k \in 1 .. Len(u) : a2[k] = u[k].msg
          /\ \A k \in 1 .. Len(v) : b2[k] = v[k].msg
          /\ \A k \in 1 .. Len(w) : c2[k] = w[k].msg
  <2>1. /\ Msgs(u) \in Seq(Seq(Message)) /\ Msgs(v) \in Seq(Seq(Message)) /\ Msgs(w) \in Seq(Seq(Message))
        /\ Len(Msgs(u)) = Len(u) /\ Len(Msgs(v)) = Len(v) /\ Len(Msgs(w)) = Len(w)
        /\ \A k \in 1 .. Len(u) : Msgs(u)[k] = u[k].msg
        /\ \A k \in 1 .. Len(v) : Msgs(v)[k] = v[k].msg
        /\ \A k \in 1 .. Len(w) : Msgs(w)[k] = w[k].msg
    BY PiecesRead
  <2> QED BY <2>1, Zenon
<1>6. c2 = a2 \o b2
  <2>1. PICK d \in Seq(Seq(Message)) : d = a2 \o b2
    <3>1. a2 \o b2 \in Seq(Seq(Message))
      OBVIOUS
    <3> QED BY <3>1, Zenon
  <2>2. /\ Len(d) = Len(u) + Len(v)
        /\ \A k \in 1 .. Len(u) : d[k] = a2[k]
        /\ \A k \in 1 .. Len(v) : d[Len(u) + k] = b2[k]
    <3>1. /\ Len(d) = Len(a2) + Len(b2)
          /\ \A k \in 1 .. Len(a2) : d[k] = a2[k]
          /\ \A k \in 1 .. Len(b2) : d[Len(a2) + k] = b2[k]
      BY <2>1
    <3> QED BY <1>5, <3>1, Zenon
  <2>3. ASSUME NEW k \in 1 .. Len(c2) PROVE c2[k] = d[k]
    <3>1. CASE k \in 1 .. Len(u)
      <4>1. k \in 1 .. Len(w) /\ c2[k] = w[k].msg
        BY <1>5
      <4> QED BY <1>2, <1>5, <2>2, <3>1, <4>1, Zenon
    <3>2. CASE k \notin 1 .. Len(u)
      <4>1. k - Len(u) \in 1 .. Len(v) /\ Len(u) + (k - Len(u)) = k
        BY <1>2, <1>5, <3>2
      <4>2. PICK i \in 1 .. Len(v) : Len(u) + i = k
        BY <4>1
      <4>3. k \in 1 .. Len(w)
        BY <1>5
      <4>4. c2[k] = v[i].msg
        BY <1>2, <1>5, <4>2, <4>3, Zenon
      <4>5. d[k] = b2[i] /\ b2[i] = v[i].msg
        BY <1>5, <2>2, <4>2, Zenon
      <4> QED BY <4>4, <4>5
    <3> QED BY <3>1, <3>2
  <2>4. Len(c2) = Len(d)
    BY <1>2, <1>5, <2>2
  <2> QED BY <2>1, <2>3, <2>4, SeqEqual
<1>7. FlattenSeq(a \o b) = FlattenSeq(a) \o FlattenSeq(b)
  BY JoinedBoth
<1>8. FlattenSeq(a2 \o b2) = FlattenSeq(a2) \o FlattenSeq(b2)
  BY JoinedBoth
<1> QED BY <1>1, <1>3, <1>4, <1>5, <1>6, <1>7, <1>8, Zenon

LEMMA OnePiece ==
    ASSUME NEW p \in Stretch
    PROVE  /\ <<p>> \in Seq(Stretch)
           /\ p.rest \in Seq(Byte) /\ FlattenSeq(Rests(<<p>>)) = p.rest
           /\ p.msg \in Seq(Message) /\ FlattenSeq(Msgs(<<p>>)) = p.msg
<1>1. <<p>> \in Seq(Stretch) /\ Len(<<p>>) = 1 /\ <<p>>[1] = p
  OBVIOUS
<1>2. p.rest \in Seq(Byte) /\ p.msg \in Seq(Message)
  BY DEF Stretch
<1>3. DOMAIN <<p>> = 1 .. 1
  OBVIOUS
<1>4. Rests(<<p>>) = <<p.rest>> /\ Msgs(<<p>>) = <<p.msg>>
  BY <1>1, <1>3 DEF Rests, Msgs
<1>5. FlattenSeq(<<p.rest>>) = p.rest
  BY <1>2, JoinedOne, Zenon
<1>6. FlattenSeq(<<p.msg>>) = p.msg
  BY <1>2, JoinedOne, Zenon
<1> QED BY <1>1, <1>2, <1>4, <1>5, <1>6, Zenon

\* A sequence is its first item and the others, or its last item and those before it.
LEMMA FirstAndLast ==
    ASSUME NEW S, NEW s \in Seq(S), s # <<>>
    PROVE  /\ s[1] \in S /\ Tail(s) \in Seq(S) /\ s = <<s[1]>> \o Tail(s)
           /\ s[Len(s)] \in S /\ SubSeq(s, 1, Len(s) - 1) \in Seq(S)
           /\ Len(SubSeq(s, 1, Len(s) - 1)) = Len(s) - 1
           /\ \A k \in 1 .. Len(s) - 1 : SubSeq(s, 1, Len(s) - 1)[k] = s[k]
           /\ s = SubSeq(s, 1, Len(s) - 1) \o <<s[Len(s)]>>
<1>1. Len(s) \in Nat /\ Len(s) >= 1
  OBVIOUS
<1>2. s[1] \in S /\ Tail(s) \in Seq(S) /\ s = <<s[1]>> \o Tail(s)
  OBVIOUS
<1>3. /\ s[Len(s)] \in S /\ SubSeq(s, 1, Len(s) - 1) \in Seq(S)
      /\ Len(SubSeq(s, 1, Len(s) - 1)) = Len(s) - 1
      /\ \A k \in 1 .. Len(s) - 1 : SubSeq(s, 1, Len(s) - 1)[k] = s[k]
  <2>1. PICK n \in Nat : n = Len(s) - 1
    BY <1>1
  <2>2. /\ SubSeq(s, 1, n) \in Seq(S) /\ Len(SubSeq(s, 1, n)) = n
        /\ \A k \in 1 .. n : SubSeq(s, 1, n)[k] = s[k]
    BY <2>1
  <2>3. s[Len(s)] \in S
    BY <1>1
  <2> QED BY <2>1, <2>2, <2>3
<1>4. s = SubSeq(s, 1, Len(s) - 1) \o <<s[Len(s)]>>
  <2>1. PICK n \in Nat : n = Len(s) - 1 /\ n + 1 = Len(s)
    BY <1>1
  <2>2. SubSeq(s, 1, n + 1) = SubSeq(s, 1, n) \o <<s[n + 1]>>
    BY <2>1
  <2>3. SubSeq(s, 1, n + 1) = s
    BY <2>1
  <2> QED BY <2>1, <2>2, <2>3
<1> QED BY <1>2, <1>3, <1>4

\* A short write: the beginning of a message.
Beginning(x) == \E m \in Message : \E n \in 1 .. (Len(m) - 1) : x = SubSeq(m, 1, n)

LEMMA ShortWrite ==
    ASSUME NEW m \in Message, NEW n \in 1 .. (Len(m) - 1), NEW x, x = SubSeq(m, 1, n)
    PROVE  /\ x \in Seq(Byte) /\ Len(x) = n /\ Len(x) >= 1 /\ Len(x) < Len(m)
           /\ \A k \in 1 .. Len(x) : x[k] = m[k]
           /\ x[1] = MSG_START
<1>1. m \in Seq(Byte) /\ Len(m) \in Nat /\ m[1] = MSG_START
  BY MessageBytes
<1>2. /\ x \in Seq(Byte) /\ Len(x) = n
      /\ \A k \in 1 .. n : x[k] = m[k]
  BY <1>1
<1> QED BY <1>1, <1>2

\* Every piece begins with a start mark.
LEMMA PieceBegins ==
    ASSUME NEW p \in WholePiece \cup CutPiece
    PROVE  p \in Stretch /\ p.rest # <<>> /\ p.rest[1] = MSG_START
<1>1. CASE p \in WholePiece
  <2>1. p \in Stretch /\ p.rest \in Message
    BY <1>1, PieceType
  <2>2. Len(p.rest) >= 2 /\ p.rest[1] = MSG_START /\ p.rest \in Seq(Byte)
    BY <2>1, MessageBytes
  <2> QED BY <2>1, <2>2
<1>2. CASE p \in CutPiece
  <2>1. PICK m \in Message : \E n \in 1 .. (Len(m) - 1) : p.rest = SubSeq(m, 1, n)
    BY <1>2, PieceType
  <2>2. PICK n \in 1 .. (Len(m) - 1) : p.rest = SubSeq(m, 1, n)
    BY <2>1
  <2>3. p.rest \in Seq(Byte) /\ Len(p.rest) >= 1 /\ p.rest[1] = MSG_START
    <3>1. PICK x : x = p.rest
      OBVIOUS
    <3>2. x = SubSeq(m, 1, n)
      BY <2>2, <3>1
    <3>3. x \in Seq(Byte) /\ Len(x) >= 1 /\ x[1] = MSG_START
      BY <3>2, ShortWrite
    <3> QED BY <3>1, <3>3
  <2>4. p \in Stretch
    BY <1>2, PieceType
  <2> QED BY <2>3, <2>4
<1> QED BY <1>1, <1>2

-----------------------------------------------------------------------------
(***************************************************************************)
(* Reads that end where pieces end                                         *)
(***************************************************************************)

\* Every item of d is one of e, in the same order.
Embeds(d, e) ==
    \E at \in [DOMAIN d -> DOMAIN e] :
        /\ \A k \in DOMAIN d : e[at[k]] = d[k]
        /\ \A j, k \in DOMAIN d : j < k => at[j] < at[k]

\* What is due has been extracted, with nothing else if nothing is read behind a
\* short write.
Kept(r, d, e) == (r = "whole" /\ d = e) \/ (r = "mixed" /\ Embeds(d, e))

LEMMA EmbedsMore ==
    ASSUME NEW S, NEW d \in Seq(S), NEW e \in Seq(S), Embeds(d, e)
    PROVE  /\ \A x \in Seq(S) : Embeds(d \o x, e \o x)
           /\ \A x \in S : Embeds(d, Append(e, x))
<1>1. PICK at \in [1 .. Len(d) -> 1 .. Len(e)] :
          /\ \A k \in 1 .. Len(d) : e[at[k]] = d[k]
          /\ \A j, k \in 1 .. Len(d) : j < k => at[j] < at[k]
  <2>1. DOMAIN d = 1 .. Len(d) /\ DOMAIN e = 1 .. Len(e)
    OBVIOUS
  <2> QED BY <2>1, Zenon DEF Embeds
<1>2. Len(d) \in Nat /\ Len(e) \in Nat
  OBVIOUS
<1>3. ASSUME NEW x \in Seq(S) PROVE Embeds(d \o x, e \o x)
  <2>1. PICK dx, ex \in Seq(S) : dx = d \o x /\ ex = e \o x
    <3>1. d \o x \in Seq(S) /\ e \o x \in Seq(S)
      OBVIOUS
    <3> QED BY <3>1, Zenon
  <2>2. /\ Len(dx) = Len(d) + Len(x) /\ Len(ex) = Len(e) + Len(x) /\ Len(x) \in Nat
        /\ \A k \in 1 .. Len(d) : dx[k] = d[k]
        /\ \A k \in 1 .. Len(x) : dx[Len(d) + k] = x[k]
        /\ \A k \in 1 .. Len(e) : ex[k] = e[k]
        /\ \A k \in 1 .. Len(x) : ex[Len(e) + k] = x[k]
    BY <2>1
  <2> DEFINE to == [k \in 1 .. Len(dx) |-> IF k <= Len(d) THEN at[k] ELSE Len(e) + (k - Len(d))]
  <2>3. \A k \in 1 .. Len(d) : k \in 1 .. Len(dx) /\ to[k] = at[k] /\ at[k] \in 1 .. Len(e)
    <3> TAKE k \in 1 .. Len(d)
    <3>1. k \in 1 .. Len(dx) /\ k <= Len(d)
      BY <1>2, <2>2
    <3>2. to[k] = at[k]
      BY <3>1
    <3> HIDE DEF to
    <3> QED BY <3>1, <3>2
  <2>4. \A k \in 1 .. Len(dx) : k > Len(d) => /\ k - Len(d) \in 1 .. Len(x)
                                             /\ Len(d) + (k - Len(d)) = k
                                             /\ to[k] = Len(e) + (k - Len(d))
    BY <1>2, <2>2
  <2> HIDE DEF to
  <2>5. ASSUME NEW k \in 1 .. Len(dx) PROVE to[k] \in 1 .. Len(ex) /\ ex[to[k]] = dx[k]
    <3>1. CASE k <= Len(d)
      <4>1. k \in 1 .. Len(d) /\ to[k] = at[k] /\ at[k] \in 1 .. Len(e)
        BY <2>3, <3>1
      <4>2. ex[at[k]] = e[at[k]] /\ e[at[k]] = d[k] /\ dx[k] = d[k]
        BY <1>1, <2>2, <4>1
      <4> QED BY <1>2, <2>2, <4>1, <4>2
    <3>2. CASE k > Len(d)
      <4>1. PICK i \in 1 .. Len(x) : Len(d) + i = k /\ to[k] = Len(e) + i
        BY <2>4, <3>2
      <4>2. ex[Len(e) + i] = x[i] /\ dx[Len(d) + i] = x[i]
        BY <2>2
      <4> QED BY <1>2, <2>2, <4>1, <4>2
    <3> QED BY <1>2, <3>1, <3>2
  <2>6. ASSUME NEW j \in 1 .. Len(dx), NEW k \in 1 .. Len(dx), j < k PROVE to[j] < to[k]
    <3>1. CASE k <= Len(d)
      <4>1. j \in 1 .. Len(d) /\ k \in 1 .. Len(d)
        BY <2>6, <3>1
      <4> QED BY <1>1, <2>3, <2>6, <4>1
    <3>2. CASE j <= Len(d) /\ k > Len(d)
      <4>1. j \in 1 .. Len(d) /\ to[k] = Len(e) + (k - Len(d))
        BY <2>4, <3>2
      <4>2. to[j] \in 1 .. Len(e)
        BY <2>3, <4>1
      <4> QED BY <1>2, <3>2, <4>1, <4>2
    <3>3. CASE j > Len(d)
      <4>1. to[j] = Len(e) + (j - Len(d))
        BY <2>4, <3>3
      <4>2. k > Len(d)
        BY <1>2, <2>6, <3>3
      <4>3. to[k] = Len(e) + (k - Len(d))
        BY <2>4, <4>2
      <4> QED BY <1>2, <2>6, <4>1, <4>3
    <3> QED BY <1>2, <2>6, <3>1, <3>2, <3>3
  <2>7. DOMAIN dx = 1 .. Len(dx) /\ DOMAIN ex = 1 .. Len(ex)
    OBVIOUS
  <2>8. to \in [1 .. Len(dx) -> 1 .. Len(ex)]
    BY <2>5 DEF to
  <2>9. Embeds(dx, ex)
    BY <2>5, <2>6, <2>7, <2>8, Zenon DEF Embeds
  <2> QED BY <2>1, <2>9
<1>4. ASSUME NEW x \in S PROVE Embeds(d, Append(e, x))
  <2>1. PICK ex \in Seq(S) : ex = Append(e, x)
    <3>1. Append(e, x) \in Seq(S)
      OBVIOUS
    <3> QED BY <3>1, Zenon
  <2>2. Len(ex) = Len(e) + 1 /\ \A k \in 1 .. Len(e) : ex[k] = e[k]
    BY <2>1
  <2>3. \A k \in 1 .. Len(d) : at[k] \in 1 .. Len(ex) /\ ex[at[k]] = d[k]
    BY <1>1, <1>2, <2>2
  <2>4. DOMAIN d = 1 .. Len(d) /\ DOMAIN ex = 1 .. Len(ex)
    OBVIOUS
  <2>5. at \in [1 .. Len(d) -> 1 .. Len(ex)]
    BY <2>3
  <2>6. Embeds(d, ex)
    BY <1>1, <2>3, <2>4, <2>5, Zenon DEF Embeds
  <2> QED BY <2>1, <2>6
<1> QED BY <1>3, <1>4

LEMMA KeptMore ==
    ASSUME NEW r, NEW d \in Seq(Message), NEW e \in Seq(Seq(Byte)), Kept(r, d, e)
    PROVE  /\ \A x \in Seq(Message) : Kept(r, d \o x, e \o x)
           /\ \A x \in Seq(Byte) : r = "mixed" => Kept(r, d, Append(e, x))
<1>1. d \in Seq(Seq(Byte)) /\ \A x \in Seq(Message) : x \in Seq(Seq(Byte))
  BY MessagesJoined
<1>2. Embeds(d, e) => /\ \A x \in Seq(Seq(Byte)) : Embeds(d \o x, e \o x)
                      /\ \A x \in Seq(Byte) : Embeds(d, Append(e, x))
  BY <1>1, EmbedsMore, Zenon
<1> QED BY <1>1, <1>2, Zenon DEF Kept

\* The streams that are left to read.
Readable(r, s) ==
    /\ s \in Seq(WholePiece \cup CutPiece)
    /\ r = "mixed" => /\ s \in Seq(PlainPiece \cup CutPiece)
                      /\ \A j, k \in DOMAIN s : j < k /\ s[j].msg = <<>> => s[k].msg # <<>>

\* Every start mark is followed by a type.
Sound(b) == \A k \in 1 .. Len(b) : b[k] = MSG_START => Len(b) - k + 1 >= MIN_SIZE

\* What is read in whole pieces begins with a mark.
LEMMA ChunkBegins ==
    ASSUME NEW s \in Seq(WholePiece \cup CutPiece),
           NEW n, MayRead(s, n, 0), Chunk(s, n, 0) # <<>>
    PROVE  has_start_mark(Chunk(s, n, 0)) /\ n >= 1 /\ n \in Nat
<1>1. WholePiece \cup CutPiece \subseteq Stretch
  BY PieceType
<1>2. s \in Seq(Stretch)
  BY <1>1, SeqMonotonic
<1>3. PICK w \in Seq(Stretch) :
          w = SubSeq(s, 1, n) /\ Len(w) = n /\ \A k \in 1 .. n : w[k] = s[k]
  BY <1>2, ChunkRead, Zenon
<1>4. FlattenSeq(Rests(w)) \in Seq(Byte) /\ Chunk(s, n, 0) = FlattenSeq(Rests(w))
  <2>1. FlattenSeq(Rests(w)) \in Seq(Byte)
    BY PiecesRead
  <2>2. Chunk(s, n, 0) = FlattenSeq(Rests(w)) \o <<>>
    BY <1>3 DEF Chunk
  <2> QED BY <2>1, <2>2
<1>5. n \in Nat /\ n <= Len(s)
  BY DEF MayRead
<1>6. w # <<>>
  <2>1. ASSUME w = <<>> PROVE FALSE
    <3>1. Rests(w) = <<>>
      <4>1. Rests(w) \in Seq(Seq(Byte)) /\ Len(Rests(w)) = Len(w)
        BY PiecesRead
      <4> QED BY <2>1, <4>1
    <3>2. Rests(w) \in Seq(Seq(Byte))
      BY PiecesRead
    <3>3. FlattenSeq(Rests(w)) = <<>>
      BY <3>1, <3>2, JoinedType
    <3> QED BY <1>4, <3>3
  <2> QED BY <2>1
<1>7. n >= 1 /\ 1 \in 1 .. n /\ 1 \in 1 .. Len(s)
  BY <1>3, <1>5, <1>6
<1>8. PICK p \in WholePiece \cup CutPiece : p = s[1] /\ p = w[1]
  <2>1. s[1] \in WholePiece \cup CutPiece
    BY <1>7, ElementOfSeq
  <2> QED BY <1>3, <1>7, <2>1
<1>9. p \in Stretch /\ p.rest # <<>> /\ p.rest[1] = MSG_START
  BY PieceBegins
<1>10. PICK t \in Seq(Stretch) : w = <<p>> \o t
  BY <1>6, <1>8, FirstAndLast
<1>11. /\ <<p>> \in Seq(Stretch) /\ p.rest \in Seq(Byte)
       /\ FlattenSeq(Rests(<<p>>)) = p.rest /\ FlattenSeq(Rests(t)) \in Seq(Byte)
  BY <1>9, OnePiece, PiecesRead
<1>12. FlattenSeq(Rests(w)) = p.rest \o FlattenSeq(Rests(t))
  <2>1. PICK u \in Seq(Stretch) : u = <<p>>
    BY <1>11
  <2>2. FlattenSeq(Rests(u \o t)) = FlattenSeq(Rests(u)) \o FlattenSeq(Rests(t))
    BY PiecesJoined
  <2> QED BY <1>10, <1>11, <2>1, <2>2, Zenon
<1>13. PICK x, y \in Seq(Byte) : x = p.rest /\ y = FlattenSeq(Rests(t))
  BY <1>11
<1>14. (x \o y)[1] = MSG_START /\ x \o y # <<>>
  BY <1>9, <1>13
<1> QED BY <1>4, <1>5, <1>7, <1>12, <1>13, <1>14 DEF has_start_mark

\* Pieces that are messages: what they have left are the messages that they end.
LEMMA WholePieces ==
    ASSUME NEW M, M \subseteq Message, NEW v \in Seq(Stretch),
           \A k \in 1 .. Len(v) : v[k].rest \in M /\ v[k].msg = <<v[k].rest>>
    PROVE  \E ms \in Seq(M) : ms = Rests(v) /\ ms = FlattenSeq(Msgs(v))
<1>1. PICK ms \in Seq(M) :
          /\ ms = Rests(v) /\ Len(ms) = Len(v) /\ \A k \in 1 .. Len(v) : ms[k] = v[k].rest
  <2>1. /\ Rests(v) \in Seq(Seq(Byte)) /\ Len(Rests(v)) = Len(v)
        /\ \A k \in 1 .. Len(v) : Rests(v)[k] = v[k].rest
    BY PiecesRead
  <2>2. PICK x \in Seq(Seq(Byte)) : x = Rests(v)
    BY <2>1
  <2>3. x \in Seq(M)
    <3>1. PICK n \in Nat : n = Len(x)
      OBVIOUS
    <3>2. \A k \in 1 .. n : x[k] \in M
      BY <2>1, <2>2, <3>1
    <3>3. x = [k \in 1 .. n |-> x[k]]
      BY <3>1
    <3>4. [k \in 1 .. n |-> x[k]] \in [1 .. n -> M]
      BY <3>2
    <3>5. [1 .. n -> M] \subseteq Seq(M)
      OBVIOUS
    <3> QED BY <3>3, <3>4, <3>5
  <2> QED BY <2>1, <2>2, <2>3
<1>2. FlattenSeq(Msgs(v)) = ms
  <2>1. /\ Msgs(v) \in Seq(Seq(Message)) /\ Len(Msgs(v)) = Len(v)
        /\ \A k \in 1 .. Len(v) : Msgs(v)[k] = v[k].msg
    BY PiecesRead
  <2>2. PICK x \in Seq(Seq(Message)) : x = Msgs(v)
    BY <2>1
  <2>3. x = [k \in 1 .. Len(x) |-> x[k]] /\ Len(x) = Len(ms)
    BY <1>1, <2>1, <2>2
  <2>4. \A k \in 1 .. Len(ms) : x[k] = <<ms[k]>>
    BY <1>1, <2>1, <2>2
  <2>5. x = [k \in 1 .. Len(ms) |-> <<ms[k]>>]
    BY <2>3, <2>4, Zenon
  <2> QED BY <2>2, <2>5, JoinedSingles
<1> QED BY <1>1, <1>2

\* Whole pieces but for the last one: what is read are messages, and it may be the
\* beginning of one that has been cut.
LEMMA ChunkClean ==
    ASSUME NEW s \in Seq(WholePiece \cup CutPiece),
           NEW n, MayRead(s, n, 0), n >= 1, ~Behind(s, n)
    PROVE  \E ms \in Seq(Message), tail \in Seq(Byte) :
               /\ Chunk(s, n, 0) = FlattenSeq(ms) \o tail
               /\ tail = <<>> \/ Beginning(tail)
               /\ FlattenSeq(Msgs(SubSeq(s, 1, n))) = ms
<1>1. WholePiece \cup CutPiece \subseteq Stretch
  BY PieceType
<1>2. s \in Seq(Stretch) /\ n \in Nat /\ n <= Len(s) /\ Len(s) \in Nat
  <2>1. s \in Seq(Stretch)
    BY <1>1, SeqMonotonic
  <2> QED BY <2>1 DEF MayRead
<1>3. PICK w \in Seq(Stretch) :
          w = SubSeq(s, 1, n) /\ Len(w) = n /\ \A k \in 1 .. n : w[k] = s[k]
  BY <1>2, ChunkRead, Zenon
<1>4. PICK p, v : p = w[n] /\ v = SubSeq(w, 1, n - 1)
  OBVIOUS
<1>5. /\ p \in Stretch /\ v \in Seq(Stretch) /\ Len(v) = n - 1
      /\ \A k \in 1 .. n - 1 : v[k] = w[k]
      /\ w = v \o <<p>>
  <2>1. w # <<>>
    BY <1>2, <1>3
  <2>2. /\ w[Len(w)] \in Stretch /\ SubSeq(w, 1, Len(w) - 1) \in Seq(Stretch)
        /\ Len(SubSeq(w, 1, Len(w) - 1)) = Len(w) - 1
        /\ \A k \in 1 .. Len(w) - 1 : SubSeq(w, 1, Len(w) - 1)[k] = w[k]
        /\ w = SubSeq(w, 1, Len(w) - 1) \o <<w[Len(w)]>>
    BY <2>1, FirstAndLast
  <2> QED BY <1>3, <1>4, <2>2, Zenon
<1>6. p \in WholePiece \cup CutPiece
  <2>1. n \in 1 .. n /\ n \in 1 .. Len(s)
    BY <1>2
  <2>2. s[n] \in WholePiece \cup CutPiece
    BY <2>1, ElementOfSeq
  <2> QED BY <1>3, <1>4, <2>1, <2>2
<1>7. \A k \in 1 .. n - 1 : v[k].rest \in Message /\ v[k].msg = <<v[k].rest>>
  <2> TAKE k \in 1 .. n - 1
  <2>1. k \in 1 .. Len(s) /\ k \in 1 .. n
    BY <1>2
  <2>2. s[k] \in WholePiece \cup CutPiece /\ v[k] = s[k]
    BY <1>3, <1>5, <2>1, ElementOfSeq
  <2>3. s[k].msg # <<>>
    BY DEF Behind
  <2>4. v[k] \in WholePiece
    BY <2>2, <2>3, PieceType
  <2> QED BY <2>4, PieceType
<1>8. PICK ms \in Seq(Message) : ms = Rests(v) /\ ms = FlattenSeq(Msgs(v))
  BY <1>5, <1>7, WholePieces
<1>9. PICK u \in Seq(Stretch) :
          /\ u = <<p>> /\ FlattenSeq(Rests(u)) = p.rest /\ FlattenSeq(Msgs(u)) = p.msg
          /\ p.rest \in Seq(Byte) /\ p.msg \in Seq(Message)
  BY <1>5, OnePiece, Zenon
<1>10. /\ FlattenSeq(Rests(w)) = FlattenSeq(ms) \o p.rest
       /\ FlattenSeq(Msgs(w)) = ms \o p.msg
  <2>1. /\ FlattenSeq(Rests(v \o u)) = FlattenSeq(Rests(v)) \o FlattenSeq(Rests(u))
        /\ FlattenSeq(Msgs(v \o u)) = FlattenSeq(Msgs(v)) \o FlattenSeq(Msgs(u))
    BY <1>5, PiecesJoined
  <2> QED BY <1>5, <1>8, <1>9, <2>1, Zenon
<1>11. Chunk(s, n, 0) = FlattenSeq(Rests(w))
  <2>1. FlattenSeq(Rests(w)) \in Seq(Byte)
    BY PiecesRead
  <2>2. Chunk(s, n, 0) = FlattenSeq(Rests(w)) \o <<>>
    BY <1>3 DEF Chunk
  <2> QED BY <2>1, <2>2
<1>12. FlattenSeq(ms) \in Seq(Byte)
  BY MessagesJoined
<1>13. CASE p \in WholePiece
  <2>1. p.rest \in Message /\ p.msg = <<p.rest>>
    BY <1>13, PieceType
  <2>2. PICK m \in Message : m = p.rest /\ m \in Seq(Byte) /\ p.msg = <<m>>
    BY <2>1, MessageBytes
  <2>3. PICK all \in Seq(Message) : all = ms \o <<m>>
    <3>1. ms \o <<m>> \in Seq(Message)
      OBVIOUS
    <3> QED BY <3>1, Zenon
  <2>4. FlattenSeq(all) = FlattenSeq(ms) \o m
    <3>1. PICK one \in Seq(Seq(Byte)) : one = <<m>>
      <4>1. <<m>> \in Seq(Seq(Byte))
        BY <2>2
      <4> QED BY <4>1, Zenon
    <3>2. ms \in Seq(Seq(Byte))
      BY MessagesJoined
    <3>3. FlattenSeq(ms \o one) = FlattenSeq(ms) \o FlattenSeq(one)
      BY <3>2, JoinedBoth
    <3>4. FlattenSeq(<<m>>) = m
      BY <2>2, JoinedOne, Zenon
    <3> QED BY <2>3, <3>1, <3>3, <3>4, Zenon
  <2>5. FlattenSeq(all) \in Seq(Byte)
    BY MessagesJoined
  <2>6. Chunk(s, n, 0) = FlattenSeq(all) \o <<>>
    <3>1. FlattenSeq(all) \o <<>> = FlattenSeq(all)
      BY <2>5
    <3> QED BY <1>10, <1>11, <2>2, <2>4, <3>1, Zenon
  <2>7. FlattenSeq(Msgs(SubSeq(s, 1, n))) = all
    BY <1>3, <1>10, <2>2, <2>3, Zenon
  <2>8. <<>> \in Seq(Byte)
    OBVIOUS
  <2> QED BY <2>6, <2>7, <2>8, Zenon
<1>14. CASE p \in CutPiece
  <2>1. p.msg = <<>> /\ Beginning(p.rest)
    BY <1>14, PieceType DEF Beginning
  <2>2. ms \o <<>> = ms
    OBVIOUS
  <2>3. FlattenSeq(Msgs(SubSeq(s, 1, n))) = ms
    BY <1>3, <1>10, <2>1, <2>2, Zenon
  <2> QED BY <1>9, <1>10, <1>11, <2>1, <2>3, Zenon
<1> QED BY <1>6, <1>13, <1>14

\* A message that is read behind a short write ends in as many bytes as a type needs
\* without a start mark.
LEMMA ChunkSound ==
    ASSUME NEW s, Readable("mixed", s), NEW n, MayRead(s, n, 0), n >= 1, Behind(s, n)
    PROVE  Sound(Chunk(s, n, 0))
<1>1. /\ s \in Seq(WholePiece \cup CutPiece) /\ s \in Seq(PlainPiece \cup CutPiece)
      /\ \A j, k \in DOMAIN s : j < k /\ s[j].msg = <<>> => s[k].msg # <<>>
  BY DEF Readable
<1>2. WholePiece \cup CutPiece \subseteq Stretch
  BY PieceType
<1>3. s \in Seq(Stretch) /\ n \in Nat /\ n <= Len(s) /\ Len(s) \in Nat
  <2>1. s \in Seq(Stretch)
    BY <1>1, <1>2, SeqMonotonic
  <2> QED BY <2>1 DEF MayRead
<1>4. PICK w \in Seq(Stretch) :
          w = SubSeq(s, 1, n) /\ Len(w) = n /\ \A k \in 1 .. n : w[k] = s[k]
  BY <1>3, ChunkRead, Zenon
<1>5. PICK p, v : p = w[n] /\ v = SubSeq(w, 1, n - 1)
  OBVIOUS
<1>6. p \in Stretch /\ v \in Seq(Stretch) /\ w = v \o <<p>>
  <2>1. w # <<>>
    BY <1>3, <1>4
  <2> QED BY <1>4, <1>5, <2>1, FirstAndLast
<1>7. p.rest \in Plain
  <2>1. n \in 1 .. n /\ n \in 1 .. Len(s) /\ p = s[n]
    BY <1>3, <1>4, <1>5
  <2>2. s[n] \in PlainPiece \cup CutPiece
    BY <1>1, <2>1, ElementOfSeq
  <2>3. PICK k \in 1 .. (n - 1) : s[k].msg = <<>>
    BY DEF Behind
  <2>4. k \in DOMAIN s /\ n \in DOMAIN s /\ k < n
    BY <1>1, <1>3
  <2>5. s[n].msg # <<>>
    BY <1>1, <2>3, <2>4
  <2>6. p \in PlainPiece
    BY <2>1, <2>2, <2>5, PieceType
  <2> QED BY <2>6 DEF PlainPiece, Whole
<1>8. PICK u \in Seq(Stretch) :
          u = <<p>> /\ FlattenSeq(Rests(u)) = p.rest /\ p.rest \in Seq(Byte)
  BY <1>6, OnePiece, Zenon
<1>9. PICK m \in Seq(Byte) : m = p.rest /\ m \in Plain
  BY <1>7, <1>8
<1>10. PICK x \in Seq(Byte) : x = FlattenSeq(Rests(v))
  BY <1>6, PiecesRead
<1>11. FlattenSeq(Rests(w)) = x \o m
  <2>1. FlattenSeq(Rests(v \o u)) = FlattenSeq(Rests(v)) \o FlattenSeq(Rests(u))
    BY <1>6, PiecesJoined
  <2> QED BY <1>6, <1>8, <1>9, <1>10, <2>1, Zenon
<1>12. Chunk(s, n, 0) = x \o m
  <2>1. Chunk(s, n, 0) = FlattenSeq(Rests(w)) \o <<>>
    BY <1>4 DEF Chunk
  <2>2. (x \o m) \o <<>> = x \o m
    OBVIOUS
  <2> QED BY <1>11, <2>1, <2>2, Zenon
<1>13. /\ m \in Message /\ \A k \in 2 .. Len(m) : m[k] # MSG_START
       /\ Len(m) \in Nat /\ Len(m) >= MIN_SIZE /\ MIN_SIZE \in Nat
  BY <1>9, MessageBytes, BufferAssumption DEF Plain
<1>14. PICK c \in Seq(Byte) : c = x \o m
  <2>1. x \o m \in Seq(Byte)
    OBVIOUS
  <2> QED BY <2>1, Zenon
<1>15. /\ Len(c) = Len(x) + Len(m) /\ Len(x) \in Nat
       /\ \A k \in 1 .. Len(m) : c[Len(x) + k] = m[k]
  BY <1>14
<1>16. ASSUME NEW k \in 1 .. Len(c), c[k] = MSG_START PROVE Len(c) - k + 1 >= MIN_SIZE
  <2>1. CASE k <= Len(x)
    BY <1>13, <1>15, <2>1
  <2>2. CASE k > Len(x)
    <3>1. PICK i \in 1 .. Len(m) : k = Len(x) + i
      <4>1. k - Len(x) \in 1 .. Len(m) /\ k = Len(x) + (k - Len(x))
        BY <1>13, <1>15, <2>2
      <4> QED BY <4>1
    <3>2. m[i] = MSG_START
      BY <1>15, <1>16, <3>1
    <3>3. i \notin 2 .. Len(m)
      BY <1>13, <3>2
    <3>4. i = 1
      BY <1>13, <3>3
    <3> QED BY <1>13, <1>15, <3>1, <3>4
  <2> QED BY <1>15, <2>1, <2>2
<1> QED BY <1>12, <1>14, <1>16 DEF Sound

\* What a sequence that is joined of two has where.
LEMMA JoinedAt ==
    ASSUME NEW S, NEW a \in Seq(S), NEW b \in Seq(S), NEW x, x = a \o b
    PROVE  /\ x \in Seq(S) /\ Len(x) = Len(a) + Len(b)
           /\ \A k \in 1 .. Len(a) : x[k] = a[k]
           /\ \A k \in 1 .. Len(b) : x[Len(a) + k] = b[k]
OBVIOUS

\* Where two sequences are joined is known by the length of the first one.
LEMMA SameParts ==
    ASSUME NEW S, NEW a \in Seq(S), NEW b \in Seq(S), NEW c \in Seq(S), NEW d \in Seq(S)
    PROVE  a \o b = c \o d /\ Len(a) = Len(c) => a = c /\ b = d
<1>1. PICK x : x = a \o b
  OBVIOUS
<1>2. PICK y : y = c \o d
  OBVIOUS
<1>3. /\ x \in Seq(S) /\ Len(x) = Len(a) + Len(b)
      /\ \A k \in 1 .. Len(a) : x[k] = a[k]
      /\ \A k \in 1 .. Len(b) : x[Len(a) + k] = b[k]
  BY <1>1, JoinedAt
<1>4. /\ y \in Seq(S) /\ Len(y) = Len(c) + Len(d)
      /\ \A k \in 1 .. Len(c) : y[k] = c[k]
      /\ \A k \in 1 .. Len(d) : y[Len(c) + k] = d[k]
  BY <1>2, JoinedAt
<1>5. ASSUME x = y, Len(a) = Len(c) PROVE a = c /\ b = d
  <2>1. Len(a) \in Nat /\ Len(b) \in Nat /\ Len(c) \in Nat /\ Len(d) \in Nat
    BY LenProperties
  <2>2. Len(b) = Len(d)
    BY <1>3, <1>4, <1>5, <2>1
  <2>3. \A k \in 1 .. Len(a) : a[k] = c[k]
    BY <1>3, <1>4, <1>5, Zenon
  <2>4. \A k \in 1 .. Len(b) : b[k] = d[k]
    BY <1>3, <1>4, <1>5, <2>2, Zenon
  <2>5. a = c
    BY <1>5, <2>3, SeqEqual
  <2>6. b = d
    BY <2>2, <2>4, SeqEqual
  <2> QED BY <2>5, <2>6
<1>6. a \o b = c \o d => x = y
  BY <1>1, <1>2
<1> QED BY <1>5, <1>6

\* Types that are none.
LEMMA TypesApart ==
    ASSUME NEW b \in Seq(Byte)
    PROVE  /\ Headed(b) \/ Len(b) < MIN_SIZE => get_msg_type(b) # "INVALID"
           /\ Headed(b) => Len(b) >= MIN_SIZE /\ b[2] \in Type /\ DataSize[b[2]] \in Nat
<1>1. Len(b) \in Nat /\ MIN_SIZE \in Nat
  BY BufferAssumption
<1>2. Headed(b) => /\ ~(Len(b) < MIN_SIZE) /\ b[2] \in Type /\ b[2] # "INVALID"
                   /\ Len(b) >= MIN_SIZE /\ DataSize[b[2]] \in Nat
  BY <1>1, BufferAssumption DEF Headed
<1>3. CASE Headed(b)
  BY <1>2, <1>3, TypeOfBytes
<1>4. CASE ~Headed(b)
  <2>1. Len(b) < MIN_SIZE => get_msg_type(b) = "UNDEFINED"
    BY TypeOfBytes
  <2> QED BY <1>4, <2>1
<1> QED BY <1>3, <1>4

\* A message that is first, and the beginning of one that is alone.
LEMMA MessageFirst ==
    ASSUME NEW m \in Message, NEW rest \in Seq(Byte)
    PROVE  /\ m \o rest \in Seq(Byte) /\ Len(m \o rest) = Len(m) + Len(rest)
           /\ \A k \in 1 .. Len(m) : (m \o rest)[k] = m[k]
           /\ has_start_mark(m \o rest) /\ Headed(m \o rest) /\ (m \o rest)[2] = m[2]
           /\ new_reading_start(m \o rest) = m \o rest
<1>1. m \in Seq(Byte) /\ Len(m) \in Nat /\ Len(m) >= MIN_SIZE /\ Len(m) >= 2 /\ m[1] = MSG_START
  BY MessageBytes
<1>2. PICK b \in Seq(Byte) : b = m \o rest
  <2>1. m \o rest \in Seq(Byte)
    BY <1>1
  <2> QED BY <2>1, Zenon
<1>3. Len(b) = Len(m) + Len(rest) /\ \A k \in 1 .. Len(m) : b[k] = m[k]
  BY <1>1, <1>2
<1>4. MIN_SIZE \in Nat /\ \A k \in 1 .. MIN_SIZE : k \in 1 .. Len(m)
  BY <1>1, BufferAssumption
<1>5. Len(b) >= MIN_SIZE /\ b[1] = m[1] /\ b # <<>>
  BY <1>1, <1>3, <1>4
<1>6. Headed(b) /\ b[2] = m[2]
  <2>1. \A k \in 1 .. MIN_SIZE : k <= Len(b) => b[k] = m[k]
    BY <1>3, <1>4
  <2> QED BY <1>5, <2>1, BeginsLike
<1>7. has_start_mark(b)
  BY <1>1, <1>5 DEF has_start_mark
<1>8. new_reading_start(b) = b
  BY <1>6, <1>7, TypesApart, ReadingStart
<1> QED BY <1>2, <1>3, <1>6, <1>7, <1>8, Zenon

LEMMA BeginningAlone ==
    ASSUME NEW b, Beginning(b)
    PROVE  /\ b \in Seq(Byte) /\ b # <<>> /\ has_start_mark(b) /\ ~create_instance(b)
           /\ new_reading_start(b) = b
           /\ Len(b) < MIN_SIZE => before_mark(b, 2) = Len(b)
           /\ Headed(b) => Len(b) < DataSize[b[2]]
<1>1. PICK m \in Message : \E n \in 1 .. (Len(m) - 1) : b = SubSeq(m, 1, n)
  BY DEF Beginning
<1>2. PICK n \in 1 .. (Len(m) - 1) : b = SubSeq(m, 1, n)
  BY <1>1
<1>3. /\ b \in Seq(Byte) /\ Len(b) >= 1 /\ Len(b) < Len(m)
      /\ \A k \in 1 .. Len(b) : b[k] = m[k]
      /\ b[1] = MSG_START
  BY <1>2, ShortWrite
<1>4. /\ Headed(m) /\ Len(m) = DataSize[m[2]] /\ Len(m) \in Nat
      /\ Len(m) >= MIN_SIZE
  BY MessageBytes
<1>5. MIN_SIZE \in Nat /\ MIN_SIZE >= 2 /\ Len(b) \in Nat
  BY <1>3, BufferAssumption
<1>6. /\ Len(b) >= MIN_SIZE => Headed(b) /\ b[2] = m[2]
      /\ create_instance(b) => Len(b) = Len(m)
  <2>1. \A k \in 1 .. MIN_SIZE : k <= Len(b) => b[k] = m[k]
    BY <1>3, <1>5
  <2> QED BY <1>3, <2>1, BeginsLike
<1>7. has_start_mark(b) /\ b # <<>>
  BY <1>3 DEF has_start_mark
<1>8. new_reading_start(b) = b
  <2>1. Headed(b) \/ Len(b) < MIN_SIZE
    BY <1>5, <1>6
  <2> QED BY <1>3, <1>7, <2>1, TypesApart, ReadingStart
<1>9. ASSUME Len(b) < MIN_SIZE PROVE before_mark(b, 2) = Len(b)
  <2>1. ASSUME NEW k \in 2 .. Len(b) PROVE b[k] # MSG_START
    <3>1. b[k] = m[k] /\ k \in 2 .. MIN_SIZE
      BY <1>3, <1>5, <1>9
    <3>2. m[2] \in Type /\ \A i \in 3 .. MIN_SIZE : m[i] = ZERO
      BY <1>4 DEF Headed
    <3>3. MSG_START \notin Type /\ MSG_START # ZERO
      BY BufferAssumption
    <3>4. CASE k = 2
      BY <3>1, <3>2, <3>3, <3>4
    <3>5. CASE k # 2
      BY <1>5, <3>1, <3>2, <3>3, <3>5
    <3> QED BY <3>4, <3>5
  <2>2. 2 \in Nat /\ 2 >= 1
    OBVIOUS
  <2> QED BY <1>3, <2>1, <2>2, FirstMark
<1>10. Headed(b) => Len(b) < DataSize[b[2]]
  <2>1. Headed(b) => Len(b) >= MIN_SIZE
    BY <1>3, TypesApart
  <2> QED BY <1>3, <1>4, <1>6, <2>1
<1>11. ~create_instance(b)
  BY <1>3, <1>4, <1>6
<1> QED BY <1>3, <1>7, <1>8, <1>9, <1>10, <1>11

\* What is left of the beginning of a buffer: messages that have been read in full
\* and at most the beginning of another, all of which is due.
Clean(r, b, d, e) ==
    \E ms \in Seq(Message), tail \in Seq(Byte) :
        /\ b = FlattenSeq(ms) \o tail
        /\ tail = <<>> \/ Beginning(tail)
        /\ Kept(r, d, e \o ms)

\* The messages are due that have been extracted or lie in a clean buffer.  What is
\* read behind a short write is not due, and every mark in it has a type.
Ordinary == reads = "whole" \/ (reads = "mixed" /\ MixedAreCutOnce)

WholeReads ==
    /\ Readable(reads, stream)
    /\ pc # "crashed"
    /\ pc = "idle" => buf = <<>> /\ Kept(reads, due, extracted)
    /\ pc = "gain" => /\ to_extract_msg = null
                      /\ \/ Clean(reads, buf, due, extracted)
                         \/ reads = "mixed" /\ Sound(buf) /\ Kept(reads, due, extracted)

LEMMA InitWholeReads == Init /\ Ordinary => WholeReads
<1> SUFFICES ASSUME Init, Ordinary PROVE WholeReads
  OBVIOUS
<1>1. /\ reads \in DOMAIN Streams /\ stream \in Streams[reads]
      /\ buf = <<>> /\ extracted = <<>> /\ due = <<>> /\ pc = "idle"
  BY DEF Init
<1>2. stream \in Seq(WholePiece \cup CutPiece)
  BY <1>1, StreamAssumption
<1>3. ASSUME reads = "mixed"
      PROVE  /\ stream \in Seq(PlainPiece \cup CutPiece)
             /\ \A j, k \in DOMAIN stream : j < k /\ stream[j].msg = <<>> => stream[k].msg # <<>>
  <2>1. MixedAreCutOnce /\ reads \in DOMAIN Streams \cap {"mixed"}
    BY <1>1, <1>3 DEF Ordinary
  <2> QED BY <1>1, <2>1, Zenon DEF MixedAreCutOnce
<1>4. Embeds(<<>>, <<>>)
  <2> DEFINE none == [k \in {} |-> k]
  <2>1. DOMAIN <<>> = {}
    OBVIOUS
  <2>2. none \in [DOMAIN <<>> -> DOMAIN <<>>]
    BY <2>1
  <2> QED BY <2>1, <2>2 DEF Embeds
<1>5. Kept(reads, due, extracted)
  BY <1>1, <1>4 DEF Kept, Ordinary
<1> QED BY <1>1, <1>2, <1>3, <1>5 DEF WholeReads, Readable

\* The pieces behind those that are read are as they were.
LEMMA StillReadable ==
    ASSUME NEW r, NEW s, Readable(r, s), NEW n \in 0 .. Len(s)
    PROVE  Readable(r, From(s, n + 1))
<1>1. s \in Seq(WholePiece \cup CutPiece) /\ n \in Nat /\ n + 1 \in Nat /\ n + 1 >= 1
      /\ Len(s) \in Nat /\ n <= Len(s)
  BY DEF Readable
<1>2. PICK t \in Seq(WholePiece \cup CutPiece) : t = From(s, n + 1)
  BY <1>1, BytesFrom
<1>3. Len(t) = Len(s) - n /\ \A k \in 1 .. Len(s) - n : t[k] = s[n + k]
  BY <1>1, <1>2 DEF From
<1>4. ASSUME r = "mixed"
      PROVE  /\ t \in Seq(PlainPiece \cup CutPiece)
             /\ \A j, k \in DOMAIN t : j < k /\ t[j].msg = <<>> => t[k].msg # <<>>
  <2>1. /\ s \in Seq(PlainPiece \cup CutPiece)
        /\ \A j, k \in DOMAIN s : j < k /\ s[j].msg = <<>> => s[k].msg # <<>>
    BY <1>4 DEF Readable
  <2>2. t \in Seq(PlainPiece \cup CutPiece)
    BY <1>1, <1>2, <2>1, BytesFrom
  <2>3. ASSUME NEW j \in DOMAIN t, NEW k \in DOMAIN t, j < k, t[j].msg = <<>>
        PROVE  t[k].msg # <<>>
    <3>1. /\ j \in 1 .. Len(s) - n /\ k \in 1 .. Len(s) - n
          /\ n + j \in DOMAIN s /\ n + k \in DOMAIN s /\ n + j < n + k
      BY <1>1, <1>3, <2>3
    <3>2. t[j] = s[n + j] /\ t[k] = s[n + k]
      BY <1>3, <3>1
    <3> QED BY <2>1, <2>3, <3>1, <3>2
  <2> QED BY <2>2, <2>3
<1> QED BY <1>2, <1>4 DEF Readable

LEMMA ReadWholeReads ==
    ASSUME Types, Ordinary, WholeReads, NEW n, NEW j, MayRead(stream, n, j), Read(n, j)
    PROVE  WholeReads'
<1>1. /\ stream \in Seq(Stretch) /\ buf \in Seq(Byte) /\ to_extract_msg \in Seq(Byte)
      /\ extracted \in Seq(Seq(Byte)) /\ due \in Seq(Message)
  BY DEF Types
<1>2. Readable(reads, stream) /\ (reads = "whole" \/ reads = "mixed")
  BY DEF WholeReads, Ordinary
<1>3. PICK b : b = buf \o Chunk(stream, n, j)
  BY Zenon
<1>4. /\ pc = "idle" /\ Chunk(stream, n, j) # <<>>
      /\ Behind(stream, n) => reads = "mixed"
      /\ due' = IF Behind(stream, n) THEN due ELSE due \o FlattenSeq(Msgs(SubSeq(stream, 1, n)))
      /\ buf' = IF to_extract_msg = null /\ ~has_start_mark(b) THEN move_msg_to_start(b) ELSE b
      /\ to_extract_msg' = IF Abandons(b) THEN null ELSE to_extract_msg
      /\ pc' = IF buf' = <<>> THEN "idle" ELSE "gain"
      /\ reads' = reads /\ extracted' = extracted
  BY <1>1, <1>3, ReadStep, Zenon
<1>5. (j = 0 /\ stream' = From(stream, n + 1)) \/ reads = "split"
  BY <1>1, <1>3, ReadStep, Zenon
<1>6. j = 0 /\ buf = <<>> /\ Kept(reads, due, extracted)
  BY <1>2, <1>4, <1>5 DEF WholeReads
<1>7. stream' = From(stream, n + 1)
  BY <1>2, <1>5
<1>8. PICK c \in Seq(Byte) : c = Chunk(stream, n, 0)
  BY <1>1, <1>6, ChunkRead
<1>9. b = c
  <2>1. b = <<>> \o c
    BY <1>3, <1>6, <1>8
  <2> QED BY <2>1
<1>10. stream \in Seq(WholePiece \cup CutPiece) /\ n \in 0 .. Len(stream)
  BY <1>2 DEF Readable, MayRead
<1>11. has_start_mark(b) /\ n >= 1 /\ n \in Nat
  <2>1. MayRead(stream, n, 0) /\ Chunk(stream, n, 0) # <<>>
    BY <1>4, <1>6
  <2> QED BY <1>8, <1>9, <1>10, <2>1, ChunkBegins
<1>12. buf' = c /\ pc' = "gain" /\ to_extract_msg' = null
  <2>1. b # <<>>
    BY <1>11 DEF has_start_mark
  <2>2. buf' = b /\ pc' = "gain"
    BY <1>4, <1>11, <2>1
  <2>3. to_extract_msg' = null
    BY <1>4, <1>11 DEF Abandons
  <2> QED BY <1>9, <2>2, <2>3
<1>13. Readable(reads, From(stream, n + 1))
  BY <1>2, <1>10, StillReadable
<1>14. Readable(reads', stream')
  BY <1>4, <1>13, <1>7
<1>15. \/ Clean(reads', buf', due', extracted')
       \/ reads' = "mixed" /\ Sound(buf') /\ Kept(reads', due', extracted')
  <2>1. CASE Behind(stream, n)
    <3>1. reads = "mixed" /\ due' = due
      BY <1>4, <2>1
    <3>2. Readable("mixed", stream) /\ MayRead(stream, n, 0)
      BY <1>2, <1>6, <3>1
    <3>3. Sound(c)
      BY <1>8, <1>11, <2>1, <3>2, ChunkSound
    <3> QED BY <1>4, <1>6, <1>12, <3>1, <3>3
  <2>2. CASE ~Behind(stream, n)
    <3>1. MayRead(stream, n, 0)
      BY <1>6
    <3>2. PICK ms \in Seq(Message), tail \in Seq(Byte) :
              /\ c = FlattenSeq(ms) \o tail
              /\ tail = <<>> \/ Beginning(tail)
              /\ FlattenSeq(Msgs(SubSeq(stream, 1, n))) = ms
      BY <1>8, <1>10, <1>11, <2>2, <3>1, ChunkClean, Zenon
    <3>3. due' = due \o ms
      BY <1>4, <2>2, <3>2
    <3>4. Kept(reads, due \o ms, extracted \o ms)
      BY <1>1, <1>6, KeptMore
    <3>5. Kept(reads', due', extracted' \o ms)
      BY <1>4, <3>3, <3>4
    <3> QED BY <1>12, <3>2, <3>5, Zenon DEF Clean
  <2> QED BY <2>1, <2>2
<1> QED BY <1>12, <1>14, <1>15 DEF WholeReads

\* What is behind a start mark of a sound buffer is sound, and so is what is left of it.
LEMMA SoundFrom ==
    ASSUME NEW b \in Seq(Byte), Sound(b), NEW k \in Nat, k >= 1
    PROVE  /\ Sound(From(b, k))
           /\ k \in 1 .. Len(b) /\ b[k] = MSG_START => Len(From(b, k)) >= MIN_SIZE
<1>1. PICK c \in Seq(Byte) :
          /\ c = From(b, k)
          /\ Len(c) = IF k <= Len(b) THEN Len(b) - k + 1 ELSE 0
          /\ \A i \in 1 .. Len(b) - k + 1 : c[i] = b[k + i - 1]
  BY BytesFrom
<1>2. Len(b) \in Nat /\ MIN_SIZE \in Nat
  BY BufferAssumption
<1>3. ASSUME NEW i \in 1 .. Len(c), c[i] = MSG_START PROVE Len(c) - i + 1 >= MIN_SIZE
  <2>1. k <= Len(b) /\ Len(c) = Len(b) - k + 1 /\ i \in 1 .. Len(b) - k + 1
    BY <1>1, <1>2
  <2>2. b[k + i - 1] = MSG_START /\ k + i - 1 \in 1 .. Len(b)
    BY <1>1, <1>2, <1>3, <2>1
  <2>3. Len(b) - (k + i - 1) + 1 >= MIN_SIZE
    BY <2>2 DEF Sound
  <2> QED BY <1>2, <2>1, <2>3
<1>4. Sound(c)
  BY <1>3 DEF Sound
<1>5. ASSUME k \in 1 .. Len(b), b[k] = MSG_START PROVE Len(c) >= MIN_SIZE
  <2>1. Len(b) - k + 1 >= MIN_SIZE
    BY <1>5 DEF Sound
  <2> QED BY <1>1, <1>5, <2>1
<1> QED BY <1>1, <1>4, <1>5

\* A clean buffer is extracted message by message; the beginning of another one is
\* taken out of it.
LEMMA NewReadingClean ==
    ASSUME Types, Ordinary, WholeReads, NewReading, Clean(reads, buf, due, extracted)
    PROVE  WholeReads'
<1>1. \A a, b, c \in Seq(Byte) : (a \o b) \o c = a \o (b \o c)
  OBVIOUS
<1>2. \A a, b, c \in Seq(Seq(Byte)) : (a \o b) \o c = a \o (b \o c)
  OBVIOUS
<1>3. /\ buf \in Seq(Byte) /\ extracted \in Seq(Seq(Byte)) /\ due \in Seq(Message)
      /\ buf # <<>> /\ pc = "gain"
  BY DEF Types, NewReading
<1>4. /\ to_extract_msg = <<>> /\ reads' = reads /\ stream' = stream /\ due' = due
      /\ to_extract_msg \in Seq(Byte)
  BY <1>3, NewReadingStep DEF null, Types
<1>5. Readable(reads, stream)
  BY DEF WholeReads
<1>6. PICK ms \in Seq(Message), tail \in Seq(Byte) :
          /\ buf = FlattenSeq(ms) \o tail
          /\ tail = <<>> \/ Beginning(tail)
          /\ Kept(reads, due, extracted \o ms)
  BY DEF Clean
<1>7. new_reading_start(buf) = buf /\ has_start_mark(buf)
      /\ (ms # <<>> => Headed(buf) /\ buf[2] = ms[1][2])
      /\ (ms = <<>> => buf = tail /\ Beginning(tail))
  <2>1. CASE ms = <<>>
    <3>1. FlattenSeq(ms) = <<>>
      BY <2>1, MessagesJoined
    <3>2. buf = <<>> \o tail
      BY <1>6, <3>1
    <3>3. buf = tail
      BY <3>2
    <3>4. Beginning(buf)
      BY <1>3, <1>6, <3>3
    <3>5. new_reading_start(buf) = buf /\ has_start_mark(buf)
      BY <3>4, BeginningAlone
    <3> QED BY <2>1, <3>3, <3>4, <3>5
  <2>2. CASE ms # <<>>
    <3>1. /\ ms[1] \in Message /\ FlattenSeq(Tail(ms)) \in Seq(Byte)
          /\ FlattenSeq(ms) = ms[1] \o FlattenSeq(Tail(ms))
      BY <2>2, MessagesJoined
    <3>2. PICK m \in Message, x \in Seq(Byte) : m = ms[1] /\ x = FlattenSeq(Tail(ms))
      BY <3>1
    <3>3. m \in Seq(Byte)
      BY MessageBytes
    <3>4. (m \o x) \o tail = m \o (x \o tail) /\ x \o tail \in Seq(Byte)
      BY <3>3
    <3>5. buf = m \o (x \o tail)
      BY <1>6, <3>1, <3>2, <3>4
    <3>6. PICK rest \in Seq(Byte) : buf = m \o rest
      BY <3>4, <3>5
    <3>7. new_reading_start(m \o rest) = m \o rest /\ has_start_mark(m \o rest)
          /\ Headed(m \o rest) /\ (m \o rest)[2] = m[2]
      BY MessageFirst
    <3> QED BY <2>2, <3>2, <3>6, <3>7
  <2> QED BY <2>1, <2>2
<1>8. PICK size \in Nat, w \in 1 .. Len(buf) :
          /\ w <= size /\ Copy(buf, w, size)
          /\ \/ Len(buf) < MIN_SIZE /\ w = size /\ size = before_mark(buf, 2)
             \/ Headed(buf) /\ size = DataSize[buf[2]] /\ (w < size => w = Len(buf))
  <2>1. new_reading_start(buf) # <<>>
    BY <1>3, <1>7
  <2>2. PICK b \in Seq(Byte), size \in Nat : \E w \in 1 .. Len(b) :
            /\ b = new_reading_start(buf)
            /\ w <= size /\ Copy(b, w, size)
            /\ \/ Len(b) < MIN_SIZE /\ w = size /\ size = before_mark(b, 2)
               \/ Headed(b) /\ size = DataSize[b[2]] /\ (w < size => w = Len(b))
    BY <1>3, <2>1, NewReadingStep, Zenon
  <2>3. b = buf
    BY <1>7, <2>2, Zenon
  <2> QED BY <2>2, <2>3, Zenon
<1>9. w \in 0 .. Len(buf) /\ Len(buf) \in Nat
  BY <1>3
<1>10. PICK m, r \in Seq(Byte) : Copied(buf, w, size, m, r)
  BY <1>3, <1>4, <1>8, <1>9, CopyStep
<1>11. /\ Len(m) = readed + w /\ Len(r) = Len(buf) - w
       /\ m \o r = to_extract_msg \o buf
       /\ buf' = r
       /\ create_instance(m) =>
              /\ extracted' = Append(extracted, m) /\ to_extract_msg' = null
              /\ pc' = IF r = <<>> THEN "idle" ELSE "gain"
       /\ ~create_instance(m) => extracted' = extracted /\ pc' = "idle"
  BY <1>10 DEF Copied
<1>12. m \o r = buf /\ Len(m) = w
  <2>1. m \o r = <<>> \o buf
    BY <1>4, <1>11
  <2>2. <<>> \o buf = buf
    BY <1>3
  <2>3. readed = 0
    BY <1>4 DEF readed
  <2> QED BY <1>9, <1>11, <2>1, <2>2, <2>3
<1>13. CASE ms = <<>>
  <2>1. Beginning(buf) /\ MIN_SIZE \in Nat
    BY <1>7, <1>13, BufferAssumption
  <2>2. w = Len(buf)
    <3>1. /\ Len(buf) < MIN_SIZE => before_mark(buf, 2) = Len(buf)
          /\ Headed(buf) => Len(buf) < DataSize[buf[2]]
      BY <2>1, BeginningAlone
    <3> QED BY <1>8, <1>9, <3>1
  <2>3. r = <<>> /\ m = buf
    <3>1. r = <<>>
      BY <1>9, <1>11, <2>2
    <3>2. m \o <<>> = m
      OBVIOUS
    <3> QED BY <1>12, <3>1, <3>2
  <2>4. ~create_instance(m)
    BY <2>1, <2>3, BeginningAlone
  <2>5. buf' = <<>> /\ extracted' = extracted /\ pc' = "idle"
    BY <1>11, <2>3, <2>4
  <2>6. Kept(reads', due', extracted')
    <3>1. extracted \o ms = extracted
      BY <1>3, <1>13
    <3> QED BY <1>4, <1>6, <2>5, <3>1
  <2> QED BY <1>4, <1>5, <2>5, <2>6 DEF WholeReads
<1>14. CASE ms # <<>>
  <2>1. PICK first \in Message, others \in Seq(Message) :
            first = ms[1] /\ others = Tail(ms) /\ ms = <<first>> \o others
    BY <1>14, MessagesJoined
  <2>2. PICK x \in Seq(Byte) : x = FlattenSeq(others)
    BY MessagesJoined
  <2>3. FlattenSeq(ms) = first \o x
    BY <1>14, <2>1, <2>2, MessagesJoined
  <2>4. /\ first \in Seq(Byte) /\ Len(first) = DataSize[first[2]] /\ Len(first) \in Nat
        /\ Len(first) >= MIN_SIZE /\ MIN_SIZE \in Nat /\ create_instance(first)
    BY MessageBytes, BufferAssumption
  <2>5. PICK y \in Seq(Byte) : y = x \o tail
    <3>1. x \o tail \in Seq(Byte)
      OBVIOUS
    <3> QED BY <3>1, Zenon
  <2>6. buf = first \o y
    <3>1. (first \o x) \o tail = first \o (x \o tail)
      <4>1. PICK z \in Seq(Byte) : z = first
        BY <2>4
      <4>2. (z \o x) \o tail = z \o (x \o tail)
        BY <1>1, Zenon
      <4> QED BY <4>1, <4>2
    <3> QED BY <1>6, <2>3, <2>5, <3>1
  <2>7. Len(buf) = Len(first) + Len(y) /\ Len(y) \in Nat
    <3>1. PICK x0 \in Seq(Byte) : x0 = first
      BY <2>4
    <3>2. buf = x0 \o y
      BY <2>6, <3>1
    <3>3. Len(buf) = Len(x0) + Len(y)
      BY <3>2
    <3> QED BY <3>1, <3>3
  <2>8. w = Len(first)
    <3>1. Headed(buf) /\ size = DataSize[buf[2]] /\ (w < size => w = Len(buf))
      <4>1. ~(Len(buf) < MIN_SIZE)
        BY <2>4, <2>7
      <4> QED BY <1>8, <4>1
    <3>2. size = Len(first)
      BY <1>7, <1>14, <2>1, <2>4, <3>1
    <3> QED BY <1>8, <1>9, <2>7, <3>1, <3>2
  <2>9. m = first /\ r = y
    <3>1. m \o r = first \o y /\ Len(m) = Len(first)
      BY <1>12, <2>6, <2>8
    <3> QED BY <2>4, <3>1, SameParts
  <2>10. /\ buf' = y /\ extracted' = Append(extracted, first) /\ to_extract_msg' = null
         /\ pc' = IF y = <<>> THEN "idle" ELSE "gain"
    BY <1>11, <2>4, <2>9
  <2>11. Append(extracted, first) \o others = extracted \o ms
    <3>1. others \in Seq(Seq(Byte)) /\ <<first>> \in Seq(Seq(Byte))
      <4>1. others \in Seq(Seq(Byte))
        BY MessagesJoined
      <4>2. <<first>> \in Seq(Seq(Byte))
        BY <2>4
      <4> QED BY <4>1, <4>2
    <3>2. Append(extracted, first) = extracted \o <<first>>
      BY <1>3, <2>4
    <3>3. (extracted \o <<first>>) \o others = extracted \o (<<first>> \o others)
      <4>1. PICK one : one = <<first>>
        OBVIOUS
      <4>2. (extracted \o one) \o others = extracted \o (one \o others)
        BY <1>3, <1>2, <3>1, <4>1, Zenon
      <4> QED BY <4>1, <4>2, Zenon
    <3> QED BY <2>1, <3>2, <3>3, Zenon
  <2>12. Kept(reads', due', extracted' \o others)
    <3>1. extracted' \o others = extracted \o ms
      BY <2>10, <2>11, Zenon
    <3> QED BY <1>4, <1>6, <3>1, Zenon
  <2>13. buf' = FlattenSeq(others) \o tail
    BY <2>2, <2>5, <2>10
  <2>14. Clean(reads', buf', due', extracted')
    BY <1>6, <2>12, <2>13, Zenon DEF Clean
  <2>15. CASE y = <<>>
    <3>1. others = <<>>
      <4>1. x = <<>>
        <5>1. x # <<>> => x \o tail # <<>>
          OBVIOUS
        <5> QED BY <2>5, <2>15, <5>1
      <4>2. others # <<>> => FlattenSeq(others) # <<>>
        BY MessagesJoined
      <4> QED BY <2>2, <4>1, <4>2
    <3>2. extracted' \o others = extracted'
      <4>1. PICK e \in Seq(Seq(Byte)) : e = extracted'
        <5>1. Append(extracted, first) \in Seq(Seq(Byte))
          BY <1>3, <2>4
        <5> QED BY <2>10, <5>1
      <4>2. e \o <<>> = e
        OBVIOUS
      <4> QED BY <3>1, <4>1, <4>2, Zenon
    <3>3. Kept(reads', due', extracted')
      BY <2>12, <3>2, Zenon
    <3>4. buf' = <<>> /\ pc' = "idle"
      BY <2>10, <2>15
    <3> QED BY <1>4, <1>5, <3>3, <3>4 DEF WholeReads
  <2>16. CASE y # <<>>
    <3>1. pc' = "gain"
      BY <2>10, <2>16
    <3> QED BY <1>4, <1>5, <2>10, <2>14, <3>1 DEF WholeReads
  <2> QED BY <2>15, <2>16
<1> QED BY <1>13, <1>14

\* What is left of a buffer with a short write in it is dropped, or extracted as if
\* it were a message, or the end of the buffer is taken out of it.
LEMMA NewReadingSound ==
    ASSUME Types, Ordinary, WholeReads, NewReading,
           reads = "mixed", Sound(buf), Kept(reads, due, extracted)
    PROVE  WholeReads'
<1>1. /\ buf \in Seq(Byte) /\ extracted \in Seq(Seq(Byte)) /\ due \in Seq(Message)
  BY DEF Types
<1>2. /\ to_extract_msg = <<>> /\ reads' = reads /\ stream' = stream /\ due' = due
      /\ to_extract_msg \in Seq(Byte)
  BY <1>1, NewReadingStep DEF null, Types
<1>3. Readable(reads, stream)
  BY DEF WholeReads
<1>4. CASE new_reading_start(buf) = <<>>
  <2>1. buf' = <<>> /\ pc' = "idle" /\ extracted' = extracted
    BY <1>1, <1>4, NewReadingStep
  <2> QED BY <1>2, <1>3, <2>1 DEF WholeReads
<1>5. CASE new_reading_start(buf) # <<>>
  <2>1. PICK b \in Seq(Byte), size \in Nat : \E w \in 1 .. Len(b) :
            /\ b = new_reading_start(buf)
            /\ w <= size /\ Copy(b, w, size)
            /\ \/ Len(b) < MIN_SIZE /\ w = size /\ size = before_mark(b, 2)
               \/ Headed(b) /\ size = DataSize[b[2]] /\ (w < size => w = Len(b))
    BY <1>1, <1>5, NewReadingStep, Zenon
  <2>2. PICK w \in 1 .. Len(b) :
            /\ b = new_reading_start(buf)
            /\ w <= size /\ Copy(b, w, size)
            /\ \/ Len(b) < MIN_SIZE /\ w = size /\ size = before_mark(b, 2)
               \/ Headed(b) /\ size = DataSize[b[2]] /\ (w < size => w = Len(b))
    BY <2>1, Zenon
  <2>3. Sound(b) /\ Len(b) >= MIN_SIZE
    <3>1. StartsAt(buf, b)
      BY <1>1, <1>5, <2>2, ReadingStart, Zenon
    <3>2. PICK k \in 1 .. Len(buf) : b = From(buf, k) /\ buf[k] = MSG_START
      BY <3>1 DEF StartsAt
    <3>3. k \in Nat /\ k >= 1
      OBVIOUS
    <3> QED BY <1>1, <3>2, <3>3, SoundFrom
  <2>4. Len(b) \in Nat /\ MIN_SIZE \in Nat /\ MIN_SIZE >= 2 /\ w \in 0 .. Len(b)
    BY BufferAssumption
  <2>5. Headed(b) /\ size = DataSize[b[2]] /\ (w < size => w = Len(b)) /\ w <= size
        /\ size >= MIN_SIZE
    <3>1. Headed(b) /\ size = DataSize[b[2]] /\ (w < size => w = Len(b)) /\ w <= size
      BY <2>2, <2>3, <2>4
    <3>2. b[2] \in Type
      BY <3>1 DEF Headed
    <3> QED BY <3>1, <3>2, BufferAssumption
  <2>6. PICK m, r \in Seq(Byte) : Copied(b, w, size, m, r)
    BY <1>2, <2>2, <2>4, CopyStep
  <2>7. /\ m = to_extract_msg \o SubSeq(b, 1, w)
        /\ r = From(b, w + 1) /\ Len(r) = Len(b) - w
        /\ buf' = r
        /\ create_instance(m) =>
               /\ extracted' = Append(extracted, m) /\ to_extract_msg' = null
               /\ pc' = IF r = <<>> THEN "idle" ELSE "gain"
        /\ ~create_instance(m) => extracted' = extracted /\ pc' = "idle"
    BY <2>6 DEF Copied
  <2>8. Len(m) = w /\ \A k \in 1 .. w : m[k] = b[k]
    <3>1. m = <<>> \o SubSeq(b, 1, w)
      BY <1>2, <2>7
    <3>2. m = SubSeq(b, 1, w)
      BY <3>1
    <3> QED BY <3>2
  <2>9. CASE create_instance(m)
    <3>1. /\ buf' = r /\ extracted' = Append(extracted, m) /\ to_extract_msg' = null
          /\ pc' = IF r = <<>> THEN "idle" ELSE "gain"
      BY <2>7, <2>9
    <3>2. Sound(r)
      <4>1. w + 1 \in Nat /\ w + 1 >= 1
        OBVIOUS
      <4> QED BY <2>3, <2>7, <4>1, SoundFrom
    <3>3. Kept(reads', due', extracted')
      <4>1. Kept(reads, due, Append(extracted, m))
        BY <1>1, KeptMore
      <4> QED BY <1>2, <3>1, <4>1
    <3>4. CASE r = <<>>
      <4>1. buf' = <<>> /\ pc' = "idle"
        BY <3>1, <3>4
      <4> QED BY <1>2, <1>3, <3>3, <4>1 DEF WholeReads
    <3>5. CASE r # <<>>
      <4>1. buf' = r /\ pc' = "gain" /\ to_extract_msg' = null
        BY <3>1, <3>5
      <4> QED BY <1>2, <1>3, <3>2, <3>3, <4>1 DEF WholeReads
    <3> QED BY <3>4, <3>5
  <2>10. CASE ~create_instance(m)
    <3>1. w = Len(b)
      <4>1. CASE w = size
        <5>1. \A k \in 1 .. MIN_SIZE : k \in 1 .. w
          BY <2>4, <2>5, <4>1
        <5>2. Headed(m) /\ m[2] = b[2]
          BY <2>4, <2>5, <2>8, <4>1, <5>1 DEF Headed
        <5>3. create_instance(m)
          BY <2>5, <2>8, <4>1, <5>2, TypeOfBytes
        <5> QED BY <2>10, <5>3
      <4>2. CASE w # size
        BY <2>4, <2>5, <4>2
      <4> QED BY <4>1, <4>2
    <3>2. r = <<>>
      BY <2>4, <2>7, <3>1
    <3>3. buf' = <<>> /\ extracted' = extracted /\ pc' = "idle"
      BY <2>7, <2>10, <3>2
    <3> QED BY <1>2, <1>3, <3>3 DEF WholeReads
  <2> QED BY <2>9, <2>10
<1> QED BY <1>4, <1>5

\* The way of reading stays.
LEMMA StepKeepsReads ==
    ASSUME [Next]_vars, stream \in Seq(Stretch)
    PROVE  reads' = reads
<1>1. ASSUME NEW n, NEW j, Read(n, j) PROVE reads' = reads
  BY <1>1 DEF Read
<1>2. NewReading => reads' = reads
  BY DEF NewReading
<1>3. ASSUME NEW size, FinishingReading(size) PROVE reads' = reads
  BY <1>3 DEF FinishingReading
<1> QED BY <1>1, <1>2, <1>3, StepIs, Zenon DEF vars

WholeInv == Ordinary => WholeReads

LEMMA StepWholeInv == Types /\ WholeInv /\ [Next]_vars => WholeInv'
<1> SUFFICES ASSUME Types, WholeInv, [Next]_vars, Ordinary' PROVE WholeReads'
  BY DEF WholeInv
<1>1. stream \in Seq(Stretch) /\ buf \in Seq(Byte)
  BY DEF Types
<1>2. reads' = reads
  BY <1>1, StepKeepsReads
<1>3. Ordinary
  BY <1>2 DEF Ordinary
<1>4. WholeReads
  BY <1>3 DEF WholeInv
<1>5. ASSUME NEW n, NEW j, MayRead(stream, n, j), Read(n, j) PROVE WholeReads'
  BY <1>3, <1>4, <1>5, ReadWholeReads
<1>6. CASE NewReading
  <2>1. pc = "gain"
    BY <1>6 DEF NewReading
  <2>2. \/ Clean(reads, buf, due, extracted)
        \/ reads = "mixed" /\ Sound(buf) /\ Kept(reads, due, extracted)
    BY <1>4, <2>1 DEF WholeReads
  <2> QED BY <1>3, <1>4, <1>6, <2>2, NewReadingClean, NewReadingSound
<1>7. ASSUME NEW size, FinishingReading(size) PROVE WholeReads'
  <2>1. pc = "gain" /\ to_extract_msg # null
    BY <1>7 DEF FinishingReading
  <2> QED BY <1>4, <2>1 DEF WholeReads
<1>8. CASE UNCHANGED vars
  BY <1>4, <1>8 DEF vars, WholeReads
<1> QED BY <1>1, <1>5, <1>6, <1>7, <1>8, StepIs, Zenon

LEMMA WholeInvHolds == Spec => [](Types /\ WholeInv)
<1>1. Init => Types /\ WholeInv
  BY InitTypes, InitWholeReads DEF WholeInv
<1>2. Types /\ WholeInv /\ [Next]_vars => Types' /\ WholeInv'
  BY StepTypes, StepWholeInv
<1> QED BY <1>1, <1>2, PTL DEF Spec

\* Where reads end where pieces end, every message that has been read in full is
\* extracted by _gain_msg, whole and in order, and nothing else is.
THEOREM EverythingExtracted == Spec => []AllExtracted
<1>1. Types /\ WholeInv => AllExtracted
  <2> SUFFICES ASSUME Types, WholeInv, Quiet, reads = "whole" PROVE extracted = due
    BY DEF AllExtracted
  <2>1. WholeReads
    BY DEF WholeInv, Ordinary
  <2>2. Kept(reads, due, extracted)
    BY <2>1 DEF WholeReads, Quiet
  <2> QED BY <2>2 DEF Kept
<1> QED BY <1>1, WholeInvHolds, PTL

\* A single short write costs no more than what is read together with it: every
\* message of a later read is extracted, in order, where no byte of a message but its
\* first looks like a start mark.
THEOREM ReadsResynchronise ==
    ASSUME MixedAreCutOnce
    PROVE  Spec => []Resynchronises
<1>1. Types /\ WholeInv => Resynchronises
  <2> SUFFICES ASSUME Types, WholeInv, Quiet, reads # "split" PROVE Embeds(due, extracted)
    BY DEF Resynchronises, Embeds
  <2>1. reads = "whole" \/ reads = "mixed"
    BY BufferAssumption DEF Types
  <2>2. WholeReads
    BY <2>1 DEF WholeInv, Ordinary
  <2>3. Kept(reads, due, extracted)
    BY <2>2 DEF WholeReads, Quiet
  <2>4. CASE due = extracted
    <3>1. due \in Seq(Message)
      BY DEF Types
    <3> DEFINE same == [k \in DOMAIN due |-> k]
    <3>2. same \in [DOMAIN due -> DOMAIN extracted]
      BY <2>4
    <3>3. /\ \A k \in DOMAIN due : extracted[same[k]] = due[k]
          /\ \A j, k \in DOMAIN due : j < k => same[j] < same[k]
      BY <2>4
    <3> QED BY <3>2, <3>3, Zenon DEF Embeds
  <2> QED BY <2>3, <2>4 DEF Kept
<1> QED BY <1>1, WholeInvHolds, PTL

-----------------------------------------------------------------------------
(***************************************************************************)
(* Reads that end anywhere                                                 *)
(***************************************************************************)

\* The bytes that have been read of the message that the stream goes on with.
Ahead(part, s) ==
    IF s = <<>> THEN part = <<>>
    ELSE /\ part \o s[1].rest \in Plain
         /\ s[1].msg = <<part \o s[1].rest>>
         /\ s[1].rest # <<>>

\* What is allocated for a message is its size, once there are enough bytes to tell.
Sized(m, size) == size < MIN_SIZE \/ (Headed(m) /\ size = DataSize[m[2]])

\* The bytes x that have not been extracted are messages, and part of another one;
\* the messages are due.
Line(ms, part, s, x, d, e) ==
    /\ x = FlattenSeq(ms) \o part
    /\ d = e \o ms
    /\ Ahead(part, s)

\* The message that the next bytes x belong to, and what follows it.
Foremost(ms, part, x, first, rest) ==
    /\ \A k \in 1 .. Len(x) : k <= Len(first) => x[k] = first[k]
    /\ ms # <<>> => /\ first = ms[1] /\ x = first \o rest
                    /\ rest = FlattenSeq(Tail(ms)) \o part
    /\ ms = <<>> => Len(x) < Len(first)

\* The next bytes belong to a message in which only the first is a start mark.
LEMMA FirstOf ==
    ASSUME NEW ms \in Seq(Plain), NEW part \in Seq(Byte), NEW s \in Seq(Stretch),
           NEW x \in Seq(Byte), x # <<>>, NEW d, NEW e, Line(ms, part, s, x, d, e)
    PROVE  \E first \in Plain, rest \in Seq(Byte) : Foremost(ms, part, x, first, rest)
<1>1. \A a, b, c \in Seq(Byte) : (a \o b) \o c = a \o (b \o c)
  OBVIOUS
<1>2. x = FlattenSeq(ms) \o part /\ Ahead(part, s)
  BY DEF Line
<1>3. Plain \subseteq Message /\ ms \in Seq(Message)
  <2>1. Plain \subseteq Message
    BY DEF Plain
  <2> QED BY <2>1, SeqMonotonic
<1>4. CASE ms = <<>>
  <2>1. x = part
    <3>1. FlattenSeq(ms) = <<>>
      BY <1>3, <1>4, MessagesJoined
    <3>2. x = <<>> \o part
      BY <1>2, <3>1
    <3> QED BY <3>2
  <2>2. s # <<>> /\ part \o s[1].rest \in Plain /\ s[1].rest # <<>>
    BY <1>2, <2>1 DEF Ahead
  <2>3. s[1] \in Stretch
    BY <2>2, FirstAndLast
  <2>4. PICK y \in Seq(Byte) : y = s[1].rest
    BY <2>3 DEF Stretch
  <2>5. PICK first \in Plain : first = part \o y
    BY <2>2, <2>4
  <2>6. /\ Len(first) = Len(part) + Len(y)
        /\ \A k \in 1 .. Len(part) : first[k] = part[k]
    BY <2>5, JoinedAt
  <2>7. Len(y) \in Nat /\ Len(y) # 0 /\ Len(x) \in Nat
    BY <2>2, <2>4
  <2>8. Len(x) < Len(first) /\ \A k \in 1 .. Len(x) : x[k] = first[k]
    BY <2>1, <2>6, <2>7
  <2> QED BY <1>4, <2>4, <2>8, Zenon DEF Foremost
<1>5. CASE ms # <<>>
  <2>1. /\ ms[1] \in Plain /\ FlattenSeq(Tail(ms)) \in Seq(Byte)
        /\ FlattenSeq(ms) = ms[1] \o FlattenSeq(Tail(ms))
    BY <1>3, <1>5, MessagesJoined, FirstAndLast
  <2>2. PICK first \in Seq(Byte), y \in Seq(Byte) :
            first = ms[1] /\ y = FlattenSeq(Tail(ms)) /\ first \in Plain
    <3>1. ms[1] \in Seq(Byte)
      BY <1>3, <2>1, MessageBytes
    <3> QED BY <2>1, <3>1
  <2>3. PICK rest \in Seq(Byte) : rest = y \o part
    <3>1. y \o part \in Seq(Byte)
      OBVIOUS
    <3> QED BY <3>1, Zenon
  <2>4. x = first \o rest
    <3>1. (first \o y) \o part = first \o (y \o part)
      BY <1>1, Zenon
    <3> QED BY <1>2, <2>1, <2>2, <2>3, <3>1
  <2>5. \A k \in 1 .. Len(first) : x[k] = first[k]
    BY <2>4, JoinedAt
  <2>6. \A k \in 1 .. Len(x) : k <= Len(first) => x[k] = first[k]
    BY <2>5
  <2> QED BY <1>5, <2>2, <2>3, <2>4, <2>6, Zenon DEF Foremost
<1> QED BY <1>4, <1>5

\* What has been read of a message that is not complete is less than the message.
LEMMA Unfinished ==
    ASSUME NEW t \in Seq(Byte), NEW size \in Nat, NEW first \in Plain,
           \A k \in 1 .. Len(t) : k <= Len(first) => t[k] = first[k],
           Len(t) <= size, Sized(t, size), ~create_instance(t)
    PROVE  Len(t) < Len(first)
<1>1. /\ first \in Message /\ Len(first) \in Nat /\ Len(first) >= MIN_SIZE
      /\ Len(first) = DataSize[first[2]]
      /\ MIN_SIZE \in Nat /\ MIN_SIZE >= 2 /\ Len(t) \in Nat
  BY MessageBytes, BufferAssumption DEF Plain
<1>2. Len(t) >= MIN_SIZE => Headed(t) /\ t[2] = first[2]
  <2>1. \A k \in 1 .. MIN_SIZE : k <= Len(t) => t[k] = first[k]
    BY <1>1
  <2> QED BY <1>1, <2>1, BeginsLike
<1>3. CASE Len(t) < MIN_SIZE
  BY <1>1, <1>3
<1>4. CASE Len(t) >= MIN_SIZE
  <2>1. size = Len(first)
    BY <1>1, <1>2, <1>4 DEF Sized
  <2>2. Len(t) # DataSize[t[2]]
    BY <1>2, <1>4, TypeOfBytes
  <2> QED BY <1>1, <1>2, <1>4, <2>1, <2>2
<1> QED BY <1>1, <1>3, <1>4

\* Whole pieces are the messages that they end, with what had been read of the first.
LEMMA PiecesSplit ==
    ASSUME NEW s \in Seq(Stretch), \A k \in 2 .. Len(s) : s[k] \in PlainPiece,
           NEW part \in Seq(Byte), Ahead(part, s), NEW n \in 0 .. Len(s)
    PROVE  \E new \in Seq(Plain), p1 \in Seq(Byte) :
               /\ part \o FlattenSeq(Rests(SubSeq(s, 1, n))) = FlattenSeq(new) \o p1
               /\ FlattenSeq(Msgs(SubSeq(s, 1, n))) = new
               /\ Ahead(p1, From(s, n + 1))
<1>1. \A a, b, c \in Seq(Byte) : (a \o b) \o c = a \o (b \o c)
  OBVIOUS
<1>2. Plain \subseteq Message /\ n \in Nat /\ Len(s) \in Nat
  BY DEF Plain
<1>3. PICK w \in Seq(Stretch) :
          w = SubSeq(s, 1, n) /\ Len(w) = n /\ \A k \in 1 .. n : w[k] = s[k]
  <2>1. MayRead(s, n, 0)
    BY DEF MayRead
  <2> QED BY <2>1, ChunkRead, Zenon
<1>4. CASE n = 0
  <2>1. w = <<>> /\ Rests(w) = <<>> /\ Msgs(w) = <<>>
    <3>1. Rests(w) \in Seq(Seq(Byte)) /\ Msgs(w) \in Seq(Seq(Message)) /\ Len(Rests(w)) = 0 /\ Len(Msgs(w)) = 0
      BY <1>3, <1>4, PiecesRead
    <3> QED BY <1>3, <1>4, <3>1
  <2>2. FlattenSeq(Rests(w)) = <<>> /\ FlattenSeq(Msgs(w)) = <<>>
    <3>1. Rests(w) \in Seq(Seq(Byte)) /\ Msgs(w) \in Seq(Seq(Message))
      BY PiecesRead
    <3> QED BY <2>1, <3>1, JoinedType
  <2>3. FlattenSeq(<<>>) = <<>> /\ <<>> \in Seq(Plain)
    <3>1. <<>> \in Seq(Message) /\ <<>> \in Seq(Plain)
      OBVIOUS
    <3> QED BY <3>1, MessagesJoined
  <2>4. part \o <<>> = <<>> \o part
    OBVIOUS
  <2>5. From(s, n + 1) = s
    BY <1>4 DEF From
  <2> QED BY <1>3, <2>2, <2>3, <2>4, <2>5, Zenon
<1>5. CASE n # 0
  <2>1. n >= 1 /\ w # <<>> /\ s # <<>>
    BY <1>2, <1>3, <1>5
  <2>2. PICK p \in Stretch, v \in Seq(Stretch) : p = w[1] /\ v = Tail(w) /\ w = <<p>> \o v
    <3>1. w[1] \in Stretch /\ Tail(w) \in Seq(Stretch) /\ w = <<w[1]>> \o Tail(w)
      BY <2>1, FirstAndLast
    <3> QED BY <3>1, Zenon
  <2>3. p = s[1] /\ Len(v) = n - 1 /\ \A k \in 1 .. n - 1 : v[k] = s[k + 1]
    <3>1. p = s[1]
      BY <1>3, <2>1, <2>2
    <3>2. Len(v) = n - 1 /\ \A k \in 1 .. n - 1 : v[k] = w[k + 1]
      BY <1>3, <2>1, <2>2
    <3>3. \A k \in 1 .. n - 1 : w[k + 1] = s[k + 1]
      BY <1>2, <1>3
    <3> QED BY <3>1, <3>2, <3>3
  <2>4. \A k \in 1 .. Len(v) : v[k].rest \in Plain /\ v[k].msg = <<v[k].rest>>
    <3> TAKE k \in 1 .. Len(v)
    <3>1. v[k] \in PlainPiece
      BY <1>2, <2>3
    <3> QED BY <3>1 DEF PlainPiece, Whole
  <2>5. PICK vs \in Seq(Plain) : vs = Rests(v) /\ vs = FlattenSeq(Msgs(v))
    BY <1>2, <2>4, WholePieces
  <2>6. /\ part \o p.rest \in Plain /\ p.msg = <<part \o p.rest>>
    BY <2>1, <2>3 DEF Ahead
  <2>7. PICK m \in Seq(Byte) : m = part \o p.rest /\ m \in Plain
    <3>1. part \o p.rest \in Seq(Byte)
      BY <1>2, <2>6, MessageBytes
    <3> QED BY <2>6, <3>1, Zenon
  <2>8. PICK u \in Seq(Stretch) :
            /\ u = <<p>> /\ FlattenSeq(Rests(u)) = p.rest /\ FlattenSeq(Msgs(u)) = p.msg
            /\ p.rest \in Seq(Byte)
    BY OnePiece, Zenon
  <2>9. /\ FlattenSeq(Rests(w)) = p.rest \o FlattenSeq(vs)
        /\ FlattenSeq(Msgs(w)) = <<m>> \o vs
    <3>1. /\ FlattenSeq(Rests(u \o v)) = FlattenSeq(Rests(u)) \o FlattenSeq(Rests(v))
          /\ FlattenSeq(Msgs(u \o v)) = FlattenSeq(Msgs(u)) \o FlattenSeq(Msgs(v))
      BY PiecesJoined
    <3>2. p.msg = <<m>>
      BY <2>6, <2>7
    <3> QED BY <2>2, <2>5, <2>8, <3>1, <3>2, Zenon
  <2>10. PICK new \in Seq(Plain) : new = <<m>> \o vs
    <3>1. <<m>> \o vs \in Seq(Plain)
      BY <2>7
    <3> QED BY <3>1, Zenon
  <2>11. new # <<>> /\ new[1] = m /\ Tail(new) = vs
    BY <2>7, <2>10
  <2>12. new \in Seq(Message) /\ vs \in Seq(Message)
    BY <1>2, SeqMonotonic
  <2>13. FlattenSeq(new) = m \o FlattenSeq(vs)
    BY <2>11, <2>12, MessagesJoined
  <2>14. PICK x, y \in Seq(Byte) : x = p.rest /\ y = FlattenSeq(vs)
    BY <2>8, <2>12, MessagesJoined
  <2>15. part \o FlattenSeq(Rests(w)) = FlattenSeq(new)
    <3>1. (part \o x) \o y = part \o (x \o y)
      BY <1>1, Zenon
    <3> QED BY <2>7, <2>9, <2>13, <2>14, <3>1, Zenon
  <2>16. FlattenSeq(new) \o <<>> = FlattenSeq(new) /\ <<>> \in Seq(Byte)
    <3>1. FlattenSeq(new) \in Seq(Byte)
      BY <2>12, MessagesJoined
    <3> QED BY <3>1
  <2>17. Ahead(<<>>, From(s, n + 1))
    <3>1. PICK t \in Seq(Stretch) :
              /\ t = From(s, n + 1) /\ Len(t) = Len(s) - n
              /\ \A k \in 1 .. Len(s) - n : t[k] = s[n + k]
      <4>1. MayRead(s, n, 0)
        BY DEF MayRead
      <4> QED BY <4>1, ChunkRead, Zenon
    <3>2. CASE t = <<>>
      BY <3>1, <3>2 DEF Ahead
    <3>3. CASE t # <<>>
      <4>1. t[1] = s[n + 1] /\ n + 1 \in 2 .. Len(s)
        BY <1>2, <2>1, <3>1, <3>3
      <4>2. PICK q \in Plain : t[1].rest = q /\ t[1].msg = <<q>>
        BY <4>1 DEF PlainPiece, Whole
      <4>3. q \in Seq(Byte) /\ Len(q) >= 2
        BY <1>2, MessageBytes
      <4>4. <<>> \o q = q /\ q # <<>>
        BY <4>3
      <4> QED BY <3>1, <3>3, <4>2, <4>4 DEF Ahead
    <3> QED BY <3>2, <3>3
  <2> QED BY <1>3, <2>9, <2>10, <2>15, <2>16, <2>17, Zenon
<1> QED BY <1>4, <1>5

\* Sequences that are joined in one order or the other.
Associates(a, b, c) == (a \o b) \o c = a \o (b \o c)

LEMMA Associative ==
    /\ \A a, b, c \in Seq(Byte) : Associates(a, b, c)
    /\ \A a, b, c \in Seq(Seq(Byte)) : Associates(a, b, c)
<1>1. \A a, b, c \in Seq(Byte) : Associates(a, b, c)
  BY DEF Associates
<1>2. \A a, b, c \in Seq(Seq(Byte)) : Associates(a, b, c)
  BY DEF Associates
<1> QED BY <1>1, <1>2

\* What is left of a stream of which n pieces and j bytes have been read.
LeftOf(s, n, j, t) ==
    \/ j = 0 /\ t = From(s, n + 1)
    \/ /\ j # 0 /\ t[1].rest = From(s[n + 1].rest, j + 1) /\ t[1].msg = s[n + 1].msg
       /\ \A k \in 2 .. Len(s) - n : t[k] = s[n + k]

PlainBehind(s) == \A k \in 2 .. Len(s) : s[k] \in PlainPiece

\* The messages that these bytes complete, and the part of another one behind them.
Completes(part, s, n, j, t, new, p1) ==
    /\ part \o Chunk(s, n, j) = FlattenSeq(new) \o p1
    /\ FlattenSeq(Msgs(SubSeq(s, 1, n))) = new
    /\ Ahead(p1, t)

\* A read gets on with the messages, and the ones it completes are due.
LEMMA ChunkSplit ==
    ASSUME NEW s \in Seq(Stretch), PlainBehind(s),
           NEW part \in Seq(Byte), Ahead(part, s), NEW n, NEW j, MayRead(s, n, j),
           NEW t \in Seq(Stretch), Len(t) = Len(s) - n, LeftOf(s, n, j, t)
    PROVE  /\ PlainBehind(t)
           /\ \E new \in Seq(Plain), p1 \in Seq(Byte) : Completes(part, s, n, j, t, new, p1)
<1>1. n \in 0 .. Len(s) /\ n \in Nat /\ Len(s) \in Nat /\ Plain \subseteq Message
  BY DEF MayRead, Plain
<1>2. PICK u \in Seq(Stretch) :
          /\ u = From(s, n + 1) /\ Len(u) = Len(s) - n
          /\ \A k \in 1 .. Len(s) - n : u[k] = s[n + k]
  BY ChunkRead, Zenon
<1>3. PICK new \in Seq(Plain), p0 \in Seq(Byte) :
          /\ part \o FlattenSeq(Rests(SubSeq(s, 1, n))) = FlattenSeq(new) \o p0
          /\ FlattenSeq(Msgs(SubSeq(s, 1, n))) = new
          /\ Ahead(p0, u)
  BY <1>1, <1>2, PiecesSplit, Zenon DEF PlainBehind
<1>4. \A k \in 2 .. Len(t) : t[k] \in PlainPiece
  <2> TAKE k \in 2 .. Len(t)
  <2>1. k \in 2 .. Len(s) - n /\ k \in 1 .. Len(s) - n /\ n + k \in 2 .. Len(s)
    BY <1>1
  <2>2. t[k] = s[n + k]
    BY <1>2, <2>1 DEF LeftOf
  <2> QED BY <2>1, <2>2 DEF PlainBehind
<1>5. PICK a, b, c \in Seq(Byte) :
          /\ a = FlattenSeq(Rests(SubSeq(s, 1, n))) /\ b = FlattenSeq(new)
          /\ c = IF j = 0 THEN <<>> ELSE SubSeq(s[n + 1].rest, 1, j)
  <2>1. SubSeq(s, 1, n) \in Seq(Stretch)
    BY ChunkRead
  <2>2. FlattenSeq(Rests(SubSeq(s, 1, n))) \in Seq(Byte)
    BY <2>1, PiecesRead
  <2>3. FlattenSeq(new) \in Seq(Byte)
    <3>1. new \in Seq(Message)
      BY <1>1, SeqMonotonic
    <3> QED BY <3>1, MessagesJoined
  <2>4. CASE j = 0
    <3>1. <<>> \in Seq(Byte)
      OBVIOUS
    <3> QED BY <2>2, <2>3, <2>4, <3>1, Zenon
  <2>5. CASE j # 0
    <3>1. n + 1 \in 1 .. Len(s) /\ j \in 1 .. Len(s[n + 1].rest) - 1
      BY <1>1, <2>5 DEF MayRead
    <3>2. s[n + 1].rest \in Seq(Byte)
      <4>1. s[n + 1] \in Stretch
        BY <3>1, ElementOfSeq
      <4> QED BY <4>1 DEF Stretch
    <3>3. SubSeq(s[n + 1].rest, 1, j) \in Seq(Byte)
      BY <3>1, <3>2
    <3> QED BY <2>2, <2>3, <2>5, <3>3, Zenon
  <2> QED BY <2>4, <2>5
<1>6. Chunk(s, n, j) = a \o c
  BY <1>5, Zenon DEF Chunk
<1>7. PICK p1 \in Seq(Byte) : p1 = p0 \o c
  <2>1. p0 \o c \in Seq(Byte)
    OBVIOUS
  <2> QED BY <2>1, Zenon
<1>8. part \o Chunk(s, n, j) = FlattenSeq(new) \o p1
  <2>1. Associates(part, a, c) /\ Associates(b, p0, c)
    BY Associative
  <2> QED BY <1>3, <1>5, <1>6, <1>7, <2>1, Zenon DEF Associates
<1>9. Ahead(p1, t)
  <2>1. CASE j = 0
    <3>1. t = u
      BY <1>2, <2>1 DEF LeftOf
    <3>2. c = <<>>
      BY <1>5, <2>1
    <3>3. p1 = p0
      BY <1>7, <3>2
    <3> QED BY <1>3, <3>1, <3>3, Zenon
  <2>2. CASE j # 0
    <3>1. n < Len(s) /\ n + 1 \in 1 .. Len(s) /\ j \in 1 .. Len(s[n + 1].rest) - 1
      BY <1>1, <2>2 DEF MayRead
    <3>2. u # <<>> /\ t # <<>> /\ u[1] = s[n + 1]
      <4>1. Len(u) >= 1 /\ Len(t) >= 1 /\ 1 \in 1 .. Len(s) - n
        BY <1>1, <1>2, <3>1
      <4>2. u[1] = s[n + 1]
        BY <1>2, <4>1
      <4>3. Len(<<>>) = 0
        OBVIOUS
      <4> QED BY <4>1, <4>2, <4>3
    <3>3. PICK r \in Seq(Byte) : r = s[n + 1].rest
      <4>1. s[n + 1] \in Stretch
        BY <3>1, ElementOfSeq
      <4> QED BY <4>1 DEF Stretch
    <3>4. p0 \o r \in Plain /\ s[n + 1].msg = <<p0 \o r>>
      BY <1>3, <3>2, <3>3 DEF Ahead
    <3>5. j \in 0 .. Len(r) /\ j \in 1 .. Len(r) - 1 /\ Len(r) \in Nat
      <4>1. PICK l \in Nat : l = Len(r)
        BY LenProperties
      <4>2. j \in 1 .. l - 1
        BY <3>1, <3>3, <4>1
      <4>3. j \in 0 .. l
        BY <4>2
      <4> QED BY <4>1, <4>2, <4>3
    <3>6. PICK d \in Seq(Byte) : d = From(r, j + 1) /\ c \o d = r /\ d # <<>>
      <4>1. /\ From(r, j + 1) \in Seq(Byte) /\ Len(From(r, j + 1)) = Len(r) - j
            /\ SubSeq(r, 1, j) \o From(r, j + 1) = r
        BY <3>5, CutAt
      <4>2. c = SubSeq(r, 1, j)
        BY <1>5, <2>2, <3>3
      <4>3. From(r, j + 1) # <<>>
        BY <3>5, <4>1
      <4> QED BY <4>1, <4>2, <4>3, Zenon
    <3>7. t[1].rest = d /\ t[1].msg = s[n + 1].msg
      BY <2>2, <3>3, <3>6 DEF LeftOf
    <3>8. p1 \o d = p0 \o r
      <4>1. Associates(p0, c, d)
        BY Associative
      <4> QED BY <1>7, <3>6, <4>1, Zenon DEF Associates
    <3> QED BY <3>2, <3>4, <3>6, <3>7, <3>8, Zenon DEF Ahead
  <2> QED BY <2>1, <2>2
<1> QED BY <1>3, <1>4, <1>8, <1>9, Zenon DEF Completes, PlainBehind

\* What has been read goes on with the messages that are due; what has been read of
\* a message has been allocated its size.
SplitReads ==
    /\ PlainBehind(stream)
    /\ \E ms \in Seq(Plain), part \in Seq(Byte) :
           Line(ms, part, stream, to_extract_msg \o buf, due, extracted)
    /\ to_extract_msg # null => Sized(to_extract_msg, capacity)

LEMMA InitSplitReads == Init /\ reads = "split" /\ SplitArePlain => SplitReads
<1> SUFFICES ASSUME Init, reads = "split", SplitArePlain PROVE SplitReads
  OBVIOUS
<1>1. /\ stream \in Seq(PlainPiece) /\ Plain \subseteq Message
      /\ buf = <<>> /\ to_extract_msg = null /\ extracted = <<>> /\ due = <<>>
  BY DEF Init, SplitArePlain, Plain
<1>2. FlattenSeq(<<>>) = <<>> /\ <<>> \in Seq(Plain) /\ <<>> \in Seq(Byte)
  <2>1. <<>> \in Seq(Message) /\ <<>> \in Seq(Plain) /\ <<>> \in Seq(Byte)
    OBVIOUS
  <2> QED BY <2>1, MessagesJoined
<1>3. to_extract_msg \o buf = <<>> \o <<>> /\ due = extracted \o <<>>
  BY <1>1 DEF null
<1>4. Ahead(<<>>, stream)
  <2>1. CASE stream = <<>>
    BY <2>1 DEF Ahead
  <2>2. CASE stream # <<>>
    <3>1. stream[1] \in PlainPiece
      BY <1>1, <2>2, FirstAndLast
    <3>2. PICK q \in Plain : stream[1].rest = q /\ stream[1].msg = <<q>>
      BY <3>1 DEF PlainPiece, Whole
    <3>3. q \in Seq(Byte) /\ Len(q) >= 2
      BY <1>1, MessageBytes
    <3>4. <<>> \o q = q /\ q # <<>>
      BY <3>3
    <3> QED BY <2>2, <3>2, <3>4 DEF Ahead
  <2> QED BY <2>1, <2>2
<1>5. Line(<<>>, <<>>, stream, to_extract_msg \o buf, due, extracted)
  BY <1>2, <1>3, <1>4, Zenon DEF Line
<1>6. \A k \in 2 .. Len(stream) : stream[k] \in PlainPiece
  <2> TAKE k \in 2 .. Len(stream)
  <2>1. k \in 1 .. Len(stream)
    OBVIOUS
  <2> QED BY <1>1, <2>1, ElementOfSeq
<1> QED BY <1>1, <1>2, <1>5, <1>6, Zenon DEF SplitReads, PlainBehind

\* Bytes that are joined of two stretches.
Joint(x, a, b) == x = a \o b

LEMMA JointAt ==
    ASSUME NEW a \in Seq(Byte), NEW b \in Seq(Byte), NEW x, Joint(x, a, b)
    PROVE  /\ x \in Seq(Byte) /\ Len(x) = Len(a) + Len(b)
           /\ \A k \in 1 .. Len(a) : x[k] = a[k]
           /\ \A k \in 1 .. Len(b) : x[Len(a) + k] = b[k]
BY JoinedAt DEF Joint

\* A read only adds bytes: nothing is skipped, as a message has been read up to the
\* next one, and nothing is given up, as the next byte belongs to the same message.
LEMMA ReadAdds ==
    ASSUME Types, NEW b \in Seq(Byte), b # <<>>, NEW x, Joint(x, to_extract_msg, b),
           NEW ms \in Seq(Plain), NEW part \in Seq(Byte), NEW s \in Seq(Stretch),
           NEW d, NEW e, Line(ms, part, s, x, d, e),
           to_extract_msg # null => Sized(to_extract_msg, capacity)
    PROVE  ~Abandons(b) /\ ~(to_extract_msg = null /\ ~has_start_mark(b))
<1>1. /\ buf \in Seq(Byte) /\ to_extract_msg \in Seq(Byte) /\ capacity \in Nat
      /\ to_extract_msg # null =>
             /\ has_start_mark(to_extract_msg) /\ ~create_instance(to_extract_msg)
             /\ Len(to_extract_msg) <= capacity
  BY DEF Types, TypeOK, readed
<1>2. /\ x \in Seq(Byte) /\ Len(x) = readed + Len(b)
      /\ \A k \in 1 .. readed : x[k] = to_extract_msg[k]
      /\ \A k \in 1 .. Len(b) : x[readed + k] = b[k]
  BY <1>1, JointAt DEF readed
<1>3. Len(b) \in Nat /\ Len(b) >= 1 /\ readed \in Nat /\ x # <<>>
  <2>1. Len(b) \in Nat /\ Len(b) # 0 /\ readed \in Nat
    BY <1>1, LenProperties, EmptySeq DEF readed
  <2>2. Len(x) # 0
    BY <1>2, <2>1
  <2>3. Len(<<>>) = 0
    OBVIOUS
  <2> QED BY <2>1, <2>2, <2>3
<1>4. PICK first \in Plain : \A k \in 1 .. Len(x) : k <= Len(first) => x[k] = first[k]
  <2>1. \E first \in Plain, rest \in Seq(Byte) : Foremost(ms, part, x, first, rest)
    BY <1>2, <1>3, FirstOf
  <2> QED BY <2>1, Zenon DEF Foremost
<1>5. /\ Len(first) \in Nat /\ Len(first) >= 2 /\ first[1] = MSG_START
      /\ \A k \in 2 .. Len(first) : first[k] # MSG_START
  BY MessageBytes DEF Plain
<1>6. CASE to_extract_msg = null
  <2>1. readed = 0
    BY <1>6 DEF readed, null
  <2>2. 1 \in 1 .. Len(b) /\ x[1] = b[1]
    BY <1>2, <1>3, <2>1
  <2>3. x[1] = first[1]
    <3>1. 1 \in 1 .. Len(x) /\ 1 <= Len(first)
      BY <1>2, <1>3, <1>5, <2>1
    <3> QED BY <1>4, <3>1
  <2>4. has_start_mark(b)
    BY <1>5, <2>2, <2>3 DEF has_start_mark
  <2> QED BY <1>6, <2>4 DEF Abandons
<1>7. CASE to_extract_msg # null
  <2>1. readed < Len(first)
    <3>1. PICK t \in Seq(Byte) :
              /\ t = to_extract_msg /\ Len(t) <= capacity /\ Sized(t, capacity)
              /\ ~create_instance(t)
      BY <1>1, <1>7
    <3>2. \A k \in 1 .. Len(t) : k <= Len(first) => t[k] = first[k]
      <4> TAKE k \in 1 .. Len(t)
      <4>1. k \in 1 .. readed /\ k \in 1 .. Len(x) /\ t[k] = x[k]
        <5>1. k \in 1 .. readed /\ t[k] = to_extract_msg[k]
          BY <3>1 DEF readed
        <5> QED BY <1>2, <1>3, <5>1
      <4> QED BY <1>4, <4>1, Zenon
    <3>3. Len(t) < Len(first)
      BY <1>1, <3>1, <3>2, Unfinished
    <3> QED BY <3>1, <3>3 DEF readed
  <2>2. readed >= 1
    <3>1. to_extract_msg # <<>>
      BY <1>7 DEF null
    <3> QED BY <1>1, <1>3, <3>1, EmptySeq DEF readed
  <2>3. readed + 1 \in 1 .. Len(x) /\ readed + 1 \in 2 .. Len(first) /\ 1 \in 1 .. Len(b)
    BY <1>2, <1>3, <1>5, <2>1, <2>2
  <2>4. b[1] = first[readed + 1]
    BY <1>2, <1>4, <2>3
  <2>5. b[1] # MSG_START
    BY <1>5, <2>3, <2>4
  <2> QED BY <1>7, <2>5 DEF Abandons, has_start_mark
<1> QED BY <1>6, <1>7

LEMMA ReadSplitReads ==
    ASSUME Types, reads = "split", SplitReads,
           NEW n, NEW j, MayRead(stream, n, j), Read(n, j)
    PROVE  SplitReads'
<1>1. /\ stream \in Seq(Stretch) /\ buf \in Seq(Byte) /\ to_extract_msg \in Seq(Byte)
      /\ extracted \in Seq(Seq(Byte)) /\ due \in Seq(Message)
  BY DEF Types
<1>2. /\ PlainBehind(stream)
      /\ to_extract_msg # null => Sized(to_extract_msg, capacity)
  BY DEF SplitReads
<1>3. PICK ms \in Seq(Plain), part \in Seq(Byte) :
          Line(ms, part, stream, to_extract_msg \o buf, due, extracted)
  BY DEF SplitReads
<1>4. to_extract_msg \o buf = FlattenSeq(ms) \o part /\ due = extracted \o ms /\ Ahead(part, stream)
  BY <1>3, Zenon DEF Line
<1>5. PICK c \in Seq(Byte), b \in Seq(Byte) :
          c = Chunk(stream, n, j) /\ b = buf \o c /\ b = buf \o Chunk(stream, n, j)
  <2>1. Chunk(stream, n, j) \in Seq(Byte)
    BY <1>1, ChunkRead
  <2>2. buf \o Chunk(stream, n, j) \in Seq(Byte)
    BY <1>1, <2>1
  <2> QED BY <2>1, <2>2, Zenon
<1>6. /\ c # <<>> /\ reads' = reads /\ extracted' = extracted
      /\ stream' \in Seq(Stretch) /\ Len(stream') = Len(stream) - n
      /\ LeftOf(stream, n, j, stream')
      /\ due' = due \o FlattenSeq(Msgs(SubSeq(stream, 1, n)))
      /\ buf' = IF to_extract_msg = null /\ ~has_start_mark(b) THEN move_msg_to_start(b) ELSE b
      /\ to_extract_msg' = IF Abandons(b) THEN null ELSE to_extract_msg
      /\ capacity' = IF Abandons(b) THEN 0 ELSE capacity
  <2>1. /\ Chunk(stream, n, j) # <<>>
        /\ Behind(stream, n) => reads = "mixed"
        /\ stream' \in Seq(Stretch) /\ Len(stream') = Len(stream) - n
        /\ \/ j = 0 /\ stream' = From(stream, n + 1)
           \/ /\ j # 0 /\ reads = "split"
              /\ stream'[1].rest = From(stream[n + 1].rest, j + 1)
              /\ stream'[1].msg = stream[n + 1].msg
              /\ \A k \in 2 .. Len(stream) - n : stream'[k] = stream[n + k]
        /\ due' = IF Behind(stream, n) THEN due
                  ELSE due \o FlattenSeq(Msgs(SubSeq(stream, 1, n)))
        /\ buf' = IF to_extract_msg = null /\ ~has_start_mark(b) THEN move_msg_to_start(b) ELSE b
        /\ to_extract_msg' = IF Abandons(b) THEN null ELSE to_extract_msg
        /\ capacity' = IF Abandons(b) THEN 0 ELSE capacity
        /\ reads' = reads /\ extracted' = extracted
    BY <1>1, <1>5, ReadStep, Zenon
  <2>2. ~Behind(stream, n)
    <3>1. reads # "mixed"
      OBVIOUS
    <3> QED BY <2>1, <3>1, Zenon
  <2> QED BY <1>5, <2>1, <2>2, Zenon DEF LeftOf
<1>7. PICK t \in Seq(Stretch) : t = stream'
  BY <1>6
<1>8. /\ PlainBehind(t)
      /\ \E new \in Seq(Plain), p1 \in Seq(Byte) : Completes(part, stream, n, j, t, new, p1)
  <2>1. Len(t) = Len(stream) - n /\ LeftOf(stream, n, j, t)
    BY <1>6, <1>7, Zenon
  <2> QED BY <1>1, <1>2, <1>4, <2>1, ChunkSplit
<1>9. PICK new \in Seq(Plain), p1 \in Seq(Byte) :
          /\ part \o c = FlattenSeq(new) \o p1
          /\ FlattenSeq(Msgs(SubSeq(stream, 1, n))) = new
          /\ Ahead(p1, t)
  BY <1>5, <1>8, Zenon DEF Completes
<1>10. PICK more \in Seq(Plain) : more = ms \o new
  <2>1. ms \o new \in Seq(Plain)
    OBVIOUS
  <2> QED BY <2>1, Zenon
<1>11. /\ ms \in Seq(Message) /\ new \in Seq(Message)
       /\ ms \in Seq(Seq(Byte)) /\ new \in Seq(Seq(Byte))
       /\ FlattenSeq(ms) \in Seq(Byte) /\ FlattenSeq(new) \in Seq(Byte)
  <2>1. Plain \subseteq Message
    BY DEF Plain
  <2>2. ms \in Seq(Message) /\ new \in Seq(Message)
    BY <2>1, SeqMonotonic
  <2> QED BY <2>2, MessagesJoined
<1>12. PICK x \in Seq(Byte) : x = to_extract_msg \o b
  <2>1. to_extract_msg \o b \in Seq(Byte)
    BY <1>1
  <2> QED BY <2>1, Zenon
<1>13. x = FlattenSeq(more) \o p1
  <2>1. PICK f, g, o \in Seq(Byte) : f = FlattenSeq(ms) /\ g = FlattenSeq(new) /\ o = to_extract_msg
    BY <1>1, <1>11
  <2>2. FlattenSeq(more) = f \o g
    BY <1>10, <1>11, <2>1, JoinedBoth
  <2>3. Associates(o, buf, c) /\ Associates(f, part, c) /\ Associates(f, g, p1)
    BY <1>1, Associative
  <2> QED BY <1>4, <1>5, <1>9, <1>12, <2>1, <2>2, <2>3, Zenon DEF Associates
<1>14. due' = extracted \o more
  <2>1. PICK e, f, g \in Seq(Seq(Byte)) : e = extracted /\ f = ms /\ g = new
    BY <1>1, <1>11
  <2>2. Associates(e, f, g)
    BY Associative
  <2> QED BY <1>4, <1>6, <1>9, <1>10, <2>1, <2>2, Zenon DEF Associates
<1>15. Line(more, p1, t, x, due', extracted')
  BY <1>6, <1>9, <1>13, <1>14, Zenon DEF Line
<1>16. ~Abandons(b) /\ ~(to_extract_msg = null /\ ~has_start_mark(b))
  <2>1. b # <<>>
    <3>1. Len(b) = Len(buf) + Len(c) /\ Len(buf) \in Nat /\ Len(c) \in Nat
      BY <1>1, <1>5, JoinedAt, LenProperties
    <3>2. Len(c) # 0
      BY <1>6, EmptySeq
    <3>3. Len(<<>>) = 0
      OBVIOUS
    <3> QED BY <3>1, <3>2, <3>3
  <2>2. Joint(x, to_extract_msg, b)
    BY <1>12, Zenon DEF Joint
  <2>3. t \in Seq(Stretch)
    BY <1>6, <1>7
  <2> QED BY <1>2, <1>15, <2>1, <2>2, <2>3, ReadAdds, Zenon
<1>17. buf' = b /\ to_extract_msg' = to_extract_msg /\ capacity' = capacity
  BY <1>6, <1>16, Zenon
<1>18. Line(more, p1, stream', to_extract_msg' \o buf', due', extracted')
  BY <1>7, <1>12, <1>15, <1>17, Zenon
<1>19. PlainBehind(stream)'
  BY <1>7, <1>8, Zenon DEF PlainBehind
<1>20. to_extract_msg' # null => Sized(to_extract_msg', capacity')
  BY <1>2, <1>17, Zenon
<1> QED BY <1>18, <1>19, <1>20, Zenon DEF SplitReads

\* What is copied is the next message, or a part of it.
LEMMA CopySplitReads ==
    ASSUME Types, SplitReads, NEW w \in 0 .. Len(buf), NEW size, Copy(buf, w, size),
           to_extract_msg \o buf # <<>>, stream' = stream, due' = due,
           \A m, r \in Seq(Byte) :
               Copied(buf, w, size, m, r) /\ ~create_instance(m) => Sized(m, size)
    PROVE  SplitReads'
<1>1. /\ stream \in Seq(Stretch) /\ buf \in Seq(Byte) /\ to_extract_msg \in Seq(Byte)
      /\ extracted \in Seq(Seq(Byte)) /\ due \in Seq(Message) /\ Plain \subseteq Message
  BY DEF Types, Plain
<1>2. PICK ms \in Seq(Plain), part \in Seq(Byte) :
          Line(ms, part, stream, to_extract_msg \o buf, due, extracted)
  BY DEF SplitReads
<1>3. PICK x \in Seq(Byte) : x = to_extract_msg \o buf
  <2>1. to_extract_msg \o buf \in Seq(Byte)
    BY <1>1
  <2> QED BY <2>1, Zenon
<1>4. Line(ms, part, stream, x, due, extracted) /\ x # <<>>
  BY <1>2, <1>3, Zenon
<1>5. PICK first \in Plain, rest \in Seq(Byte) : Foremost(ms, part, x, first, rest)
  BY <1>1, <1>4, FirstOf
<1>6. PICK m, r \in Seq(Byte) : Copied(buf, w, size, m, r)
  BY <1>1, CopyStep
<1>7. /\ Len(m) = readed + w /\ x = m \o r
      /\ \A k \in 1 .. readed : m[k] = to_extract_msg[k]
      /\ buf' = r
      /\ create_instance(m) => extracted' = Append(extracted, m) /\ to_extract_msg' = null
      /\ ~create_instance(m) =>
             extracted' = extracted /\ to_extract_msg' = m /\ capacity' = size
  BY <1>3, <1>6, Zenon DEF Copied
<1>8. /\ \A k \in 1 .. Len(m) : k \in 1 .. Len(x) /\ x[k] = m[k]
      /\ Len(m) <= Len(x) /\ Len(m) \in Nat /\ Len(x) \in Nat
  <2>1. /\ Len(x) = Len(m) + Len(r) /\ \A k \in 1 .. Len(m) : x[k] = m[k]
    BY <1>7, JoinedAt
  <2>2. Len(m) \in Nat /\ Len(r) \in Nat
    BY LenProperties
  <2> QED BY <2>1, <2>2
<1>9. \A k \in 1 .. Len(m) : k <= Len(first) => m[k] = first[k]
  BY <1>5, <1>8, Zenon DEF Foremost
<1>10. PlainBehind(stream)'
  <2>1. PlainBehind(stream)
    BY DEF SplitReads
  <2> QED BY <2>1, Zenon DEF PlainBehind
<1>11. CASE create_instance(m)
  <2>1. Len(m) = Len(first)
    <3>1. /\ first \in Message /\ Len(first) \in Nat /\ Len(first) >= MIN_SIZE
          /\ MIN_SIZE \in Nat
      BY <1>1, MessageBytes, BufferAssumption
    <3>2. \A k \in 1 .. MIN_SIZE : k <= Len(m) => m[k] = first[k]
      BY <1>8, <1>9, <3>1
    <3> QED BY <1>11, <3>1, <3>2, BeginsLike
  <2>2. ms # <<>>
    <3>1. ms = <<>> => Len(x) < Len(first)
      BY <1>5, Zenon DEF Foremost
    <3> QED BY <1>8, <2>1, <3>1
  <2>3. first = ms[1] /\ x = first \o rest /\ rest = FlattenSeq(Tail(ms)) \o part
    BY <1>5, <2>2, Zenon DEF Foremost
  <2>4. m = first /\ r = rest
    <3>1. PICK f \in Seq(Byte) : f = first
      BY <1>1, MessageBytes
    <3>2. m \o r = f \o rest /\ Len(m) = Len(f) => m = f /\ r = rest
      BY SameParts
    <3>3. m \o r = f \o rest
      BY <1>7, <2>3, <3>1, Zenon
    <3> QED BY <2>1, <3>1, <3>2, <3>3, Zenon
  <2>5. PICK others \in Seq(Plain) : others = Tail(ms) /\ ms = <<m>> \o others
    <3>1. Tail(ms) \in Seq(Plain) /\ ms = <<ms[1]>> \o Tail(ms)
      BY <2>2, FirstAndLast
    <3> QED BY <2>3, <2>4, <3>1, Zenon
  <2>6. due' = extracted' \o others
    <3>1. PICK e, f, g \in Seq(Seq(Byte)) : e = extracted /\ f = <<m>> /\ g = others
      <4>1. <<m>> \in Seq(Seq(Byte))
        OBVIOUS
      <4>2. others \in Seq(Seq(Byte))
        <5>1. others \in Seq(Message)
          BY <1>1, SeqMonotonic
        <5> QED BY <5>1, MessagesJoined
      <4> QED BY <1>1, <4>1, <4>2, Zenon
    <3>2. Associates(e, f, g)
      BY Associative
    <3>3. due = e \o (f \o g)
      BY <1>4, <2>5, <3>1, Zenon DEF Line
    <3>4. extracted' = e \o f
      <4>1. Append(e, m) = e \o <<m>>
        BY AppendProperties, AppendIsConcat
      <4> QED BY <1>7, <1>11, <3>1, <4>1, Zenon
    <3> QED BY <3>1, <3>2, <3>3, <3>4, Zenon DEF Associates
  <2>7. to_extract_msg' = null /\ to_extract_msg' \o buf' = FlattenSeq(others) \o part
    <3>1. <<>> \o r = r
      OBVIOUS
    <3>2. to_extract_msg' = <<>> /\ buf' = r
      BY <1>7, <1>11, Zenon DEF null
    <3> QED BY <2>3, <2>4, <2>5, <3>1, <3>2, Zenon DEF null
  <2>8. Line(others, part, stream', to_extract_msg' \o buf', due', extracted')
    BY <1>4, <2>6, <2>7, Zenon DEF Line
  <2> QED BY <1>10, <2>7, <2>8, Zenon DEF SplitReads
<1>12. CASE ~create_instance(m)
  <2>1. extracted' = extracted /\ to_extract_msg' = m /\ capacity' = size /\ buf' = r
    BY <1>7, <1>12, Zenon
  <2>2. Line(ms, part, stream', to_extract_msg' \o buf', due', extracted')
    BY <1>4, <1>7, <2>1, Zenon
  <2>3. Sized(m, size)
    BY <1>6, <1>12, Zenon
  <2> QED BY <1>10, <2>1, <2>2, <2>3, Zenon DEF SplitReads
<1> QED BY <1>11, <1>12

\* A new reading begins with the first byte, and what it copies is sized.
LEMMA NewReadingSplitReads ==
    ASSUME Types, SplitReads, NewReading
    PROVE  SplitReads'
<1>1. /\ buf \in Seq(Byte) /\ buf # <<>> /\ to_extract_msg = <<>> /\ stream \in Seq(Stretch)
      /\ stream' = stream /\ due' = due /\ readed = 0 /\ Plain \subseteq Message
  <2>1. buf \in Seq(Byte) /\ buf # <<>> /\ stream \in Seq(Stretch)
    BY DEF Types, NewReading
  <2>2. to_extract_msg = <<>> /\ stream' = stream /\ due' = due
    BY <2>1, NewReadingStep DEF null
  <2> QED BY <2>1, <2>2 DEF readed, Plain
<1>2. PICK ms \in Seq(Plain), part \in Seq(Byte) :
          Line(ms, part, stream, to_extract_msg \o buf, due, extracted)
  BY DEF SplitReads
<1>3. to_extract_msg \o buf = buf
  BY <1>1
<1>4. PICK first \in Plain : \A k \in 1 .. Len(buf) : k <= Len(first) => buf[k] = first[k]
  <2>1. Line(ms, part, stream, buf, due, extracted)
    BY <1>2, <1>3, Zenon
  <2>2. \E first \in Plain, rest \in Seq(Byte) : Foremost(ms, part, buf, first, rest)
    BY <1>1, <2>1, FirstOf
  <2> QED BY <2>2, Zenon DEF Foremost
<1>5. /\ first \in Message /\ Len(first) \in Nat /\ Len(first) >= MIN_SIZE /\ first[1] = MSG_START
      /\ Len(first) = DataSize[first[2]]
      /\ MIN_SIZE \in Nat /\ MIN_SIZE >= 2 /\ Len(buf) \in Nat /\ Len(buf) >= 1
  BY <1>1, <1>4, MessageBytes, BufferAssumption
<1>6. Len(buf) >= MIN_SIZE => Headed(buf) /\ buf[2] = first[2]
  <2>1. \A k \in 1 .. MIN_SIZE : k <= Len(buf) => buf[k] = first[k]
    BY <1>4, <1>5
  <2> QED BY <1>1, <1>5, <2>1, BeginsLike
<1>7. new_reading_start(buf) = buf
  <2>1. has_start_mark(buf)
    <3>1. buf[1] = MSG_START
      BY <1>4, <1>5
    <3> QED BY <1>1, <3>1 DEF has_start_mark
  <2>2. Headed(buf) \/ Len(buf) < MIN_SIZE
    BY <1>5, <1>6
  <2> QED BY <1>1, <2>1, <2>2, TypesApart, ReadingStart
<1>8. PICK size \in Nat, w \in 1 .. Len(buf) :
          /\ w <= size /\ Copy(buf, w, size)
          /\ \/ Len(buf) < MIN_SIZE /\ w = size /\ size = before_mark(buf, 2)
             \/ Headed(buf) /\ size = DataSize[buf[2]] /\ (w < size => w = Len(buf))
  <2>1. PICK b \in Seq(Byte), size \in Nat : \E w \in 1 .. Len(b) :
            /\ b = new_reading_start(buf)
            /\ w <= size /\ Copy(b, w, size)
            /\ \/ Len(b) < MIN_SIZE /\ w = size /\ size = before_mark(b, 2)
               \/ Headed(b) /\ size = DataSize[b[2]] /\ (w < size => w = Len(b))
    BY <1>1, <1>7, NewReadingStep, Zenon
  <2>2. PICK w \in 1 .. Len(b) :
            /\ b = new_reading_start(buf)
            /\ w <= size /\ Copy(b, w, size)
            /\ \/ Len(b) < MIN_SIZE /\ w = size /\ size = before_mark(b, 2)
               \/ Headed(b) /\ size = DataSize[b[2]] /\ (w < size => w = Len(b))
    BY <2>1, Zenon
  <2>3. b = buf
    BY <1>7, <2>2, Zenon
  <2> QED BY <2>2, <2>3, Zenon
<1>9. w \in 0 .. Len(buf) /\ w \in Nat
  OBVIOUS
<1>10. ASSUME NEW m \in Seq(Byte), NEW r \in Seq(Byte), Copied(buf, w, size, m, r)
       PROVE  Sized(m, size)
  <2>1. Len(m) = w /\ \A k \in 1 .. w : m[k] = buf[k]
    <3>1. m = <<>> \o SubSeq(buf, 1, w)
      BY <1>1, <1>10, Zenon DEF Copied
    <3>2. m = SubSeq(buf, 1, w)
      BY <1>1, <1>9, <3>1
    <3> QED BY <1>1, <1>9, <3>2
  <2>2. CASE Len(buf) < MIN_SIZE
    <3>1. size < MIN_SIZE
      <4>1. ~Headed(buf)
        BY <1>5, <2>2 DEF Headed
      <4> QED BY <1>5, <1>8, <2>2, <4>1
    <3> QED BY <3>1 DEF Sized
  <2>3. CASE Len(buf) >= MIN_SIZE
    <3>1. Headed(buf) /\ size = DataSize[buf[2]] /\ (w < size => w = Len(buf)) /\ size >= MIN_SIZE
      <4>1. Headed(buf) /\ size = DataSize[buf[2]] /\ (w < size => w = Len(buf))
        BY <1>5, <1>8, <2>3
      <4>2. buf[2] \in Type
        BY <4>1 DEF Headed
      <4> QED BY <4>1, <4>2, BufferAssumption
    <3>2. w >= MIN_SIZE
      BY <1>5, <1>8, <1>9, <2>3, <3>1
    <3>3. \A k \in 1 .. MIN_SIZE : k \in 1 .. w
      BY <1>5, <1>9, <3>2
    <3>4. Headed(m) /\ m[2] = buf[2]
      BY <1>5, <2>1, <3>1, <3>2, <3>3 DEF Headed
    <3> QED BY <3>1, <3>4 DEF Sized
  <2> QED BY <1>5, <2>2, <2>3
<1> QED BY <1>1, <1>3, <1>8, <1>9, <1>10, CopySplitReads

\* A reading that is finished goes on with the message it has begun.
LEMMA FinishingSplitReads ==
    ASSUME Types, SplitReads, NEW size, FinishingReading(size)
    PROVE  SplitReads'
<1>1. /\ buf \in Seq(Byte) /\ to_extract_msg \in Seq(Byte) /\ capacity \in Nat
      /\ readed <= capacity
  BY DEF Types, TypeOK
<1>2. /\ to_extract_msg # null /\ stream' = stream /\ due' = due
      /\ \/ \E w \in 0 .. Len(buf) : readed + w <= capacity /\ Copy(buf, w, capacity)
         \/ pc' = "crashed" /\ UNCHANGED <<buf, to_extract_msg, capacity, extracted>>
  BY <1>1, FinishingStep, Zenon
<1>3. Sized(to_extract_msg, capacity)
  BY <1>2 DEF SplitReads
<1>4. to_extract_msg \o buf # <<>>
  <2>1. PICK x : x = to_extract_msg \o buf
    OBVIOUS
  <2>2. Len(x) = Len(to_extract_msg) + Len(buf) /\ Len(to_extract_msg) # 0
        /\ Len(to_extract_msg) \in Nat /\ Len(buf) \in Nat
    <3>1. Len(x) = Len(to_extract_msg) + Len(buf)
      BY <1>1, <2>1, JoinedAt
    <3> QED BY <1>1, <1>2, <3>1, LenProperties, EmptySeq DEF null
  <2>3. Len(<<>>) = 0
    OBVIOUS
  <2>4. x # <<>>
    BY <2>2, <2>3
  <2> QED BY <2>1, <2>4, Zenon
<1>5. ASSUME NEW w \in 0 .. Len(buf), Copy(buf, w, capacity) PROVE SplitReads'
  <2>1. ASSUME NEW m \in Seq(Byte), NEW r \in Seq(Byte), Copied(buf, w, capacity, m, r)
        PROVE  Sized(m, capacity)
    <3>1. /\ Len(m) = Len(to_extract_msg) + w
          /\ \A k \in 1 .. Len(to_extract_msg) : m[k] = to_extract_msg[k]
      BY <2>1, Zenon DEF Copied, readed
    <3>2. MIN_SIZE \in Nat /\ MIN_SIZE >= 2 /\ w \in Nat /\ Len(to_extract_msg) \in Nat
      BY <1>1, BufferAssumption
    <3>3. CASE capacity < MIN_SIZE
      BY <3>3 DEF Sized
    <3>4. CASE Headed(to_extract_msg) /\ capacity = DataSize[to_extract_msg[2]]
      <4>1. /\ Len(to_extract_msg) >= MIN_SIZE
            /\ \A k \in 1 .. MIN_SIZE : m[k] = to_extract_msg[k]
        BY <3>1, <3>2, <3>4 DEF Headed
      <4>2. Headed(m) /\ m[2] = to_extract_msg[2]
        BY <3>1, <3>2, <3>4, <4>1 DEF Headed
      <4> QED BY <3>4, <4>2 DEF Sized
    <3> QED BY <1>3, <3>3, <3>4 DEF Sized
  <2> QED BY <1>2, <1>4, <1>5, <2>1, CopySplitReads
<1>6. CASE pc' = "crashed" /\ UNCHANGED <<buf, to_extract_msg, capacity, extracted>>
  BY <1>2, <1>6, Zenon DEF SplitReads, PlainBehind
<1> QED BY <1>2, <1>5, <1>6

SplitInv == reads = "split" /\ SplitArePlain => SplitReads

LEMMA StepSplitInv == Types /\ SplitInv /\ [Next]_vars => SplitInv'
<1> SUFFICES ASSUME Types, SplitInv, [Next]_vars, reads' = "split", SplitArePlain PROVE SplitReads'
  BY DEF SplitInv
<1>1. stream \in Seq(Stretch)
  BY DEF Types
<1>2. reads' = reads
  BY <1>1, StepKeepsReads
<1>3. reads = "split" /\ SplitReads
  BY <1>2 DEF SplitInv
<1>4. ASSUME NEW n, NEW j, MayRead(stream, n, j), Read(n, j) PROVE SplitReads'
  BY <1>3, <1>4, ReadSplitReads
<1>5. CASE NewReading
  BY <1>3, <1>5, NewReadingSplitReads
<1>6. ASSUME NEW size, FinishingReading(size) PROVE SplitReads'
  BY <1>3, <1>6, FinishingSplitReads
<1>7. CASE UNCHANGED vars
  BY <1>3, <1>7, Zenon DEF vars, SplitReads, PlainBehind
<1> QED BY <1>1, <1>4, <1>5, <1>6, <1>7, StepIs, Zenon

\* Wherever a read ends, the program extracts what has been sent, in order, as far as
\* it gets: _finishing_reading never takes a byte of one message for one of another,
\* where no byte of a message but its first looks like a start mark.
THEOREM SplitReadsInOrder ==
    ASSUME SplitArePlain
    PROVE  Spec => []ReadInOrder
<1>1. Init => Types /\ SplitInv
  BY InitTypes, InitSplitReads DEF SplitInv
<1>2. Types /\ SplitInv /\ [Next]_vars => Types' /\ SplitInv'
  BY StepTypes, StepSplitInv
<1>3. Types /\ SplitInv => ReadInOrder
  <2> SUFFICES ASSUME Types, SplitInv, reads = "split" PROVE IsPrefix(extracted, due)
    BY DEF ReadInOrder
  <2>1. PICK ms \in Seq(Plain) : due = extracted \o ms
    BY Zenon DEF SplitInv, SplitReads, Line
  <2>2. PICK e, f, d \in Seq(Seq(Byte)) : e = extracted /\ f = ms /\ d = due
    <3>1. Plain \subseteq Message
      BY DEF Plain
    <3>2. ms \in Seq(Message)
      BY <3>1, SeqMonotonic
    <3>3. ms \in Seq(Seq(Byte)) /\ due \in Seq(Seq(Byte)) /\ extracted \in Seq(Seq(Byte))
      BY <3>2, MessagesJoined DEF Types
    <3> QED BY <3>3, Zenon
  <2>3. /\ d = e \o f
    BY <2>1, <2>2, Zenon
  <2>4. Len(e) <= Len(d) /\ e = SubSeq(d, 1, Len(e))
    <3>1. /\ Len(d) = Len(e) + Len(f) /\ \A k \in 1 .. Len(e) : d[k] = e[k]
      BY <2>3, JoinedAt
    <3>2. Len(e) \in 0 .. Len(d)
      BY <3>1, LenProperties
    <3>3. PICK p \in Seq(Seq(Byte)) :
              p = SubSeq(d, 1, Len(e)) /\ Len(p) = Len(e) /\ \A k \in 1 .. Len(e) : p[k] = d[k]
      <4>1. PICK n \in 0 .. Len(d) : n = Len(e)
        BY <3>2
      <4>2. /\ SubSeq(d, 1, n) \in Seq(Seq(Byte)) /\ Len(SubSeq(d, 1, n)) = n
            /\ \A k \in 1 .. n : SubSeq(d, 1, n)[k] = d[k]
        BY CutAt
      <4> QED BY <4>1, <4>2, Zenon
    <3>4. p = e
      BY <3>1, <3>3, SeqEqual
    <3> QED BY <3>2, <3>3, <3>4
  <2>5. IsPrefix(e, d)
    BY <2>4 DEF IsPrefix
  <2> QED BY <2>2, <2>5, Zenon
<1> QED BY <1>1, <1>2, <1>3, PTL DEF Spec

================================================================================
