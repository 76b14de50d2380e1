------------------------ MODULE TimeoutHandlerProofs ------------------------
(***************************************************************************)
(* The arithmetic of the timeout handlers is right for a second of any     *)
(* number of microseconds, all durations and all clock readings.           *)
(***************************************************************************)
EXTENDS TimeoutHandler, TLAPS

-----------------------------------------------------------------------------

\* A whole second is more than any number of microseconds below it.
LEMMA WholeSeconds ==
    ASSUME NEW U \in Nat \ {0}, NEW s \in Int, NEW u \in 0 .. (U - 1)
    PROVE  /\ s * U \in Int
           /\ s >= 1 => s * U >= U
           /\ s <= -1 => s * U + u < 0
           /\ s >= 0 => s * U + u >= 0
           /\ s >= 0 => (s * U + u = 0 <=> s = 0 /\ u = 0)
  OBVIOUS

\* Multiplication by the length of a second distributes.
LEMMA SecondsDistribute ==
    ASSUME NEW U \in Nat, NEW a \in Int, NEW b \in Int
    PROVE  /\ (a - b) * U = a * U - b * U
           /\ (a - 1) * U = a * U - U
           /\ (a - 1 - b) * U = a * U - U - b * U
  OBVIOUS

\* A clock reading is a number of microseconds.
LEMMA ReadingTypes ==
    ASSUME NEW t \in Timeval
    PROVE  Micros(t.sec, t.usec) \in Int
  <1>1. USEC \in Nat \ {0} /\ t.sec \in Nat /\ t.usec \in 0 .. (USEC - 1)
    BY TimeAssumption DEF Timeval, TimeAssumption
  <1> QED BY <1>1, WholeSeconds DEF Micros

\* The borrow in run computes the time between the two readings.
LEMMA PassedTime ==
    ASSUME NEW before \in Timeval, NEW after \in Timeval,
           Micros(before.sec, before.usec) <= Micros(after.sec, after.usec)
    PROVE  LET passed == passed_time(before, after)
           IN  /\ passed.sec \in Nat
               /\ passed.usec \in 0 .. (USEC - 1)
               /\ Micros(passed.sec, passed.usec) =
                      Micros(after.sec, after.usec) - Micros(before.sec, before.usec)
  <1> DEFINE passed == passed_time(before, after)
  <1>1. /\ before.sec \in Nat /\ before.usec \in 0 .. (USEC - 1)
        /\ after.sec \in Nat /\ after.usec \in 0 .. (USEC - 1)
        /\ USEC \in Nat \ {0}
    BY TimeAssumption DEF Timeval, TimeAssumption
  <1> DEFINE bs == before.sec  bu == before.usec  as == after.sec  au == after.usec
             borrow == au < bu
  <1>2. passed = [sec  |-> IF borrow THEN as - 1 - bs ELSE as - bs,
                  usec |-> IF borrow THEN au - bu + USEC ELSE au - bu]
    BY <1>1 DEF passed_time
  <1>3. passed.sec \in Int /\ passed.usec \in 0 .. (USEC - 1)
    BY <1>1, <1>2
  <1>4. /\ bs * USEC \in Int /\ as * USEC \in Int
        /\ (as - bs) * USEC = as * USEC - bs * USEC
        /\ (as - 1 - bs) * USEC = as * USEC - USEC - bs * USEC
    BY <1>1, SecondsDistribute, WholeSeconds
  <1>5. Micros(passed.sec, passed.usec) = (as * USEC + au) - (bs * USEC + bu)
    <2>1. CASE borrow
      <3>1. Micros(passed.sec, passed.usec) = (as - 1 - bs) * USEC + (au - bu + USEC)
        BY <1>2, <2>1 DEF Micros
      <3> HIDE DEF passed, bs, bu, as, au
      <3> QED BY <1>1, <1>4, <3>1 DEF bs, bu, as, au
    <2>2. CASE ~borrow
      <3>1. Micros(passed.sec, passed.usec) = (as - bs) * USEC + (au - bu)
        BY <1>2, <2>2 DEF Micros
      <3> HIDE DEF passed, bs, bu, as, au
      <3> QED BY <1>1, <1>4, <3>1 DEF bs, bu, as, au
    <2> QED BY <2>1, <2>2
  <1>6. (as * USEC + au) - (bs * USEC + bu) >= 0
    BY <1>1, <1>4 DEF Micros
  <1> HIDE DEF passed
  <1>7. ~(passed.sec <= -1)
    BY <1>1, <1>3, <1>5, <1>6, WholeSeconds DEF Micros
  <1> QED BY <1>3, <1>5, <1>7 DEF passed, Micros

\* The borrow in process takes the passed time off and stops at zero.
LEMMA RemainingTime ==
    ASSUME sec \in Nat, usec \in 0 .. (USEC - 1),
           NEW p_sec \in Nat, NEW p_usec \in 0 .. (USEC - 1)
    PROVE  LET left == remaining(p_sec, p_usec)
               L    == Micros(sec, usec) - Micros(p_sec, p_usec)
           IN  /\ left.sec \in Nat
               /\ left.usec \in 0 .. (USEC - 1)
               /\ Micros(left.sec, left.usec) = IF L > 0 THEN L ELSE 0
  <1>1. USEC \in Nat \ {0}
    BY TimeAssumption DEF TimeAssumption
  <1> DEFINE left == remaining(p_sec, p_usec)
             L    == Micros(sec, usec) - Micros(p_sec, p_usec)
             d    == IF usec < p_usec THEN sec - 1 - p_sec ELSE sec - p_sec
             r    == IF usec < p_usec THEN usec - p_usec + USEC ELSE usec - p_usec
  <1>2. d \in Int /\ r \in 0 .. (USEC - 1)
    BY <1>1
  <1>3. L = d * USEC + r
    <2>1. CASE usec < p_usec
      BY <1>1, <2>1, SecondsDistribute, WholeSeconds DEF Micros
    <2>2. CASE ~(usec < p_usec)
      BY <1>1, <2>2, SecondsDistribute, WholeSeconds DEF Micros
    <2> QED BY <2>1, <2>2
  <1>4. left = IF d < 0 THEN [sec |-> 0, usec |-> 0] ELSE [sec |-> d, usec |-> r]
    BY <1>1 DEF remaining
  <1> HIDE DEF left, L, d, r
  <1>5. CASE d < 0
    <2>1. L < 0
      BY <1>1, <1>2, <1>3, <1>5, WholeSeconds
    <2>2. left.sec = 0 /\ left.usec = 0 /\ 0 * USEC = 0
      BY <1>1, <1>4, <1>5
    <2> QED BY <1>1, <2>1, <2>2 DEF Micros, left, L
  <1>6. CASE d >= 0
    <2>1. L >= 0 /\ L \in Int
      BY <1>1, <1>2, <1>3, <1>6, WholeSeconds
    <2>2. left.sec = d /\ left.usec = r
      BY <1>2, <1>4, <1>6
    <2> QED BY <1>2, <1>3, <1>6, <2>1, <2>2 DEF Micros, left, L
  <1> QED BY <1>2, <1>5, <1>6

\* The handler keeps exact time; a stopped one has none left, so that it cannot
\* fire again.
TimeInv ==
    /\ TypeOK
    /\ RemainingIsExact
    /\ FiresOnceAndOnTime
    /\ stopped => elapsed(sec, usec)

\* The strengthened invariant is inductive.
LEMMA TimeInvariant == Spec => []TimeInv
<1>1. USEC \in Nat \ {0} /\ Seconds \subseteq Nat /\ MaxTotal \in Nat
  BY TimeAssumption DEF TimeAssumption
<1>2. Init => TimeInv
  <2> SUFFICES ASSUME Init PROVE TimeInv
    OBVIOUS
  <2>1. sec \in Nat /\ usec \in 0 .. (USEC - 1) /\ ~(sec = 0 /\ usec = 0)
    BY <1>1 DEF Init, elapsed
  <2>2. Micros(sec, usec) \in Nat \ {0}
    BY <1>1, <2>1, WholeSeconds DEF Micros
  <2>3. duration = Micros(sec, usec) /\ total = 0 /\ fired = 0 /\ stopped = FALSE
    BY DEF Init
  <2>4. TypeOK
    <3>1. stopped \in BOOLEAN
      BY DEF Init
    <3> QED BY <1>1, <2>1, <2>2, <2>3, <3>1 DEF TypeOK
  <2>5. RemainingIsExact /\ FiresOnceAndOnTime
    BY <2>2, <2>3 DEF RemainingIsExact, FiresOnceAndOnTime
  <2> QED BY <2>3, <2>4, <2>5 DEF TimeInv
<1>3. TimeInv /\ [Next]_vars => TimeInv'
  <2> SUFFICES ASSUME TimeInv, [Next]_vars PROVE TimeInv'
    OBVIOUS
  <2> USE <1>1 DEF TimeInv
  <2>1. ASSUME NEW before \in Timeval, NEW after \in Timeval, process(before, after)
        PROVE  TimeInv'
    <3> DEFINE passed == passed_time(before, after)
               left   == remaining(passed.sec, passed.usec)
               P      == Micros(passed.sec, passed.usec)
    <3>1. passed.sec \in Nat /\ passed.usec \in 0 .. (USEC - 1)
      BY <2>1, PassedTime DEF process
    <3>2. P \in Nat
      BY <3>1, WholeSeconds DEF Micros
    <3>3. /\ total' = total + P /\ total' <= MaxTotal
          /\ duration' = duration /\ stopped' = stopped
      <4>1. P = Micros(after.sec, after.usec) - Micros(before.sec, before.usec)
        BY <2>1, PassedTime DEF process
      <4>2. Micros(after.sec, after.usec) \in Int /\ Micros(before.sec, before.usec) \in Int
        BY ReadingTypes
      <4>3. total' = total + Micros(after.sec, after.usec) - Micros(before.sec, before.usec)
        BY <2>1 DEF process
      <4> HIDE DEF P
      <4>4. total' = total + P
        BY <4>1, <4>2, <4>3 DEF TypeOK
      <4> QED BY <2>1, <4>4 DEF process
    <3>4. CASE elapsed(sec, usec) /\ UNCHANGED <<sec, usec, fired>>
      <4>1. sec = 0 /\ usec = 0 /\ Micros(sec, usec) = 0
        BY <3>4 DEF elapsed, TypeOK, Micros
      <4>2. ~stopped => total >= duration
        BY <4>1 DEF RemainingIsExact, TypeOK
      <4> HIDE DEF P
      <4> QED BY <3>2, <3>3, <3>4, <4>1, <4>2
              DEF TypeOK, RemainingIsExact, FiresOnceAndOnTime, Micros, elapsed
    <3>5. CASE /\ ~elapsed(sec, usec)
               /\ sec' = left.sec /\ usec' = left.usec
               /\ fired' = IF elapsed(left.sec, left.usec) THEN fired + 1 ELSE fired
      <4>1. /\ left.sec \in Nat /\ left.usec \in 0 .. (USEC - 1)
            /\ Micros(left.sec, left.usec) =
                  IF Micros(sec, usec) > P THEN Micros(sec, usec) - P ELSE 0
        BY <3>1, <3>2, RemainingTime, WholeSeconds DEF TypeOK, Micros
      <4>2. Micros(sec, usec) > 0
        BY <3>5, WholeSeconds DEF elapsed, TypeOK, Micros
      <4>3. elapsed(left.sec, left.usec) <=> Micros(left.sec, left.usec) = 0
        BY <4>1, WholeSeconds DEF elapsed, Micros
      <4> HIDE DEF left, P
      <4> DEFINE M == Micros(sec, usec)
      <4>4. ~stopped
        BY <3>5
      <4>5. M \in Nat \ {0} /\ total < duration /\ M = duration - total /\ fired = 0
        BY <4>2, <4>4 DEF RemainingIsExact, FiresOnceAndOnTime, TypeOK
      <4>6. Micros(sec', usec') = IF M > P THEN M - P ELSE 0
        BY <3>5, <4>1
      <4>7. fired' = IF M > P THEN 0 ELSE 1
        BY <3>2, <3>5, <4>1, <4>3, <4>5
      <4> HIDE DEF M
      <4>8. TypeOK'
        BY <3>2, <3>3, <3>5, <4>1, <4>7 DEF TypeOK
      <4>9. RemainingIsExact' /\ FiresOnceAndOnTime'
        <5>1. Micros(sec, usec)' = Micros(sec', usec')
          BY DEF Micros
        <5> QED BY <3>2, <3>3, <4>5, <4>6, <4>7, <5>1
                DEF RemainingIsExact, FiresOnceAndOnTime, TypeOK
      <4> QED BY <3>3, <4>4, <4>8, <4>9
    <3> QED BY <2>1, <3>4, <3>5 DEF process
  <2>2. CASE stop
    BY <2>2 DEF stop, TypeOK, RemainingIsExact, FiresOnceAndOnTime, elapsed
  <2>3. CASE UNCHANGED vars
    BY <2>3 DEF vars, TypeOK, RemainingIsExact, FiresOnceAndOnTime, Micros, elapsed
  <2> QED BY <2>1, <2>2, <2>3 DEF Next
<1> QED BY <1>2, <1>3, PTL DEF Spec

\* However the time is cut into pieces, the borrowing loses none of it; the
\* event comes once, with the piece in which the duration ends.
THEOREM ExactTime == Spec => [](TypeOK /\ RemainingIsExact /\ FiresOnceAndOnTime)
<1>1. TimeInv => TypeOK /\ RemainingIsExact /\ FiresOnceAndOnTime
  BY DEF TimeInv
<1> QED BY <1>1, TimeInvariant, PTL

\* The event comes once, and neither before nor after its time.
THEOREM FiresOnTime == Spec => []FiresOnceAndOnTime
  BY ExactTime, PTL

\* stop() is enough to cancel a handler that is still on the server's list: no
\* later process() triggers its event.
THEOREM StopCancels == Spec => StoppedIsSilent
<1>1. TimeInv /\ [Next]_vars => [stopped => fired' = fired]_vars
  BY DEF TimeInv, Next, process, stop, vars
<1> QED BY <1>1, TimeInvariant, PTL DEF Spec, StoppedIsSilent

=============================================================================
