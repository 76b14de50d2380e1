--------------------------- MODULE TimeoutHandler ---------------------------
(***************************************************************************)
(* One timeout handler: core/timeout_handler.cpp, and the time that        *)
(* BattleshipServer::run lets elapse on it after each select.              *)
(*                                                                         *)
(* The code keeps seconds and microseconds apart and borrows by hand, once *)
(* in run and once in process.  `duration', `total', `fired' and `stopped' *)
(* are history: what the handler was set to, how much time it was given,   *)
(* how often it fired and whether it was stopped.                          *)
(***************************************************************************)
EXTENDS Integers

CONSTANTS
    USEC,           \* microseconds in a second
    Seconds,        \* the seconds that clock readings and durations can have
    MaxTotal        \* bound on the microseconds that a handler is given

ASSUME TimeAssumption ==
    /\ USEC \in Nat \ {0}
    /\ Seconds \subseteq Nat
    /\ MaxTotal \in Nat

VARIABLES
    sec,
    usec,
    duration,
    total,
    fired,
    stopped

vars == <<sec, usec, duration, total, fired, stopped>>

-----------------------------------------------------------------------------

\* struct timeval as gettimeofday fills it.
Timeval == [sec : Seconds, usec : 0 .. (USEC - 1)]

Micros(s, u) == s * USEC + u

\* Variant: run borrows a second and forgets to take it off.
passed_time_unborrowed(before, after) ==
    [sec  |-> after.sec - before.sec,
     usec |-> after.usec - before.usec + (IF after.usec < before.usec THEN USEC ELSE 0)]

\* run: the difference of the clock readings around select.
passed_time(before, after) ==
    LET borrow == after.usec < before.usec
    IN  [sec  |-> after.sec - (IF borrow THEN 1 ELSE 0) - before.sec,
         usec |-> after.usec - before.usec + (IF borrow THEN USEC ELSE 0)]

elapsed(s, u) == s <= 0 /\ u <= 0

\* The members after process has taken off p_sec and p_usec.
remaining(p_sec, p_usec) ==
    LET borrow == usec < p_usec
        sec1   == IF borrow THEN sec - 1 ELSE sec
        usec1  == IF ~borrow THEN usec - p_usec
                  ELSE IF sec1 >= 0 THEN usec - p_usec + USEC ELSE 0
        sec2   == sec1 - p_sec
    IN  IF sec2 < 0 THEN [sec |-> 0, usec |-> 0] ELSE [sec |-> sec2, usec |-> usec1]

Init ==
    /\ sec \in Seconds
    /\ usec \in 0 .. (USEC - 1)
    /\ ~elapsed(sec, usec)
    /\ duration = Micros(sec, usec)
    /\ total = 0
    /\ fired = 0
    /\ stopped = FALSE

\* Variant: a handler that has elapsed is processed like any other.
process_elapsed(before, after) ==
    LET passed == passed_time(before, after)
        left   == remaining(passed.sec, passed.usec)
    IN  /\ Micros(before.sec, before.usec) <= Micros(after.sec, after.usec)
        /\ total' = total + Micros(after.sec, after.usec) - Micros(before.sec, before.usec)
        /\ total' <= MaxTotal
        /\ UNCHANGED <<duration, stopped>>
        /\ sec' = left.sec
        /\ usec' = left.usec
        /\ fired' = IF elapsed(left.sec, left.usec) THEN fired + 1 ELSE fired

\* A turn of the server's loop; nothing happens to a handler that has elapsed.
process(before, after) ==
    LET passed == passed_time(before, after)
        left   == remaining(passed.sec, passed.usec)
    IN  /\ Micros(before.sec, before.usec) <= Micros(after.sec, after.usec)
        /\ total' = total + Micros(after.sec, after.usec) - Micros(before.sec, before.usec)
        /\ total' <= MaxTotal
        /\ UNCHANGED <<duration, stopped>>
        /\ \/ /\ elapsed(sec, usec)
              /\ UNCHANGED <<sec, usec, fired>>
           \/ /\ ~elapsed(sec, usec)
              /\ sec' = left.sec
              /\ usec' = left.usec
              /\ fired' = IF elapsed(left.sec, left.usec) THEN fired + 1 ELSE fired

\* Variant: stop leaves the microseconds.
stop_seconds ==
    /\ sec' = 0
    /\ stopped' = TRUE
    /\ UNCHANGED <<usec, duration, total, fired>>

stop ==
    /\ sec' = 0
    /\ usec' = 0
    /\ stopped' = TRUE
    /\ UNCHANGED <<duration, total, fired>>

Next ==
    \/ \E before, after \in Timeval : process(before, after)
    \/ stop

Spec == Init /\ [][Next]_vars

-----------------------------------------------------------------------------

\* The members are normalised: whole seconds and less than a second besides.
TypeOK ==
    /\ sec \in Nat
    /\ usec \in 0 .. (USEC - 1)
    /\ duration \in Nat \ {0}
    /\ total \in 0 .. MaxTotal
    /\ fired \in 0 .. 1
    /\ stopped \in BOOLEAN

\* The borrowing in run and in process loses no microsecond, whatever way the
\* time is cut into pieces: what is left is the duration less the time given,
\* and nothing below zero.
RemainingIsExact ==
    ~stopped => Micros(sec, usec) = IF total < duration THEN duration - total ELSE 0

\* The event is triggered once, when the whole duration has been given and not
\* before; a handler that was stopped in time never triggers it.
FiresOnceAndOnTime ==
    /\ fired = 1 => total >= duration
    /\ ~stopped /\ total >= duration => fired = 1

\* A stopped handler stays silent.
StoppedIsSilent == [][stopped => fired' = fired]_vars

=============================================================================
