-------------------------------- MODULE Timer --------------------------------
(***************************************************************************)
(* The count-down shown to a player: core/timer.cpp.                       *)
(***************************************************************************)
EXTENDS Integers

CONSTANTS
    Duration,       \* the durations that set_duration and the constructor are given
    MaxTime         \* bound on the clock

VARIABLES
    start_time,
    duration,
    now             \* time(NULL)

vars == <<start_time, duration, now>>

INACTIVE == -1

is_active == start_time # INACTIVE /\ duration > 0

remain ==
    IF ~is_active \/ now - start_time > duration THEN 0
    ELSE duration - (now - start_time)

\* The constructor takes the duration as it is.
Init ==
    /\ start_time = INACTIVE
    /\ duration \in Duration
    /\ now = 0

start ==
    /\ start_time' = now
    /\ UNCHANGED <<duration, now>>

stop ==
    /\ start_time' = INACTIVE
    /\ UNCHANGED <<duration, now>>

set_duration(d) ==
    /\ duration' = IF d < 0 THEN 0 ELSE d
    /\ UNCHANGED <<start_time, now>>

Tick ==
    /\ now < MaxTime
    /\ now' = now + 1
    /\ UNCHANGED <<start_time, duration>>

Next ==
    \/ start
    \/ stop
    \/ \E d \in Duration : set_duration(d)
    \/ Tick

Spec == Init /\ [][Next]_vars

-----------------------------------------------------------------------------

\* timer.h promises of is_active() that it is true `if the timer is started and
\* the duration time hasn't passed'.
ActiveUntilDurationPassed ==
    is_active <=> start_time # INACTIVE /\ now - start_time < duration

=============================================================================
