----------------------------- MODULE MCTorpClass ------------------------------
(* Values of the constants of TorpClass for TLC. *)
EXTENDS TorpClass, TLC

CONSTANTS c1, c2

TwoSockets == 3 .. 4

\* No step of TorpClass depends on result, on when a timer is due, on which
\* timers were passed to DeleteTimer, or on how far the clock was set forward
\* (at most once, by one tick, so that MaxGained = 1 never bounds it), the one
\* server is live when a socket listens, and a process that has ended takes no
\* step: TLC keeps one of the states that differ only there.
View ==
    IF Ended THEN <<pc, timerPc>>
    ELSE <<sockets, platform, clients, mClientCallback, current, now, clock,
           mTimers, mFiredTimers, fireTime, mActive, mTimeoutCallback, cursor,
           calls, overdue, timerPc>>

Symmetry == Permutations(CLIENTS)
=============================================================================
