---------------------------- MODULE TimerManager -----------------------------
(***************************************************************************)
(* The timer manager of src/src/TimerManager.cpp with its Timer objects    *)
(* (src/src/Timer.cpp), the clock it reads (GetTime of Platform_Linux.cpp) *)
(* and the part of PollSockets that calls it back.  TorpClass::HandleEvents*)
(* fires the timers found expired and then polls; polling ends with the    *)
(* search for expired timers.  The program creates and deletes timers      *)
(* between two calls of HandleEvents and from the timers' callbacks.       *)
(*                                                                         *)
(* TIMERS are heap addresses.  A Timer is never freed, so that an address  *)
(* is used once.  Time passes in ticks, TicksPerMs of them in a            *)
(* millisecond: a timer may be created at any of them.                     *)
(***************************************************************************)
EXTENDS Integers, FiniteSets

CONSTANTS
    TIMERS,         \* addresses of Timer objects, ordered as pointers are
    Delays,         \* the timeouts the program asks for
    TicksPerMs,     \* how finely time is looked at
    MaxNow,         \* bound: the last tick that is looked at
    Epoch,          \* what CLOCK_REALTIME shows at the start, in ticks
    ClockSettings,  \* what CLOCK_REALTIME may be set to, {} if it is steady
    MaxGained,      \* bound: how far it may be set forward in all
    LongMod,        \* 2^w for the w bits of a long
    U64Mod,         \* 2^64 for a uint64_t
    NULL, Garbage

ASSUME TimersAreAddresses == TIMERS \subseteq Nat \ {0} /\ IsFiniteSet(TIMERS)
ASSUME TimesAreNumbers ==
    /\ Delays \subseteq Nat /\ MaxNow \in Nat /\ TicksPerMs \in Nat \ {0}
    /\ Epoch \in Nat /\ ClockSettings \subseteq Nat /\ MaxGained \in Nat
ASSUME WidthsAreNumbers ==
    /\ LongMod \in Nat \ {0} /\ U64Mod \in Nat \ {0}
    /\ LongMod % 2 = 0 /\ LongMod <= U64Mod

VARIABLES
    now,              \* the ticks that have passed since the start
    clock,            \* CLOCK_REALTIME, in ticks
    mTimers,          \* the timers in the multimap, keyed by their fireTime
    mFiredTimers,     \* the timers found expired and not cleared yet
    fireTime,         \* mFireTime of a timer
    mActive,          \* mActive of a timer, FALSE before it exists
    mTimeoutCallback, \* "registered", NULL, or never set
    pc,               \* "app", "firing", "polling" or "undefined"
    cursor,           \* the last timer the loop of HandleEvents has fired
    gained,           \* how far the clock was set forward in all (history)
    due,              \* when the timer was to fire, in now + gained (history)
    calls,            \* how often its callback was called (history)
    overdue,          \* those whose time had come when the last wait for
                      \* sockets was over (history)
    deleted           \* the timers passed to DeleteTimer (history)

timerMaps == <<mTimers, mFiredTimers>>
history == <<gained, due, calls, overdue, deleted>>
vars == <<now, clock, timerMaps, fireTime, mActive, mTimeoutCallback,
          pc, cursor, history>>

TypeOK ==
    /\ now \in 0 .. MaxNow
    /\ clock \in Nat
    /\ mTimers \subseteq TIMERS
    /\ mFiredTimers \subseteq TIMERS
    /\ fireTime \in [TIMERS -> 0 .. U64Mod - 1]
    /\ mActive \in [TIMERS -> BOOLEAN]
    /\ mTimeoutCallback \in {"registered", NULL, Garbage}
    /\ pc \in {"app", "firing", "polling", "undefined"}
    /\ cursor \in TIMERS \cup {0}
    /\ gained \in 0 .. MaxGained
    /\ due \in [TIMERS -> Nat]
    /\ calls \in [TIMERS -> Nat]
    /\ overdue \subseteq TIMERS
    /\ deleted \subseteq TIMERS

\* Init of the timer manager clears the maps; the callback of the platform is
\* left as the constructor left it.
Init ==
    /\ now = 0
    /\ clock = Epoch
    /\ mTimers = {}
    /\ mFiredTimers = {}
    /\ fireTime = [t \in TIMERS |-> 0]
    /\ mActive = [t \in TIMERS |-> FALSE]
    /\ mTimeoutCallback \in {NULL, Garbage}
    /\ pc = "app"
    /\ cursor = 0
    /\ gained = 0
    /\ due = [t \in TIMERS |-> 0]
    /\ calls = [t \in TIMERS |-> 0]
    /\ overdue = {}
    /\ deleted = {}

Created == {t \in TIMERS : mActive[t] \/ calls[t] > 0}

-----------------------------------------------------------------------------
(* The calls of the program. *)

\* The nanoseconds are cut to whole milliseconds.  tv_sec * 1000 is computed in
\* a long and wraps; the sum is converted to a uint64_t, which a negative long
\* makes a huge number.
GetTime ==
    LET long == (clock \div TicksPerMs) % LongMod
    IN  IF long < LongMod \div 2 THEN long ELSE U64Mod - LongMod + long

\* Before the first HandleEvents or between two.
Start ==
    /\ pc = "app"
    /\ mTimeoutCallback' = "registered"
    /\ UNCHANGED <<now, clock, timerMaps, fireTime, mActive, pc, cursor, history>>

CreateTimer(t, msecs) ==
    /\ pc \in {"app", "firing"} /\ t \notin Created
    /\ mTimers' = mTimers \cup {t}
    /\ fireTime' = [fireTime EXCEPT ![t] = (GetTime + msecs) % U64Mod]
    /\ mActive' = [mActive EXCEPT ![t] = TRUE]
    /\ due' = [due EXCEPT ![t] = now + gained + msecs * TicksPerMs]
    /\ UNCHANGED <<now, clock, mFiredTimers, mTimeoutCallback, pc, cursor,
                   gained, calls, overdue, deleted>>

\* The body of DeleteTimer is empty.
DeleteTimer(t) ==
    /\ pc \in {"app", "firing"} /\ t \in Created
    /\ deleted' = deleted \cup {t}
    /\ UNCHANGED <<now, clock, timerMaps, fireTime, mActive, mTimeoutCallback,
                   pc, cursor, gained, due, calls, overdue>>

-----------------------------------------------------------------------------
(* TorpClass::HandleEvents *)

\* Mutant: the fired timers are cleared before the loop.
HandleEvents_ClearsFirst ==
    /\ pc = "app"
    /\ pc' = "firing"
    /\ cursor' = 0
    /\ mFiredTimers' = {}
    /\ UNCHANGED <<now, clock, mTimers, fireTime, mActive, mTimeoutCallback,
                   history>>

HandleEvents ==
    /\ pc = "app"
    /\ pc' = "firing"
    /\ cursor' = 0
    /\ UNCHANGED <<now, clock, timerMaps, fireTime, mActive, mTimeoutCallback,
                   history>>

Unvisited == {t \in mFiredTimers : t > cursor}

\* The loop visits mFiredTimers in the order of the addresses.
fired(t) ==
    /\ pc = "firing"
    /\ t \in Unvisited /\ \A other \in Unvisited : t <= other
    /\ mActive' = [mActive EXCEPT ![t] = FALSE]
    /\ calls' = [calls EXCEPT ![t] = @ + 1]
    /\ cursor' = t
    /\ UNCHANGED <<now, clock, timerMaps, fireTime, mTimeoutCallback, pc,
                   gained, due, overdue, deleted>>

\* Mutant: the fired timers are not cleared.
FiringEnds_NoClear ==
    /\ pc = "firing" /\ Unvisited = {}
    /\ cursor' = 0
    /\ pc' = "polling"
    /\ UNCHANGED <<now, clock, timerMaps, fireTime, mActive, mTimeoutCallback,
                   history>>

FiringEnds ==
    /\ pc = "firing" /\ Unvisited = {}
    /\ mFiredTimers' = {}
    /\ cursor' = 0
    /\ pc' = "polling"
    /\ UNCHANGED <<now, clock, mTimers, fireTime, mActive, mTimeoutCallback,
                   history>>

\* Mutants: one millisecond early; only in the very millisecond.
Expired_Early == {t \in mTimers : fireTime[t] <= GetTime + 1}
Expired_Exact == {t \in mTimers : fireTime[t] = GetTime}

Expired == {t \in mTimers : fireTime[t] <= GetTime}

\* The timers whose time has come, wherever they are: what checkExpired is for.
Overdue == {t \in TIMERS : mActive[t] /\ fireTime[t] <= GetTime}

\* Mutant: expired timers are not erased from the multimap.
checkExpired_NoErase ==
    /\ pc = "polling" /\ mTimeoutCallback = "registered"
    /\ mFiredTimers' = mFiredTimers \cup Expired
    /\ pc' = "app"
    /\ overdue' = Overdue
    /\ UNCHANGED <<now, clock, mTimers, fireTime, mActive, mTimeoutCallback,
                   cursor, gained, due, calls, deleted>>

\* Mutant: the pointer to the timer is not read before it is moved.
checkExpired_MovesNull ==
    /\ pc = "polling" /\ mTimeoutCallback = "registered"
    /\ mTimers' = mTimers \ Expired
    /\ mFiredTimers' = mFiredTimers \cup {0 : t \in Expired}
    /\ pc' = "app"
    /\ overdue' = Overdue
    /\ UNCHANGED <<now, clock, fireTime, mActive, mTimeoutCallback, cursor,
                   gained, due, calls, deleted>>

\* The wait for sockets is over, whatever ended it.
checkExpired ==
    /\ pc = "polling" /\ mTimeoutCallback = "registered"
    /\ mTimers' = mTimers \ Expired
    /\ mFiredTimers' = mFiredTimers \cup Expired
    /\ pc' = "app"
    /\ overdue' = Overdue
    /\ UNCHANGED <<now, clock, fireTime, mActive, mTimeoutCallback, cursor,
                   gained, due, calls, deleted>>

\* The program did not call Start: PollSockets tests and calls the pointer.
NoTimeoutCallback ==
    /\ pc = "polling" /\ mTimeoutCallback # "registered"
    /\ pc' = IF mTimeoutCallback = Garbage THEN "undefined" ELSE "app"
    /\ UNCHANGED <<now, clock, timerMaps, fireTime, mActive, mTimeoutCallback,
                   cursor, history>>

-----------------------------------------------------------------------------
(* Time. *)

Tick ==
    /\ pc # "undefined" /\ now < MaxNow
    /\ now' = now + 1
    /\ clock' = clock + 1
    /\ UNCHANGED <<timerMaps, fireTime, mActive, mTimeoutCallback, pc, cursor,
                   history>>

ClockIsSet ==
    /\ pc # "undefined"
    /\ clock' \in ClockSettings
    /\ gained' = gained + (IF clock' > clock THEN clock' - clock ELSE 0)
    /\ gained' <= MaxGained
    /\ UNCHANGED <<now, timerMaps, fireTime, mActive, mTimeoutCallback, pc,
                   cursor, due, calls, overdue, deleted>>

-----------------------------------------------------------------------------
Calls ==
    \/ Start
    \/ \E t \in TIMERS :
          DeleteTimer(t) \/ (\E msecs \in Delays : CreateTimer(t, msecs))

Program == Calls \/ HandleEvents

EventLoop ==
    \/ \E t \in TIMERS : fired(t)
    \/ FiringEnds
    \/ checkExpired
    \/ NoTimeoutCallback

Next == Program \/ EventLoop \/ Tick \/ ClockIsSet

Spec == Init /\ [][Next]_vars

\* The program calls HandleEvents in an endless loop and the thread is
\* scheduled.
Fairness == WF_vars(HandleEvents) /\ WF_vars(EventLoop)

FairSpec == Spec /\ Fairness

-----------------------------------------------------------------------------
(* Safety. *)

Waiting == mTimers \cup {t \in mFiredTimers : mActive[t]}

\* A timer that exists and was not called back is in exactly one of the two
\* maps, whatever its callback or an earlier one creates meanwhile: erase and
\* insert in checkExpired and clear in HandleEvents lose no timer, and a timer
\* of an earlier call never comes back.
NoTimerIsLost ==
    /\ mTimers \cap mFiredTimers = {}
    /\ Waiting = {t \in TIMERS : mActive[t]}

\* A timer's callback is called at most once.
FiresAtMostOnce == \A t \in TIMERS : calls[t] <= 1

\* No timer's callback is called before its timeout (TimerManager.h:59) has
\* passed by more than the clock was set forward meanwhile and a part of a
\* millisecond, which GetTime cuts off.
NeverEarly ==
    \A t \in TIMERS : calls[t] > 0 => due[t] < now + gained + TicksPerMs

\* The timers keep the promise of TimerService, in the time that has passed
\* and that the clock was set forward.
Service == INSTANCE TimerService WITH
    now <- now + gained,
    state <- [t \in TIMERS |-> IF mActive[t] THEN "armed"
                               ELSE IF calls[t] > 0 THEN "fired" ELSE "free"]

ImplementsTimerService == Service!ServiceSpec

-----------------------------------------------------------------------------
(* Liveness. *)

\* Every timer whose time has come on the clock is called back once the timer
\* manager was started, wherever in the loop it was created, unless the clock
\* is set back before it was found expired.
EveryTimerFires ==
    \A t \in TIMERS :
        (mActive[t] /\ fireTime[t] <= GetTime /\ mTimeoutCallback = "registered")
            ~> (calls[t] > 0 \/ GetTime < fireTime[t])

-----------------------------------------------------------------------------
(* What the comments of the code say, and the code does not do. *)

\* A timer that was deleted before it was called back is never called
\* (TimerManager.h:65, "Delete (and cancel) a timer").
DeletedTimerStaysQuiet ==
    [][\A t \in deleted : calls'[t] = calls[t]]_vars
=============================================================================
