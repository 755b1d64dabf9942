------------------------------ MODULE TorpClass -------------------------------
(***************************************************************************)
(* The library as src/src/TorpClass.cpp puts it together: HandleEvents     *)
(* fires the timers found expired and then polls the sockets, and the      *)
(* poller lets the timer manager look for expired timers when poll(2) has  *)
(* returned, before it serves the descriptors (PollSockets of              *)
(* src/src/Platform_Linux.cpp).  The program calls both managers, from     *)
(* main, from its client callback and from its timers' callbacks.          *)
(*                                                                         *)
(* The one thread has two control points: pc is where it is for the        *)
(* connection manager, timerPc where it is for the timer manager.          *)
(***************************************************************************)
EXTENDS ConnManager

CONSTANTS TIMERS, Delays, TicksPerMs, MaxNow, Epoch, ClockSettings, MaxGained,
          LongMod, U64Mod

ASSUME TimersAreAddresses == TIMERS \subseteq Nat \ {0} /\ IsFiniteSet(TIMERS)
ASSUME TimesAreNumbers ==
    /\ Delays \subseteq Nat /\ MaxNow \in Nat /\ TicksPerMs \in Nat \ {0}
    /\ Epoch \in Nat /\ ClockSettings \subseteq Nat /\ MaxGained \in Nat
ASSUME WidthsAreNumbers ==
    /\ LongMod \in Nat \ {0} /\ U64Mod \in Nat \ {0}
    /\ LongMod % 2 = 0 /\ LongMod <= U64Mod

VARIABLES
    now, clock, mTimers, mFiredTimers, fireTime, mActive, mTimeoutCallback,
    cursor, gained, due, calls, overdue, deleted,
    timerPc

timers == <<now, clock, mTimers, mFiredTimers, fireTime, mActive,
            mTimeoutCallback, cursor, gained, due, calls, overdue, deleted,
            timerPc>>
torpVars == <<vars, timers>>

T == INSTANCE TimerManager WITH pc <- timerPc

TorpTypeOK ==
    /\ TypeOK /\ T!TypeOK
    /\ timerPc = "firing" => pc \in {"app", "appWriting"} \cup Over
    /\ timerPc \in {"polling", "undefined"} => pc \in {"polling"} \cup Over
    /\ pc = "polling" => timerPc \in {"polling", "undefined"}

\* Init of TorpClass.cpp.
TorpInit == Init /\ T!Init

\* The end of what can be said of the process, or a sleep until a peer acts.
Ended == pc \in Over \/ timerPc = "undefined"
Stuck == pc \in Asleep \/ Ended

\* A connection that its peer has ended or refused, and that is still open.
PeerEnded(sd) == kind[sd] \in {"connected", "refused"} /\ input[sd] = "eof"

-----------------------------------------------------------------------------
(* The program. *)

SocketCalls == Calls /\ UNCHANGED timers

TimerCalls == InProgram /\ T!Calls /\ UNCHANGED vars

-----------------------------------------------------------------------------
(* HandleEvents of TorpClass.cpp. *)

HandleTimers == pc = "app" /\ T!HandleEvents /\ UNCHANGED vars

\* The loop goes on when the callback of the timer before has returned.
CallTimer == pc = "app" /\ (\E t \in TIMERS : T!fired(t)) /\ UNCHANGED vars

\* Mutant: the sockets are polled first, and the timers wait.
HandleSockets_First ==
    /\ HandleEvents
    /\ timerPc \in {"app", "firing"} /\ timerPc' = "polling"
    /\ UNCHANGED <<now, clock, mTimers, mFiredTimers, fireTime, mActive,
                   mTimeoutCallback, cursor, gained, due, calls, overdue,
                   deleted>>

HandleSockets == HandleEvents /\ T!FiringEnds

\* Mutant: the timers are looked at when no descriptor is readable only.
TimersChecked_IdleOnly ==
    IF pc' = "pass"
    THEN timerPc' = "app" /\ UNCHANGED <<now, clock, mTimers, mFiredTimers,
             fireTime, mActive, mTimeoutCallback, cursor, gained, due, calls,
             overdue, deleted>>
    ELSE T!checkExpired \/ (mTimeoutCallback = NULL /\ T!NoTimeoutCallback)

TimersChecked == T!checkExpired \/ (mTimeoutCallback = NULL /\ T!NoTimeoutCallback)

\* Mutant: the loop is entered after poll(2) has failed, too.
PollEnds_IgnoresFailure ==
    /\ pc = "polling" /\ mNumToPoll \notin {0, Garbage}
    /\ pc' = "pass" /\ next' = 1
    /\ UNCHANGED <<sockets, registry, revents, clients, servers,
                   mClientCallback, caller>>
    /\ TimersChecked

\* poll(2) is over, and then the search for expired timers.
PollEnds == PollReturns /\ TimersChecked

\* The use of a member that was never set.
PollUndefined ==
    \/ /\ pc = "polling" /\ mTimeoutCallback = Garbage
       /\ T!NoTimeoutCallback
       /\ UNCHANGED vars
    \/ /\ timerPc = "polling"
       /\ PollBreaks
       /\ UNCHANGED timers

TorpHandleEvents ==
    \/ HandleTimers
    \/ CallTimer
    \/ HandleSockets
    \/ PollEnds
    \/ PollUndefined
    \/ Dispatch /\ UNCHANGED timers

-----------------------------------------------------------------------------
(* The world outside. *)

TorpRemote == ~Ended /\ Remote /\ UNCHANGED timers

TimePasses == ~Ended /\ (T!Tick \/ T!ClockIsSet) /\ UNCHANGED vars

TorpNext == SocketCalls \/ TimerCalls \/ TorpHandleEvents \/ TorpRemote \/ TimePasses

TorpSpec == TorpInit /\ [][TorpNext]_torpVars

-----------------------------------------------------------------------------
(* Safety. *)

\* Composed with timers, the connection manager takes none but the steps that
\* ConnManager describes: also when timers' callbacks start and stop clients.
ImplementsConnManager == Spec

\* Composed with sockets, the timer manager takes none but the steps that
\* TimerManager describes.
ImplementsTimerManager == T!Spec

\* Called between two waits for sockets, and with the clock set at any moment,
\* each timer is still in exactly one map until it is called back, once.  When
\* that is, it does not say: that depends on the clock (NeverEarly).
TimersAreKept == T!NoTimerIsLost /\ T!FiresAtMostOnce

\* A timer whose time had come when a wait for sockets was over is called back
\* before the thread waits again, also when a callback runs between the two.
FiredBeforePolling == pc = "polling" => \A t \in overdue : calls[t] = 1
=============================================================================
