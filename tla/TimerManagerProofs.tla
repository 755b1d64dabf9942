-------------------------- MODULE TimerManagerProofs --------------------------
(***************************************************************************)
(* Proofs about TimerManager for every set of timers, every set of         *)
(* timeouts, every horizon, every width of long, every length of a tick    *)
(* and every way the clock is set.  Only the bound on how early a timer is *)
(* called, and the refinement of TimerService that rests on it, need a     *)
(* clock that stays in the range of a positive long.                       *)
(***************************************************************************)
EXTENDS TimerManager, TLAPS

-----------------------------------------------------------------------------
(* Type correctness. *)

\* GetTime is a uint64_t whatever the clock shows.
LEMMA GetTimeType ==
    ASSUME clock \in Nat
    PROVE  GetTime \in 0 .. U64Mod - 1
<1> DEFINE long == (clock \div TicksPerMs) % LongMod
<1>1. long \in 0 .. LongMod - 1
    BY WidthsAreNumbers, TimesAreNumbers
<1>2. CASE long < LongMod \div 2
    BY <1>1, <1>2, WidthsAreNumbers DEF GetTime
<1>3. CASE ~(long < LongMod \div 2)
    <2>1. GetTime = U64Mod - LongMod + long
        BY <1>3 DEF GetTime
    <2> QED BY <2>1, <1>1, WidthsAreNumbers
<1> QED BY <1>2, <1>3

LEMMA Gains ==
    ASSUME NEW c \in Nat, NEW d \in Nat, NEW g \in Nat, NEW h,
           h = g + (IF d > c THEN d - c ELSE 0)
    PROVE  h \in Nat /\ g <= h /\ d + g <= c + h
<1>1. CASE d > c
    <2>1. h = g + (d - c)
        BY <1>1
    <2> QED BY <1>1, <2>1
<1>2. CASE ~(d > c)
    <2>1. h = g
        BY <1>2
    <2> QED BY <1>2, <2>1
<1> QED BY <1>1, <1>2

\* Setting the clock gains what it is set forward.
LEMMA SettingGains ==
    ASSUME TypeOK, ClockIsSet
    PROVE  /\ clock' \in ClockSettings /\ clock' \in Nat
           /\ gained' \in 0 .. MaxGained
           /\ gained <= gained' /\ clock' + gained <= clock + gained'
<1>1. clock' \in ClockSettings /\ clock' \in Nat
    BY TimesAreNumbers DEF ClockIsSet
<1>2. clock \in Nat /\ gained \in Nat
    BY TimesAreNumbers DEF TypeOK
<1>3. gained' \in Nat /\ gained <= gained' /\ clock' + gained <= clock + gained'
    BY <1>1, <1>2, Gains DEF ClockIsSet
<1>4. gained' <= MaxGained
    BY DEF ClockIsSet
<1>5. gained' \in 0 .. MaxGained
    BY <1>3, <1>4, TimesAreNumbers
<1> QED BY <1>1, <1>3, <1>5

\* No step leaves the types: in particular fireTime stays in a uint64_t.
LEMMA TypePreserved == TypeOK /\ [Next]_vars => TypeOK'
<1> SUFFICES ASSUME TypeOK, [Next]_vars PROVE TypeOK'
    OBVIOUS
<1> USE DEF TypeOK
<1>1. CASE Start
    BY <1>1 DEF Start, timerMaps, history
<1>2. ASSUME NEW t \in TIMERS, NEW msecs \in Delays, CreateTimer(t, msecs)
      PROVE  TypeOK'
    <2>1. (GetTime + msecs) % U64Mod \in 0 .. U64Mod - 1
        BY GetTimeType, TimesAreNumbers, WidthsAreNumbers
    <2>2. now + gained + msecs * TicksPerMs \in Nat
        BY TimesAreNumbers
    <2> QED BY <1>2, <2>1, <2>2 DEF CreateTimer
<1>3. ASSUME NEW t \in TIMERS, DeleteTimer(t) PROVE TypeOK'
    BY <1>3 DEF DeleteTimer, timerMaps
<1>4. CASE HandleEvents
    BY <1>4 DEF HandleEvents, timerMaps, history
<1>5. ASSUME NEW t \in TIMERS, fired(t) PROVE TypeOK'
    BY <1>5 DEF fired, timerMaps
<1>6. CASE FiringEnds
    BY <1>6 DEF FiringEnds, history
<1>7. CASE checkExpired
    BY <1>7 DEF checkExpired, Expired, Overdue
<1>8. CASE NoTimeoutCallback
    BY <1>8 DEF NoTimeoutCallback, timerMaps, history
<1>9. CASE Tick
    BY <1>9, TimesAreNumbers DEF Tick, timerMaps, history
<1>10. CASE ClockIsSet
    <2>1. clock' \in Nat /\ gained' \in 0 .. MaxGained
        BY <1>10, SettingGains
    <2> QED BY <1>10, <2>1 DEF ClockIsSet, timerMaps
<1>11. CASE UNCHANGED vars
    BY <1>11 DEF vars, timerMaps, history
<1> QED
    BY <1>1, <1>2, <1>3, <1>4, <1>5, <1>6, <1>7, <1>8, <1>9, <1>10, <1>11
    DEF Next, Program, Calls, EventLoop

LEMMA TypeInitially == Init => TypeOK
BY TimesAreNumbers, WidthsAreNumbers DEF Init, TypeOK

\* The state is well typed.
THEOREM TypeCorrect == Spec => []TypeOK
BY TypeInitially, TypePreserved, PTL DEF Spec

-----------------------------------------------------------------------------
(* Where a timer is, and how often it was called. *)

\* The loop of HandleEvents has fired exactly the timers of mFiredTimers up to
\* the cursor; outside the loop none of them was fired.
CursorInv ==
    /\ pc # "firing" => \A t \in mFiredTimers : mActive[t]
    /\ pc = "firing" => \A t \in mFiredTimers : mActive[t] <=> t > cursor
    /\ pc \in {"polling", "undefined"} => mFiredTimers = {}
    /\ \A t \in mFiredTimers : mActive[t] \/ calls[t] > 0

\* A timer that is active was not called, and one that is not was called at
\* most once.
CallsInv == \A t \in TIMERS : IF mActive[t] THEN calls[t] = 0 ELSE calls[t] <= 1

MapsInv == NoTimerIsLost /\ CursorInv /\ CallsInv

LEMMA MapsInvInitially == Init => MapsInv
BY DEF Init, MapsInv, NoTimerIsLost, Waiting, CursorInv, CallsInv

LEMMA MapsInvPreserved == TypeOK /\ MapsInv /\ [Next]_vars => MapsInv'
<1> SUFFICES ASSUME TypeOK, MapsInv, [Next]_vars PROVE MapsInv'
    OBVIOUS
<1> USE DEF TypeOK, MapsInv
<1>1. CASE Start
    BY <1>1 DEF Start, timerMaps, history, NoTimerIsLost, Waiting, CursorInv, CallsInv
<1>2. ASSUME NEW t \in TIMERS, NEW msecs \in Delays, CreateTimer(t, msecs)
      PROVE  MapsInv'
    <2>1. t \notin mTimers /\ t \notin mFiredTimers /\ ~mActive[t] /\ calls[t] = 0
        <3>1. ~mActive[t] /\ calls[t] = 0
            BY <1>2 DEF CreateTimer, Created
        <3>2. t \notin mTimers
            BY <3>1 DEF NoTimerIsLost, Waiting
        <3>3. t \notin mFiredTimers
            BY <1>2, <3>1 DEF CursorInv, CreateTimer
        <3> QED BY <3>1, <3>2, <3>3
    <2>2. NoTimerIsLost'
        BY <1>2, <2>1 DEF CreateTimer, NoTimerIsLost, Waiting
    <2>3. CursorInv'
        BY <1>2, <2>1 DEF CreateTimer, CursorInv
    <2>4. CallsInv'
        BY <1>2, <2>1 DEF CreateTimer, CallsInv
    <2> QED BY <2>2, <2>3, <2>4
<1>3. ASSUME NEW t \in TIMERS, DeleteTimer(t) PROVE MapsInv'
    BY <1>3 DEF DeleteTimer, timerMaps, NoTimerIsLost, Waiting, CursorInv, CallsInv
<1>4. CASE HandleEvents
    BY <1>4, TimersAreAddresses
    DEF HandleEvents, timerMaps, history, NoTimerIsLost, Waiting, CursorInv, CallsInv
<1>5. ASSUME NEW t \in TIMERS, fired(t) PROVE MapsInv'
    <2>1. t \in mFiredTimers /\ t > cursor /\ mActive[t] /\ calls[t] = 0
        BY <1>5 DEF fired, Unvisited, CursorInv, CallsInv
    <2>2. NoTimerIsLost'
        BY <1>5, <2>1 DEF fired, timerMaps, NoTimerIsLost, Waiting
    <2>3. CursorInv'
        <3>1. \A other \in mFiredTimers : other > cursor => t <= other
            BY <1>5 DEF fired, Unvisited
        <3>2. \A other \in mFiredTimers :
                 mActive'[other] <=> other > t
            BY <1>5, <2>1, <3>1, TimersAreAddresses DEF fired, CursorInv
        <3> QED BY <1>5, <3>2 DEF fired, timerMaps, CursorInv
    <2>4. CallsInv'
        BY <1>5, <2>1 DEF fired, CallsInv
    <2> QED BY <2>2, <2>3, <2>4
<1>6. CASE FiringEnds
    <2>1. \A t \in mFiredTimers : ~mActive[t]
        BY <1>6 DEF FiringEnds, Unvisited, CursorInv
    <2> QED
        BY <1>6, <2>1
        DEF FiringEnds, history, NoTimerIsLost, Waiting, CursorInv, CallsInv
<1>7. CASE checkExpired
    <2>1. Expired \subseteq mTimers
        BY DEF Expired
    <2>2. \A t \in mTimers : mActive[t]
        BY DEF NoTimerIsLost, Waiting
    <2> QED
        BY <1>7, <2>1, <2>2
        DEF checkExpired, NoTimerIsLost, Waiting, CursorInv, CallsInv
<1>8. CASE NoTimeoutCallback
    BY <1>8
    DEF NoTimeoutCallback, timerMaps, history, NoTimerIsLost, Waiting, CursorInv, CallsInv
<1>9. CASE Tick
    BY <1>9 DEF Tick, timerMaps, history, NoTimerIsLost, Waiting, CursorInv, CallsInv
<1>10. CASE ClockIsSet
    BY <1>10
    DEF ClockIsSet, timerMaps, NoTimerIsLost, Waiting, CursorInv, CallsInv
<1>11. CASE UNCHANGED vars
    BY <1>11 DEF vars, timerMaps, history, NoTimerIsLost, Waiting, CursorInv, CallsInv
<1> QED
    BY <1>1, <1>2, <1>3, <1>4, <1>5, <1>6, <1>7, <1>8, <1>9, <1>10, <1>11
    DEF Next, Program, Calls, EventLoop

LEMMA MapsInvariant == Spec => []MapsInv
BY MapsInvInitially, MapsInvPreserved, TypeCorrect, PTL DEF Spec

\* No timer falls out of the two maps before it was called back.
THEOREM NoTimerLost == Spec => []NoTimerIsLost
<1>1. MapsInv => NoTimerIsLost
    BY DEF MapsInv
<1> QED BY <1>1, MapsInvariant, PTL

\* No timer's callback is called twice.
THEOREM AtMostOnce == Spec => []FiresAtMostOnce
<1>1. TypeOK /\ MapsInv => FiresAtMostOnce
    BY DEF TypeOK, MapsInv, CallsInv, FiresAtMostOnce
<1> QED BY <1>1, TypeCorrect, MapsInvariant, PTL

-----------------------------------------------------------------------------
(* The timers whose time had come when the last wait was over.             *)

\* Such a timer is among the fired timers until it has been called.
OverdueInv == \A t \in overdue : t \in mFiredTimers \/ calls[t] = 1

LEMMA OverdueInvPreserved == TypeOK /\ MapsInv /\ OverdueInv /\ [Next]_vars => OverdueInv'
<1> SUFFICES ASSUME TypeOK, MapsInv, OverdueInv, [Next]_vars PROVE OverdueInv'
    OBVIOUS
<1> USE DEF TypeOK, OverdueInv
<1>1. ASSUME NEW t \in TIMERS, NEW msecs \in Delays, CreateTimer(t, msecs)
      PROVE  OverdueInv'
    BY <1>1 DEF CreateTimer
<1>2. ASSUME NEW t \in TIMERS, fired(t) PROVE OverdueInv'
    <2>1. t \in mFiredTimers /\ mActive[t] /\ calls[t] = 0
        BY <1>2 DEF fired, Unvisited, MapsInv, CursorInv, CallsInv
    <2> QED BY <1>2, <2>1 DEF fired, timerMaps
<1>3. CASE FiringEnds
    <2>1. \A t \in mFiredTimers : calls[t] = 1
        <3>1. \A t \in mFiredTimers : ~mActive[t] /\ calls[t] > 0
            BY <1>3 DEF FiringEnds, Unvisited, MapsInv, CursorInv
        <3> QED BY <3>1 DEF MapsInv, CallsInv
    <2> QED BY <1>3, <2>1 DEF FiringEnds, history
<1>4. CASE checkExpired
    <2>1. \A t \in TIMERS : mActive[t] => t \in mTimers
        BY <1>4 DEF checkExpired, MapsInv, NoTimerIsLost, Waiting, CursorInv
    <2>2. Overdue \subseteq Expired
        BY <2>1 DEF Overdue, Expired
    <2> QED BY <1>4, <2>2 DEF checkExpired
<1>5. ASSUME NEW t \in TIMERS, DeleteTimer(t) PROVE OverdueInv'
    BY <1>5 DEF DeleteTimer, timerMaps
<1>6. CASE Start \/ HandleEvents \/ NoTimeoutCallback \/ Tick
    BY <1>6 DEF Start, HandleEvents, NoTimeoutCallback, Tick, timerMaps, history
<1>7. CASE ClockIsSet
    BY <1>7 DEF ClockIsSet, timerMaps
<1>8. CASE UNCHANGED vars
    BY <1>8 DEF vars, timerMaps, history
<1> QED
    BY <1>1, <1>2, <1>3, <1>4, <1>5, <1>6, <1>7, <1>8
    DEF Next, Program, Calls, EventLoop

LEMMA OverdueInvariant == Spec => []OverdueInv
<1>1. Init => OverdueInv
    BY DEF Init, OverdueInv
<1> QED BY <1>1, OverdueInvPreserved, TypeCorrect, MapsInvariant, PTL DEF Spec

-----------------------------------------------------------------------------
(* The milliseconds of GetTime.                                            *)

\* The whole milliseconds of a number of ticks, and what is cut off.
LEMMA Milliseconds ==
    ASSUME NEW c \in Nat
    PROVE  /\ c \div TicksPerMs \in Nat
           /\ (c \div TicksPerMs) * TicksPerMs <= c
           /\ c < (c \div TicksPerMs + 1) * TicksPerMs
           /\ c \div TicksPerMs <= c
<1> DEFINE q == c \div TicksPerMs
<1>1. TicksPerMs \in Nat /\ TicksPerMs > 0
    BY TimesAreNumbers
<1>2. c = TicksPerMs * q + (c % TicksPerMs) /\ c % TicksPerMs \in 0 .. TicksPerMs - 1
    BY <1>1, SMTT(30)
<1>3. q \in Nat
    BY <1>1, SMTT(30)
<1> HIDE DEF q
<1>4. TicksPerMs * q = q * TicksPerMs /\ (q + 1) * TicksPerMs = q * TicksPerMs + TicksPerMs
    BY <1>1, <1>3, SMTT(30)
<1>5. q * TicksPerMs <= c /\ c < (q + 1) * TicksPerMs
    BY <1>1, <1>2, <1>3, <1>4
<1>6. q <= q * TicksPerMs
    BY <1>1, <1>3, SMTT(30)
<1> QED BY <1>3, <1>5, <1>6, <1>1 DEF q

\* Fewer milliseconds are fewer ticks.
LEMMA FewerTicks ==
    ASSUME NEW m \in Nat, NEW n \in Nat, m <= n
    PROVE  m * TicksPerMs <= n * TicksPerMs
<1>1. TicksPerMs \in Nat
    BY TimesAreNumbers
<1>2. PICK d \in Nat : n = m + d
    <2>1. n - m \in Nat /\ n = m + (n - m)
        OBVIOUS
    <2> QED BY <2>1
<1>3. n * TicksPerMs = m * TicksPerMs + d * TicksPerMs /\ d * TicksPerMs \in Nat
    BY <1>1, <1>2, SMTT(30)
<1>4. m * TicksPerMs \in Nat
    BY <1>1
<1> QED BY <1>3, <1>4

\* The ticks of a sum of milliseconds.
LEMMA TicksOfSum ==
    ASSUME NEW m \in Nat, NEW n \in Nat
    PROVE  /\ (m + n) * TicksPerMs = m * TicksPerMs + n * TicksPerMs
           /\ m * TicksPerMs \in Nat /\ n * TicksPerMs \in Nat
<1>1. TicksPerMs \in Nat
    BY TimesAreNumbers
<1> QED BY <1>1, SMTT(30)

-----------------------------------------------------------------------------
(* The timeouts, on a clock that does not leave the range of a positive    *)
(* long however it is set.                                                 *)

Shown == {Epoch} \cup ClockSettings

LongIsWide ==
    \A c \in Shown :
        /\ c + MaxNow < LongMod \div 2
        /\ \A msecs \in Delays : c + MaxNow + msecs < U64Mod

EndOf(msecs) == (msecs + 1) * TicksPerMs

\* The clock shows what it was set to last and what has passed since, and the
\* end of a timer's last millisecond is at least as far away on the clock as
\* the time it is due, unless it is found expired.
TimeInv ==
    /\ \E c \in Shown : clock <= c + now
    /\ \A t \in mTimers : clock + due[t] < EndOf(fireTime[t]) + now + gained
    /\ \A t \in mFiredTimers : due[t] < now + gained + TicksPerMs
    /\ \A t \in TIMERS : calls[t] > 0 => due[t] < now + gained + TicksPerMs

LEMMA EndOfType == ASSUME NEW msecs \in Nat PROVE EndOf(msecs) \in Nat
BY TimesAreNumbers DEF EndOf

\* In that range the conversion of GetTime only cuts to milliseconds.
LEMMA GetTimeInRange ==
    ASSUME LongIsWide, TypeOK, TimeInv
    PROVE  /\ GetTime = clock \div TicksPerMs
           /\ GetTime \in Nat
           /\ \A msecs \in Delays : GetTime + msecs < U64Mod
<1> DEFINE q == clock \div TicksPerMs
<1>1. q \in Nat /\ q <= clock
    BY Milliseconds DEF TypeOK
<1> HIDE DEF q
<1>2. PICK c \in Shown : clock <= c + now
    BY DEF TimeInv
<1>3. c \in Nat /\ now \in Nat /\ now <= MaxNow /\ clock \in Nat
    BY TimesAreNumbers DEF TypeOK, Shown
<1>4. q < LongMod \div 2 /\ \A msecs \in Delays : q + msecs < U64Mod
    BY <1>1, <1>2, <1>3, TimesAreNumbers, WidthsAreNumbers DEF LongIsWide
<1>5. q < LongMod
    BY <1>1, <1>4, WidthsAreNumbers
<1>6. q % LongMod = q
    BY <1>1, <1>5, WidthsAreNumbers
<1>7. GetTime = q
    BY <1>4, <1>6 DEF GetTime, q
<1> QED BY <1>1, <1>4, <1>7 DEF q

LEMMA TimeInvPreserved ==
    ASSUME LongIsWide, TypeOK, MapsInv, TimeInv, [Next]_vars
    PROVE  TimeInv'
<1> USE DEF TypeOK, TimeInv
<1>0. TicksPerMs \in Nat /\ (\A t \in TIMERS : EndOf(fireTime[t]) \in Nat)
    BY EndOfType, TimesAreNumbers
<1>1. CASE Start
    BY <1>1 DEF Start, timerMaps, history
<1>2. ASSUME NEW t \in TIMERS, NEW msecs \in Delays, CreateTimer(t, msecs)
      PROVE  TimeInv'
    <2>1. t \notin mFiredTimers /\ calls[t] = 0
        <3>1. ~mActive[t] /\ calls[t] = 0
            BY <1>2 DEF CreateTimer, Created
        <3> QED BY <1>2, <3>1 DEF MapsInv, NoTimerIsLost, Waiting, CursorInv, CreateTimer
    <2> DEFINE q == clock \div TicksPerMs
    <2>2. q \in Nat /\ clock < (q + 1) * TicksPerMs
        BY Milliseconds
    <2>3. fireTime' = [fireTime EXCEPT ![t] = q + msecs]
        <3>1. GetTime = q /\ GetTime \in Nat /\ GetTime + msecs < U64Mod
            BY GetTimeInRange
        <3>2. (GetTime + msecs) % U64Mod = GetTime + msecs
            BY <3>1, TimesAreNumbers, WidthsAreNumbers
        <3> QED BY <1>2, <3>1, <3>2 DEF CreateTimer
    <2> HIDE DEF q
    <2>4. due' = [due EXCEPT ![t] = now + gained + msecs * TicksPerMs]
        BY <1>2 DEF CreateTimer
    <2>5. clock + due'[t] < EndOf(fireTime'[t]) + now + gained
        <3>1. EndOf(q + msecs) = (q + 1) * TicksPerMs + msecs * TicksPerMs
            <4>1. (q + msecs) + 1 = (q + 1) + msecs
                BY <2>2, TimesAreNumbers
            <4> QED BY <4>1, <2>2, TicksOfSum, TimesAreNumbers DEF EndOf
        <3>2. (q + 1) * TicksPerMs \in Nat /\ msecs * TicksPerMs \in Nat
            BY <2>2, TicksOfSum, TimesAreNumbers
        <3> QED BY <2>2, <2>3, <2>4, <3>1, <3>2
    <2>6. UNCHANGED <<now, clock, gained, calls, mFiredTimers>>
          /\ mTimers' = mTimers \cup {t}
        BY <1>2 DEF CreateTimer
    <2> QED BY <2>1, <2>3, <2>4, <2>5, <2>6
<1>3. ASSUME NEW t \in TIMERS, DeleteTimer(t) PROVE TimeInv'
    BY <1>3 DEF DeleteTimer, timerMaps
<1>4. CASE HandleEvents
    BY <1>4 DEF HandleEvents, timerMaps, history
<1>5. ASSUME NEW t \in TIMERS, fired(t) PROVE TimeInv'
    <2>1. t \in mFiredTimers
        BY <1>5 DEF fired, Unvisited
    <2> QED BY <1>5, <2>1 DEF fired, timerMaps
<1>6. CASE FiringEnds
    BY <1>6 DEF FiringEnds, history
<1>7. CASE checkExpired
    <2>1. \A t \in Expired : t \in mTimers /\ due[t] < now + gained + TicksPerMs
        <3> SUFFICES ASSUME NEW t \in Expired
                     PROVE  t \in mTimers /\ due[t] < now + gained + TicksPerMs
            OBVIOUS
        <3> DEFINE q == clock \div TicksPerMs
        <3>1. t \in mTimers /\ fireTime[t] <= q /\ fireTime[t] \in Nat
            BY GetTimeInRange DEF Expired
        <3>2. q \in Nat /\ q * TicksPerMs <= clock
            BY Milliseconds
        <3> HIDE DEF q
        <3>3. EndOf(fireTime[t]) <= q * TicksPerMs + TicksPerMs
            <4>1. EndOf(fireTime[t]) <= (q + 1) * TicksPerMs
                BY <3>1, <3>2, FewerTicks DEF EndOf
            <4>2. (q + 1) * TicksPerMs = q * TicksPerMs + 1 * TicksPerMs
                BY <3>2, TicksOfSum
            <4>3. 1 * TicksPerMs = TicksPerMs
                BY <1>0
            <4> QED BY <4>1, <4>2, <4>3
        <3>4. q * TicksPerMs \in Nat
            BY <1>0, <3>2
        <3> QED BY <1>0, <3>1, <3>2, <3>3, <3>4
    <2> QED BY <1>7, <2>1 DEF checkExpired
<1>8. CASE NoTimeoutCallback
    BY <1>8 DEF NoTimeoutCallback, timerMaps, history
<1>9. CASE Tick
    <2>1. PICK c \in Shown : clock <= c + now
        OBVIOUS
    <2>2. c \in Nat
        BY TimesAreNumbers DEF Shown
    <2>3. now' = now + 1 /\ clock' = clock + 1
          /\ UNCHANGED <<mTimers, mFiredTimers, fireTime, gained, due, calls>>
        BY <1>9 DEF Tick, timerMaps, history
    <2>4. clock' <= c + now'
        BY <2>1, <2>2, <2>3
    <2> QED BY <1>0, <2>3, <2>4
<1>10. CASE ClockIsSet
    <2>1. clock' \in Shown /\ clock' \in Nat /\ clock' + gained <= clock + gained'
          /\ gained <= gained' /\ gained' \in Nat
        BY <1>10, SettingGains, TimesAreNumbers DEF Shown
    <2>2. UNCHANGED <<now, mTimers, mFiredTimers, fireTime, due, calls>>
        BY <1>10 DEF ClockIsSet, timerMaps
    <2>3. \E c \in Shown : clock' <= c + now'
        <3>1. \A c, n \in Nat : c <= c + n
            OBVIOUS
        <3>2. clock' \in Shown /\ clock' \in Nat /\ now' \in Nat
            BY <2>1, <2>2
        <3>3. clock' <= clock' + now'
            BY <3>1, <3>2
        <3> QED BY <3>2, <3>3
    <2>4. ASSUME NEW t \in TIMERS, clock + due[t] < EndOf(fireTime[t]) + now + gained
          PROVE  clock' + due'[t] < EndOf(fireTime'[t]) + now' + gained'
        <3>1. \A c, d, g, h, u, e, n \in Nat :
                 d + g <= c + h /\ c + u < e + n + g => d + u < e + n + h
            OBVIOUS
        <3>2. {clock, clock', gained, gained', due[t], EndOf(fireTime[t]), now} \subseteq Nat
            BY <1>0, <2>1
        <3>3. clock' + due[t] < EndOf(fireTime[t]) + now + gained'
            BY <2>1, <2>4, <3>1, <3>2
        <3> QED BY <2>2, <3>3
    <2>5. ASSUME NEW t \in TIMERS, due[t] < now + gained + TicksPerMs
          PROVE  due'[t] < now' + gained' + TicksPerMs
        BY <1>0, <2>1, <2>2, <2>5
    <2> QED BY <2>2, <2>3, <2>4, <2>5
<1>11. CASE UNCHANGED vars
    BY <1>11 DEF vars, timerMaps, history
<1> QED
    BY <1>1, <1>2, <1>3, <1>4, <1>5, <1>6, <1>7, <1>8, <1>9, <1>10, <1>11
    DEF Next, Program, Calls, EventLoop

LEMMA TimeInvariant == ASSUME LongIsWide PROVE Spec => []TimeInv
<1>1. Init => TimeInv
    BY TimesAreNumbers DEF Init, TimeInv, Shown
<1>2. TypeOK /\ MapsInv /\ TimeInv /\ [Next]_vars => TimeInv'
    BY TimeInvPreserved
<1> QED BY <1>1, <1>2, TypeCorrect, MapsInvariant, PTL DEF Spec

\* However the clock is set, no timer's callback is called a whole millisecond
\* before its timeout and beyond what the clock was set forward.
THEOREM TimersAreNotEarly == ASSUME LongIsWide PROVE Spec => []NeverEarly
<1>1. TimeInv => NeverEarly
    BY DEF TimeInv, NeverEarly
<1> QED BY <1>1, TimeInvariant, PTL

-----------------------------------------------------------------------------
(* The refinement of TimerService. *)

\* However the clock is set, every step of the timer manager arms a timer, fires
\* one that is due to the millisecond, lets time pass, or is invisible.
THEOREM RefinesTimerService == ASSUME LongIsWide PROVE Spec => ImplementsTimerService
<1> DEFINE st == [t \in TIMERS |-> IF mActive[t] THEN "armed"
                                   ELSE IF calls[t] > 0 THEN "fired" ELSE "free"]
<1>1. Init => Service!ServiceInit
    BY DEF Init, Service!ServiceInit
<1>2. TypeOK /\ MapsInv /\ TimeInv /\ [Next]_vars
         => [Service!ServiceNext]_(Service!serviceVars)
    <2> SUFFICES ASSUME TypeOK, MapsInv, TimeInv, [Next]_vars
                 PROVE  [Service!ServiceNext]_(Service!serviceVars)
        OBVIOUS
    <2> USE DEF TypeOK
    <2>1. CASE UNCHANGED <<now, gained, due, mActive, calls>>
        BY <2>1 DEF Service!serviceVars
    <2>2. ASSUME NEW t \in TIMERS, NEW msecs \in Delays, CreateTimer(t, msecs)
          PROVE  Service!ServiceNext
        <3>1. st[t] = "free" /\ UNCHANGED <<now, gained>>
              /\ due' = [due EXCEPT ![t] = (now + gained) + msecs * TicksPerMs]
            BY <2>2 DEF CreateTimer, Created
        <3>2. st' = [st EXCEPT ![t] = "armed"]
            BY <2>2 DEF CreateTimer
        <3>3. Service!Arm(t, msecs)
            BY <3>1, <3>2 DEF Service!Arm
        <3> QED BY <3>3 DEF Service!ServiceNext
    <2>3. ASSUME NEW t \in TIMERS, fired(t) PROVE Service!ServiceNext
        <3>1. t \in mFiredTimers /\ mActive[t] /\ calls[t] = 0
              /\ due[t] < (now + gained) + TicksPerMs
            BY <2>3 DEF fired, Unvisited, MapsInv, CursorInv, CallsInv, TimeInv
        <3>2. st' = [st EXCEPT ![t] = "fired"]
            <4>1. mActive' = [mActive EXCEPT ![t] = FALSE]
                  /\ calls' = [calls EXCEPT ![t] = 1]
                BY <2>3, <3>1 DEF fired
            <4>2. \A u \in TIMERS : st'[u] = IF u = t THEN "fired" ELSE st[u]
                BY <4>1
            <4> QED BY <4>2
        <3>3. Service!Fire(t)
            BY <2>3, <3>1, <3>2 DEF fired, Service!Fire
        <3> QED BY <3>3 DEF Service!ServiceNext
    <2>4. CASE Tick
        <3>1. now' + gained' \in Nat /\ now' + gained' > now + gained
            BY <2>4 DEF Tick, history
        <3> QED BY <2>4, <3>1 DEF Tick, history, Service!ServiceNext, Service!TimePasses
    <2>5. ASSUME NEW t \in TIMERS, DeleteTimer(t)
          PROVE  UNCHANGED <<now, gained, due, mActive, calls>>
        BY <2>5 DEF DeleteTimer
    <2>6. CASE Start \/ HandleEvents \/ FiringEnds \/ checkExpired
               \/ NoTimeoutCallback
        BY <2>1, <2>6 DEF Start, HandleEvents, FiringEnds, checkExpired,
                          NoTimeoutCallback, history
    <2>7. CASE UNCHANGED vars
        BY <2>1, <2>7 DEF vars, history
    <2>8. CASE ClockIsSet
        <3>1. gained' = gained \/ (gained' > gained /\ gained' \in Nat)
            BY <2>8, SettingGains
        <3>2. CASE gained' = gained
            BY <2>1, <2>8, <3>2 DEF ClockIsSet
        <3>3. CASE gained' > gained /\ gained' \in Nat
            BY <2>8, <3>3 DEF ClockIsSet, Service!ServiceNext, Service!TimePasses
        <3> QED BY <3>1, <3>2, <3>3
    <2> QED
        BY <2>1, <2>2, <2>3, <2>4, <2>5, <2>6, <2>7, <2>8
        DEF Next, Program, Calls, EventLoop
<1> QED
    BY <1>1, <1>2, TypeCorrect, MapsInvariant, TimeInvariant, PTL
    DEF Spec, ImplementsTimerService, Service!ServiceSpec
=============================================================================
