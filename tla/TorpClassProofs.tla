--------------------------- MODULE TorpClassProofs ----------------------------
(***************************************************************************)
(* The composition of TorpClass takes, for each of its two managers, none  *)
(* but the steps that the manager's own module describes, so that what is  *)
(* proved of a manager alone holds when both run in one event loop; and    *)
(* what the composition adds: timers whose time has come before the wait.  *)
(***************************************************************************)
EXTENDS TorpClass, ConnManagerProofs

TP == INSTANCE TimerManagerProofs WITH pc <- timerPc

-----------------------------------------------------------------------------
(* The two refinements. *)

\* Whatever timers' callbacks call, and wherever the search for expired timers
\* comes, the connection manager is the one of ConnManager.
THEOREM ConnManagerComposed == TorpSpec => ImplementsConnManager
<1>1. TorpInit => Init
    BY DEF TorpInit
<1>2. [TorpNext]_torpVars => [Next]_vars
    <2>1. SocketCalls => Next
        BY DEF SocketCalls, Next, Program
    <2>2. TimerCalls => UNCHANGED vars
        BY DEF TimerCalls
    <2>3. TorpHandleEvents => [Next]_vars
        <3>1. HandleTimers \/ CallTimer => UNCHANGED vars
            BY DEF HandleTimers, CallTimer
        <3>2. HandleSockets => Next
            BY DEF HandleSockets, Next, Program
        <3>3. PollEnds \/ PollUndefined => [Next]_vars
            BY DEF PollEnds, PollUndefined, PollLoop, Next
        <3>4. Dispatch => Next
            BY DEF Next, PollLoop
        <3> QED BY <3>1, <3>2, <3>3, <3>4 DEF TorpHandleEvents
    <2>4. TorpRemote => Next
        BY DEF TorpRemote, Next
    <2>5. TimePasses => UNCHANGED vars
        BY DEF TimePasses
    <2>6. UNCHANGED torpVars => UNCHANGED vars
        BY DEF torpVars
    <2> QED BY <2>1, <2>2, <2>3, <2>4, <2>5, <2>6 DEF TorpNext
<1> QED BY <1>1, <1>2, PTL DEF TorpSpec, ImplementsConnManager, Spec

LEMMA TimersUntouched == UNCHANGED timers => UNCHANGED T!vars
BY DEF timers, T!vars, T!timerMaps, T!history

\* Wherever sockets are served, and whatever the client callback calls, the
\* timer manager is the one of TimerManager.
THEOREM TimerManagerComposed == TorpSpec => ImplementsTimerManager
<1>1. TorpInit => T!Init
    BY DEF TorpInit
<1>2. [TorpNext]_torpVars => [T!Next]_(T!vars)
    <2>1. SocketCalls \/ TorpRemote => UNCHANGED T!vars
        BY TimersUntouched DEF SocketCalls, TorpRemote
    <2>2. TimerCalls => T!Next
        BY DEF TimerCalls, T!Next, T!Program
    <2>3. TorpHandleEvents => [T!Next]_(T!vars)
        <3>1. HandleTimers => T!Next
            BY DEF HandleTimers, T!Next, T!Program
        <3>2. CallTimer \/ HandleSockets => T!Next
            BY DEF CallTimer, HandleSockets, T!Next, T!EventLoop
        <3>3. PollEnds => T!Next
            BY DEF PollEnds, TimersChecked, T!Next, T!EventLoop
        <3>4. PollUndefined => [T!Next]_(T!vars)
            BY TimersUntouched DEF PollUndefined, T!Next, T!EventLoop
        <3> QED BY <3>1, <3>2, <3>3, <3>4, TimersUntouched DEF TorpHandleEvents
    <2>4. TimePasses => T!Next
        BY DEF TimePasses, T!Next
    <2>5. UNCHANGED torpVars => UNCHANGED timers
        BY DEF torpVars
    <2> QED BY <2>1, <2>2, <2>3, <2>4, <2>5, TimersUntouched DEF TorpNext
<1> QED BY <1>1, <1>2, PTL DEF TorpSpec, ImplementsTimerManager, T!Spec

-----------------------------------------------------------------------------
(* What the managers promise, kept in the composition. *)

\* With timers whose callbacks start and stop clients, too, an event reaches
\* the live client that owns the descriptor, and a callback's client is alive.
THEOREM ComposedDispatchIsSafe ==
    TorpSpec => [](DispatchTargetsLiveClient /\ CallbackClientIsLive)
BY ConnManagerComposed, DispatchIsSafe, CallbackIsSafe, PTL
   DEF ImplementsConnManager

\* The invariants proved of TimerManager hold of it in the composition.
LEMMA TimerFacts == TorpSpec => [](TP!TypeOK /\ TP!MapsInv /\ TP!OverdueInv)
<1>1. TIMERS \subseteq Nat \ {0} /\ TP!IsFiniteSet(TIMERS)
    BY TimersAreAddresses DEF IsFiniteSet, TP!IsFiniteSet
<1>2. T!Init => TP!Init
    BY DEF T!Init, TP!Init
<1>3. [T!Next]_(T!vars) => [TP!Next]_(TP!vars)
    BY DEF T!Next, T!Program, T!Calls, T!EventLoop, T!Start, T!CreateTimer,
           T!DeleteTimer, T!Created, T!HandleEvents, T!fired, T!Unvisited,
           T!FiringEnds, T!checkExpired, T!Expired, T!Overdue, T!GetTime,
           T!NoTimeoutCallback, T!Tick, T!ClockIsSet,
           T!vars, T!timerMaps, T!history,
           TP!Next, TP!Program, TP!Calls, TP!EventLoop, TP!Start, TP!CreateTimer,
           TP!DeleteTimer, TP!Created, TP!HandleEvents, TP!fired, TP!Unvisited,
           TP!FiringEnds, TP!checkExpired, TP!Expired, TP!Overdue, TP!GetTime,
           TP!NoTimeoutCallback, TP!Tick, TP!ClockIsSet,
           TP!vars, TP!timerMaps, TP!history
<1>4. TorpSpec => TP!Spec
    BY <1>2, <1>3, TimerManagerComposed, PTL
       DEF ImplementsTimerManager, T!Spec, TP!Spec
<1>5. TP!Init => TP!TypeOK /\ TP!MapsInv /\ TP!OverdueInv
    <2>1. TP!Init => TP!OverdueInv
        BY DEF TP!Init, TP!OverdueInv
    <2> QED BY <1>1, <2>1, TimesAreNumbers, WidthsAreNumbers, TP!TypeInitially,
               TP!MapsInvInitially
<1>6. TP!TypeOK /\ TP!MapsInv /\ TP!OverdueInv /\ [TP!Next]_(TP!vars)
         => TP!TypeOK' /\ TP!MapsInv' /\ TP!OverdueInv'
    BY <1>1, TimesAreNumbers, WidthsAreNumbers, TP!TypePreserved,
       TP!MapsInvPreserved, TP!OverdueInvPreserved
<1> QED BY <1>4, <1>5, <1>6, PTL DEF TP!Spec

\* No timer is lost, and none is called twice, whatever the sockets do.
THEOREM ComposedTimersAreSafe == TorpSpec => []TimersAreKept
<1>1. TP!TypeOK /\ TP!MapsInv => TimersAreKept
    BY DEF TP!TypeOK, TP!MapsInv, TP!NoTimerIsLost, TP!Waiting, TP!CallsInv,
           TimersAreKept, T!NoTimerIsLost, T!Waiting, T!FiresAtMostOnce
<1> QED BY <1>1, TimerFacts, PTL

\* Where the thread is for one manager and where it is for the other agree.
Linked ==
    /\ timerPc = "firing" => pc \in {"app", "appWriting"} \cup Over
    /\ timerPc \in {"polling", "undefined"} => pc \in {"polling"} \cup Over
    /\ pc = "polling" => timerPc \in {"polling", "undefined"}

LEMMA LinkedPreserved == Linked /\ [TorpNext]_torpVars => Linked'
<1> SUFFICES ASSUME Linked, [TorpNext]_torpVars PROVE Linked'
    OBVIOUS
<1> USE DEF Linked, Over
<1>1. CASE SocketCalls
    <2>1. timerPc' = timerPc
        BY <1>1 DEF SocketCalls, timers
    <2>2. /\ pc = "app" => pc' \in {"app", "appWriting", "killed"}
          /\ pc = "app" \/ (pc = "callback" /\ pc' # "polling")
        BY <1>1
           DEF SocketCalls, Calls, RegisterClientCallback, StopClient, Send, SendBlocks,
               StartClient, WriteKills, InProgram, StartClientFails, StartServerFails, StopServer,
               StartServer, HandleSocket, ReadClient, ReadBlocks, ReturnFromCallback,
               NextSlot, platform
    <2> QED BY <2>1, <2>2
<1>2. CASE TimerCalls \/ TimePasses
    BY <1>2
       DEF TimerCalls, TimePasses, T!Calls, T!Start, T!CreateTimer, T!DeleteTimer,
           T!Tick, T!ClockIsSet, vars, platform
<1>3. CASE HandleTimers \/ CallTimer \/ HandleSockets
    BY <1>3
       DEF HandleTimers, CallTimer, HandleSockets, HandleEvents, T!HandleEvents,
           T!fired, T!FiringEnds, vars, platform
<1>4. CASE PollEnds
    BY <1>4, GarbageIsNoPointer
       DEF PollEnds, PollReturns, PollSleeps, PollReports, PollTimesOut, TimersChecked,
           T!checkExpired, T!NoTimeoutCallback
<1>5. CASE PollUndefined
    BY <1>5
       DEF PollUndefined, PollBreaks, PollUninitialised, T!NoTimeoutCallback, timers,
           vars, platform
<1>6. CASE Dispatch /\ UNCHANGED timers
    <2>1. timerPc' = timerPc /\ pc \in {"pass", "reading", "accepting"}
          /\ pc' # "polling"
        BY <1>6
           DEF timers, Dispatch, SkipSlot, EndPass, AcceptFails, AcceptBlocks,
               NobodyToCall, handleClientEvent, handleServerEvent, AcceptWakes,
               AcceptClient, ReadWakes, ReadClient, NextSlot, Handles, Dispatching
    <2> QED BY <2>1
<1>7. CASE TorpRemote \/ UNCHANGED torpVars
    BY <1>7 DEF TorpRemote, torpVars, timers, Remote, WriteWakes, vars, platform
<1> QED BY <1>1, <1>2, <1>3, <1>4, <1>5, <1>6, <1>7 DEF TorpNext, TorpHandleEvents

\* The state of the composition is well typed, and the thread is never in one
\* manager's loop while the other thinks it is in its own.
THEOREM TorpTypeCorrect == TorpSpec => []TorpTypeOK
<1>1. TorpInit => Linked
    BY DEF TorpInit, Init, PlatformInit, T!Init, Linked
<1>2. TypeOK /\ TP!TypeOK /\ Linked => TorpTypeOK
    BY DEF TP!TypeOK, T!TypeOK, Linked, TorpTypeOK
<1>3. TorpSpec => []TypeOK
    BY ConnManagerComposed, IInvariant, PTL DEF ImplementsConnManager, IInv
<1> QED BY <1>1, <1>2, <1>3, TimerFacts, LinkedPreserved, PTL DEF TorpSpec

-----------------------------------------------------------------------------
(* Timers before sockets. *)

\* While the thread waits no fired timer is left, so that each of those whose
\* time had come when the last wait was over has been called.
THEOREM TimersComeFirst == TorpSpec => []FiredBeforePolling
<1>1. TP!MapsInv /\ TP!OverdueInv /\ TorpTypeOK => FiredBeforePolling
    BY DEF TP!MapsInv, TP!CursorInv, TP!OverdueInv, TorpTypeOK, FiredBeforePolling
<1> QED BY <1>1, TimerFacts, TorpTypeCorrect, PTL
=============================================================================
