---------------------------- MODULE TimerService -----------------------------
(***************************************************************************)
(* What src/src/TimerManager.h promises of a timer: it is armed once with  *)
(* a timeout in milliseconds, and after that time has passed, to the       *)
(* millisecond, its callback is called, once.                              *)
(***************************************************************************)
EXTENDS Integers

CONSTANTS
    TIMERS,     \* the timers that may be created
    Delays,     \* the timeouts that may be asked for
    TicksPerMs  \* how finely time is looked at

VARIABLES
    now,        \* the time, in ticks
    state,      \* state of a timer: "free", "armed" or "fired"
    due         \* when an armed timer may fire

serviceVars == <<now, state, due>>

ServiceTypeOK ==
    /\ now \in Nat
    /\ state \in [TIMERS -> {"free", "armed", "fired"}]
    /\ due \in [TIMERS -> Nat]

ServiceInit ==
    /\ now = 0
    /\ state = [t \in TIMERS |-> "free"]
    /\ due = [t \in TIMERS |-> 0]

Arm(t, msecs) ==
    /\ state[t] = "free"
    /\ state' = [state EXCEPT ![t] = "armed"]
    /\ due' = [due EXCEPT ![t] = now + msecs * TicksPerMs]
    /\ UNCHANGED now

Fire(t) ==
    /\ state[t] = "armed" /\ due[t] < now + TicksPerMs
    /\ state' = [state EXCEPT ![t] = "fired"]
    /\ UNCHANGED <<now, due>>

TimePasses ==
    /\ now' \in Nat /\ now' > now
    /\ UNCHANGED <<state, due>>

ServiceNext ==
    \/ \E t \in TIMERS : Fire(t) \/ (\E msecs \in Delays : Arm(t, msecs))
    \/ TimePasses

ServiceSpec == ServiceInit /\ [][ServiceNext]_serviceVars
=============================================================================
