------------------------------ MODULE Platform -------------------------------
(***************************************************************************)
(* The poller: src/src/Platform.cpp and PollSockets, rebuildPollStruct of  *)
(* src/src/Platform_Linux.cpp.                                             *)
(*                                                                         *)
(* mPollFD is indexed from 1.  Its fd fields are the sequence mPollFD; its *)
(* revents fields are kept apart, because rebuildPollStruct rewrites the   *)
(* former and leaves the latter as the last poll(2) left them.             *)
(***************************************************************************)
EXTENDS Sockets, Sequences

CONSTANTS
    MaxPoll,    \* the length of the array mPollFD, 1024 in the code
    NULL,       \* a null pointer, or a key that a map does not have
    Garbage     \* the content of a member no constructor initialises

ASSUME ArrayHoldsAllSockets ==
    MaxPoll \in Nat /\ Cardinality(SOCKETS) <= MaxPoll

Handlers == {"serverSocketCallback", "clientSocketCallback"}

ASSUME NullIsNoSocket ==
    NULL \notin SOCKETS \cup {INVALID_SOCKET} /\ NULL \notin Handlers

ASSUME GarbageIsNoNumber == Garbage \notin Nat
ASSUME GarbageIsNoPointer == Garbage \notin {NULL, "registered"}

Slots == 1 .. Cardinality(SOCKETS)  \* the slots that can come into use

VARIABLES
    mSocketMap, \* descriptor -> its handler, NULL when it is not registered
    mPollFD,    \* the descriptors of the slots in use
    revents,    \* TRUE iff the slot's revents has POLLIN
    mNumToPoll, \* how many slots are in use
    pc,         \* where the one thread of the process is
    next        \* the slot PollSockets' loop looks at next

registry == <<mSocketMap, mPollFD, mNumToPoll>>
platform == <<mSocketMap, mPollFD, revents, mNumToPoll, pc, next>>

PCs == {"app",       \* in the program's own code, outside TorpClass
        "polling",   \* in poll(2)
        "pass",      \* in the loop of PollSockets, between two slots
        "callback",  \* in the program's client callback
        "reading",   \* asleep in read(2), called from the client callback
        "writing",   \* asleep in write(2), called from the client callback
        "appWriting",\* asleep in write(2), called from elsewhere
        "accepting", \* asleep in accept(2), called from handleServerEvent
        "killed",    \* ended by SIGPIPE
        "undefined"} \* after the use of an uninitialised member

Asleep == {"reading", "writing", "appWriting", "accepting"}
Over   == {"killed", "undefined"}

PlatformTypeOK ==
    /\ mSocketMap \in [SOCKETS -> Handlers \cup {NULL}]
    /\ mPollFD \in Seq(SOCKETS)
    /\ revents \in [Slots -> BOOLEAN]
    /\ mNumToPoll \in Nat \cup {Garbage}
    /\ pc \in PCs
    /\ next \in Nat

\* The constructor initialises nothing and Init clears mSocketMap only.
PlatformInit ==
    /\ mSocketMap = [s \in SOCKETS |-> NULL]
    /\ mPollFD = << >>
    /\ revents \in [Slots -> BOOLEAN]
    /\ mNumToPoll \in {0, Garbage}
    /\ pc = "app"
    /\ next = 1

Registered(map) == {s \in SOCKETS : map[s] # NULL}

\* The descriptors of S in ascending order, as an iteration of a std::map
\* visits them.
SortedListings(S) ==
    {l \in [1 .. Cardinality(S) -> S] :
        /\ \A i, j \in DOMAIN l : i < j => l[i] < l[j]
        /\ \A s \in S : \E i \in DOMAIN l : l[i] = s}

\* Mutant: the count is one too low.
rebuildPollStruct_CountsOneLess ==
    /\ mPollFD' \in SortedListings(Registered(mSocketMap'))
    /\ mNumToPoll' = Cardinality(Registered(mSocketMap')) - 1

rebuildPollStruct ==
    /\ mPollFD' \in SortedListings(Registered(mSocketMap'))
    /\ mNumToPoll' = Cardinality(Registered(mSocketMap'))

\* A descriptor that is there already keeps its old handler: the caller gets
\* 1, and no caller takes that for a failure.
AddSocketForPolling(sd, handler) ==
    IF mSocketMap[sd] # NULL
    THEN UNCHANGED registry
    ELSE mSocketMap' = [mSocketMap EXCEPT ![sd] = handler] /\ rebuildPollStruct

\* Mutant: the array is not rebuilt.
RemoveSocketFromPolling_NoRebuild(sd) ==
    /\ mSocketMap' = [mSocketMap EXCEPT ![sd] = NULL]
    /\ UNCHANGED <<mPollFD, mNumToPoll>>

RemoveSocketFromPolling(sd) ==
    IF mSocketMap[sd] = NULL
    THEN UNCHANGED registry
    ELSE mSocketMap' = [mSocketMap EXCEPT ![sd] = NULL] /\ rebuildPollStruct

-----------------------------------------------------------------------------
(* PollSockets, from the call of poll(2) to the return. *)

\* No descriptor: sleep, then return.
PollSleeps ==
    /\ pc = "polling" /\ mNumToPoll = 0
    /\ pc' = "app"
    /\ UNCHANGED <<registry, revents, next>>

\* A descriptor is readable: poll(2) fills in revents and the loop starts.
PollReports ==
    /\ pc = "polling" /\ mNumToPoll # Garbage
    /\ \E k \in 1 .. mNumToPoll : Readable(mPollFD[k])
    /\ revents' = [k \in Slots |-> IF k \in 1 .. mNumToPoll
                                   THEN Readable(mPollFD[k]) ELSE revents[k]]
    /\ next' = 1
    /\ pc' = "pass"
    /\ UNCHANGED registry

\* The timeout passes, or a signal arrives, with nothing readable.
PollTimesOut ==
    /\ pc = "polling" /\ mNumToPoll \notin {0, Garbage}
    /\ \A k \in 1 .. mNumToPoll : ~Readable(mPollFD[k])
    /\ revents' = [k \in Slots |-> k \notin 1 .. mNumToPoll /\ revents[k]]
    /\ pc' = "app"
    /\ UNCHANGED <<registry, next>>

\* mNumToPoll was never set: poll(2) reads and writes whatever it counts.
PollUninitialised ==
    /\ pc = "polling" /\ mNumToPoll = Garbage
    /\ pc' = "undefined"
    /\ UNCHANGED <<registry, revents, next>>

\* The loop reads mNumToPoll, mPollFD and revents anew for every slot.
Dispatching == pc = "pass" /\ next <= mNumToPoll /\ revents[next]

\* Mutant: break instead of continue.
SkipSlot_Breaks ==
    /\ pc = "pass" /\ next <= mNumToPoll /\ ~revents[next]
    /\ next' = 1
    /\ pc' = "app"
    /\ UNCHANGED <<registry, revents>>

SkipSlot ==
    /\ pc = "pass" /\ next <= mNumToPoll /\ ~revents[next]
    /\ next' = next + 1
    /\ UNCHANGED <<registry, revents, pc>>

\* The loop variable goes out of scope.
EndPass ==
    /\ pc = "pass" /\ next > mNumToPoll
    /\ pc' = "app"
    /\ next' = 1
    /\ UNCHANGED <<registry, revents>>

\* Mutant: the loop variable is not incremented.
NextSlot_Stays == pc' = "pass" /\ next' = next

\* The callback of the current slot is done.
NextSlot == pc' = "pass" /\ next' = next + 1
=============================================================================
