------------------------- MODULE RoomDecryptChain -------------------------
(***************************************************************************)
(* packages/chat-sdk/src/room-decrypt-chain.ts: the per-room serial queue  *)
(* of unseal tasks.                                                        *)
(*                                                                         *)
(* A ChainEntry object is an element of Entries; #byRoom is the map from   *)
(* rooms to the entry the class still refers to.  An entry that left the   *)
(* map lives on while its promise chain has unsettled links, which is why  *)
(* entries are objects here and not values of the map.  The promise chain  *)
(* of an entry is the sequence of its unsettled tasks; the tail captured   *)
(* by release() is the number of tasks appended by then.  The reactions of *)
(* a settled promise may run in any order (JavaScript fixes one of them).  *)
(* Callers are unconstrained: any sequence of acquire, append and release  *)
(* is a behaviour, balanced or not.                                        *)
(***************************************************************************)
EXTENDS Naturals, Sequences

CONSTANTS
    Rooms,          \* room ids
    Entries,        \* identities of ChainEntry objects
    Tasks,          \* unseal tasks
    NoEntry,        \* Map.get of an absent key
    MaxGeneration   \* bound on the generation counter of one entry

ASSUME NoEntryAssumption == NoEntry \notin Entries
ASSUME MaxGenerationAssumption == MaxGeneration \in Nat

VARIABLES
    byRoom,      \* [Rooms -> Entries \cup {NoEntry}]: #byRoom
    refCount,    \* [Entries -> Nat]: ChainEntry.refCount
    generation,  \* [Entries -> Nat]: ChainEntry.generation
    home,        \* [Entries -> Rooms \cup {NoEntry}]: the room the entry was made for
    queue,       \* [Entries -> Seq(Tasks)]: unsettled links of ChainEntry.chain
    running,     \* [Entries -> BOOLEAN]: the first of them has been called
    appended,    \* [Entries -> Nat]: links ever appended to ChainEntry.chain
    cleanups     \* removeIfStillIdle reactions that have not run yet

chainVars ==
    <<byRoom, refCount, generation, home, queue, running, appended, cleanups>>

Cleanup == [entry : Entries, after : Nat, generation : Nat]

TypeOK ==
    /\ byRoom \in [Rooms -> Entries \cup {NoEntry}]
    /\ refCount \in [Entries -> Nat]
    /\ generation \in [Entries -> Nat]
    /\ home \in [Entries -> Rooms \cup {NoEntry}]
    /\ queue \in [Entries -> Seq(Tasks)]
    /\ running \in [Entries -> BOOLEAN]
    /\ appended \in [Entries -> Nat]
    /\ cleanups \subseteq Cleanup

ChainInit ==
    /\ byRoom = [r \in Rooms |-> NoEntry]
    /\ refCount = [e \in Entries |-> 0]
    /\ generation = [e \in Entries |-> 0]
    /\ home = [e \in Entries |-> NoEntry]
    /\ queue = [e \in Entries |-> <<>>]
    /\ running = [e \in Entries |-> FALSE]
    /\ appended = [e \in Entries |-> 0]
    /\ cleanups = {}

-----------------------------------------------------------------------------
\* An identity the next `new` object may take: nothing refers to it any more.
Unreferenced(e) ==
    /\ \A r \in Rooms : byRoom[r] # e
    /\ queue[e] = <<>>
    /\ \A c \in cleanups : c.entry # e

RefCountOf(r) == IF byRoom[r] = NoEntry THEN 0 ELSE refCount[byRoom[r]]

Settled(e) == appended[e] - Len(queue[e])

-----------------------------------------------------------------------------
AcquireFresh(r, e) ==
    /\ byRoom[r] = NoEntry
    /\ Unreferenced(e)
    /\ MaxGeneration >= 1
    /\ byRoom' = [byRoom EXCEPT ![r] = e]
    /\ refCount' = [refCount EXCEPT ![e] = 1]
    /\ generation' = [generation EXCEPT ![e] = 1]
    /\ home' = [home EXCEPT ![e] = r]
    /\ appended' = [appended EXCEPT ![e] = 0]
    /\ UNCHANGED <<queue, running, cleanups>>

AcquireShared(r) ==
    LET e == byRoom[r] IN
    /\ e # NoEntry
    /\ generation[e] < MaxGeneration
    /\ refCount' = [refCount EXCEPT ![e] = @ + 1]
    /\ generation' = [generation EXCEPT ![e] = @ + 1]
    /\ UNCHANGED <<byRoom, home, queue, running, appended, cleanups>>

Acquire(r) == AcquireShared(r) \/ \E e \in Entries : AcquireFresh(r, e)

\* Mutant of AppendTask: accepts work for an entry nobody subscribes to.
AppendTaskUngated(r, t) ==
    LET e == byRoom[r] IN
    IF e = NoEntry
    THEN UNCHANGED chainVars
    ELSE /\ generation[e] < MaxGeneration
         /\ generation' = [generation EXCEPT ![e] = @ + 1]
         /\ queue' = [queue EXCEPT ![e] = Append(@, t)]
         /\ appended' = [appended EXCEPT ![e] = @ + 1]
         /\ UNCHANGED <<byRoom, refCount, home, running, cleanups>>

AppendTask(r, t) ==
    LET e == byRoom[r] IN
    IF RefCountOf(r) = 0
    THEN UNCHANGED chainVars
    ELSE /\ generation[e] < MaxGeneration
         /\ generation' = [generation EXCEPT ![e] = @ + 1]
         /\ queue' = [queue EXCEPT ![e] = Append(@, t)]
         /\ appended' = [appended EXCEPT ![e] = @ + 1]
         /\ UNCHANGED <<byRoom, refCount, home, running, cleanups>>

\* Mutant of CleanupOf: does not wait for the captured tail.
CleanupAtOnce(e) == [entry |-> e, after |-> 0, generation |-> generation[e]]

\* The reaction release() registers on the tail it captured.
CleanupOf(e) ==
    [entry |-> e, after |-> appended[e], generation |-> generation[e]]

Release(r) ==
    LET e == byRoom[r] IN
    IF RefCountOf(r) = 0
    THEN UNCHANGED chainVars
    ELSE /\ refCount' = [refCount EXCEPT ![e] = @ - 1]
         /\ cleanups' = IF refCount[e] = 1 THEN cleanups \cup {CleanupOf(e)}
                                           ELSE cleanups
         /\ UNCHANGED <<byRoom, generation, home, queue, running, appended>>

-----------------------------------------------------------------------------
\* The microtask that calls the next link once its predecessor has settled.
StartTask(e) ==
    /\ queue[e] # <<>>
    /\ ~running[e]
    /\ running' = [running EXCEPT ![e] = TRUE]
    /\ UNCHANGED <<byRoom, refCount, generation, home, queue, appended, cleanups>>

\* The promise returned by the running task resolves.
SettleTask(e) ==
    /\ running[e]
    /\ running' = [running EXCEPT ![e] = FALSE]
    /\ queue' = [queue EXCEPT ![e] = Tail(@)]
    /\ UNCHANGED <<byRoom, refCount, generation, home, appended, cleanups>>

StillIdle(c) ==
    /\ byRoom[home[c.entry]] = c.entry
    /\ refCount[c.entry] = 0
    /\ generation[c.entry] = c.generation

RemoveIfStillIdle(c) ==
    /\ Settled(c.entry) >= c.after
    /\ cleanups' = cleanups \ {c}
    /\ byRoom' = IF StillIdle(c) THEN [byRoom EXCEPT ![home[c.entry]] = NoEntry]
                                 ELSE byRoom
    /\ UNCHANGED <<refCount, generation, home, queue, running, appended>>

-----------------------------------------------------------------------------
Call(r) == Acquire(r) \/ Release(r) \/ \E t \in Tasks : AppendTask(r, t)

Reaction == \E c \in cleanups : RemoveIfStillIdle(c)

ChainNext ==
    \/ \E r \in Rooms : Call(r)
    \/ \E e \in Entries : StartTask(e) \/ SettleTask(e)
    \/ Reaction

\* The event loop runs every microtask it has queued, and a task always
\* settles: #appendDecryptTask bounds it by an abort deadline and a force-drain.
ChainFairness ==
    /\ \A e \in Entries : WF_chainVars(StartTask(e)) /\ WF_chainVars(SettleTask(e))
    /\ WF_chainVars(Reaction)

ChainSafety == ChainInit /\ [][ChainNext]_chainVars

ChainSpec == ChainSafety /\ ChainFairness

-----------------------------------------------------------------------------
(* Safety *)

\* At most one unseal task runs per room, over every entry the room ever had:
\* a resubscription during the drain of a released entry must not run beside it.
OneUnsealInFlight ==
    \A e, f \in Entries :
        running[e] /\ running[f] /\ home[e] = home[f] => e = f

\* Work that has not settled is always on the entry a new subscriber would
\* find, so whatever is appended next queues up behind it.
UnsettledWorkIsReachable ==
    \A e \in Entries : queue[e] # <<>> => \E r \in Rooms : byRoom[r] = e

\* An entry without subscribers always has a removal ahead of it that later
\* calls have not cancelled: otherwise it would stay in the map for ever.
IdleEntryHasRemoval ==
    \A r \in Rooms :
        byRoom[r] # NoEntry /\ RefCountOf(r) = 0 =>
            \E c \in cleanups : /\ c.entry = byRoom[r]
                                /\ c.generation = generation[byRoom[r]]

(* Liveness *)

\* A room nobody uses any more loses its entry, unless somebody comes back.
IdleEntryIsRemoved ==
    \A r \in Rooms : RefCountOf(r) = 0 ~> (byRoom[r] = NoEntry \/ RefCountOf(r) > 0)

(* Refinement *)

Promised == INSTANCE SerialUnseal WITH
    users <- [r \in Rooms |-> RefCountOf(r)],
    pending <- [r \in Rooms |-> IF byRoom[r] = NoEntry THEN <<>> ELSE queue[byRoom[r]]],
    busy <- [r \in Rooms |-> byRoom[r] # NoEntry /\ running[byRoom[r]]]

\* For its callers the class is one serial executor per room.
ImplementsSerialUnseal == Promised!Spec
=============================================================================
