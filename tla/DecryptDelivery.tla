-------------------------- MODULE DecryptDelivery --------------------------
(***************************************************************************)
(* packages/chat-sdk/src/client.ts: how rows reach their consumers through *)
(* the shared decrypt chain of ONE end-to-end encrypted room.              *)
(*                                                                         *)
(* Consumers are subscribe() calls (Subscribers), whose rows arrive one by *)
(* one from the live stream or a reconnect replay, and list() calls        *)
(* (Fetches), whose page is appended in one synchronous burst.  A task is  *)
(* a pair <<consumer, row number>>.  The provider is the caller's: an      *)
(* unseal may resolve, reject, or hang past both bounds of the task.       *)
(***************************************************************************)
EXTENDS RoomDecryptChain, FiniteSets

CONSTANTS
    Subscribers, Fetches,
    Room,               \* the room they share
    Bound,              \* rows a subscriber is sent at most, and of a fetched page
    EarlySubscribe      \* callers may subscribe before the MLS provider is initialized

Consumers == Subscribers \cup Fetches

ASSUME BoundAssumption ==
    Bound \in [Consumers -> Nat] /\ \A f \in Fetches : Bound[f] > 0

DeliveryTasks == UNION {{c} \X (1..Bound[c]) : c \in Consumers}

ASSUME DeliveryAssumption ==
    /\ Room \in Rooms
    /\ DeliveryTasks \subseteq Tasks
    /\ NoEntry \notin Fetches
    /\ Subscribers \cap Fetches = {}

VARIABLES
    provider,   \* "absent" | "ready": #cryptoProvider
    phase,      \* [Consumers -> {"idle", "live", "gone"}]
    holds,      \* [Consumers -> BOOLEAN]: it acquired the chain, no release yet
    released,   \* [Subscribers -> BOOLEAN]: chainReleased
    sent,       \* [Consumers -> Nat]: rows handed over so far
    delivered,  \* [Consumers -> Seq(Delivery)]: onMessage calls / filled page slots
    unseal,     \* [Entries -> UnsealState]: the provider call of the running task
    orphans,    \* tasks force-drained while the provider call was still pending
    aborted,    \* fetches whose caller signal has fired
    turn        \* the fetch whose synchronous burst is under way, or NoEntry

clientVars ==
    <<provider, phase, holds, released, sent, delivered, unseal, orphans, aborted, turn>>
vars == <<chainVars, clientVars>>

Outcomes == {"raw", "plaintext", "unsealError", "untouched"}
Delivery == [row : Nat, outcome : Outcomes]
UnsealState == {"none", "pending", "signalled", "skipped"}

DeliveryTypeOK ==
    /\ TypeOK
    /\ provider \in {"absent", "ready"}
    /\ phase \in [Consumers -> {"idle", "live", "gone"}]
    /\ holds \in [Consumers -> BOOLEAN]
    /\ released \in [Subscribers -> BOOLEAN]
    /\ sent \in [Consumers -> Nat]
    /\ delivered \in [Consumers -> Seq(Delivery)]
    /\ unseal \in [Entries -> UnsealState]
    /\ orphans \subseteq DeliveryTasks
    /\ aborted \subseteq Fetches
    /\ turn \in Fetches \cup {NoEntry}

Init ==
    /\ ChainInit
    /\ provider = "absent"
    /\ phase = [c \in Consumers |-> "idle"]
    /\ holds = [c \in Consumers |-> FALSE]
    /\ released = [s \in Subscribers |-> FALSE]
    /\ sent = [c \in Consumers |-> 0]
    /\ delivered = [c \in Consumers |-> <<>>]
    /\ unseal = [e \in Entries |-> "none"]
    /\ orphans = {}
    /\ aborted = {}
    /\ turn = NoEntry

\* No synchronous burst is under way: any other handler may run.
EventLoopFree == turn = NoEntry

Delivered(c, n, outcome) ==
    delivered' = [delivered EXCEPT ![c] = Append(@, [row |-> n, outcome |-> outcome])]

-----------------------------------------------------------------------------
(* The subscriber *)

\* #ensureMlsProvider: first seal, or getMlsManager().
InitProvider ==
    /\ EventLoopFree
    /\ provider = "absent"
    /\ provider' = "ready"
    /\ UNCHANGED <<chainVars, phase, holds, released, sent, delivered, unseal, orphans,
                   aborted, turn>>

Subscribe(s) ==
    /\ EventLoopFree
    /\ phase[s] = "idle"
    /\ provider = "ready" \/ EarlySubscribe
    /\ phase' = [phase EXCEPT ![s] = "live"]
    /\ holds' = [holds EXCEPT ![s] = provider = "ready"]
    /\ IF provider = "ready" THEN Acquire(Room) ELSE UNCHANGED chainVars
    /\ UNCHANGED <<provider, released, sent, delivered, unseal, orphans, aborted, turn>>

\* es.onmessage, and each row of a replayMissed() page.
Row(s) ==
    /\ EventLoopFree
    /\ phase[s] = "live"
    /\ sent[s] < Bound[s]
    /\ sent' = [sent EXCEPT ![s] = @ + 1]
    /\ IF provider = "ready"
       THEN AppendTask(Room, <<s, sent[s] + 1>>) /\ UNCHANGED delivered
       ELSE Delivered(s, sent[s] + 1, "raw") /\ UNCHANGED chainVars
    /\ UNCHANGED <<provider, phase, holds, released, unseal, orphans, aborted, turn>>

\* teardownSubscriber, which callers may invoke more than once.
Teardown(s) ==
    /\ EventLoopFree
    /\ phase[s] # "idle"
    /\ phase' = [phase EXCEPT ![s] = "gone"]
    /\ IF provider = "ready" /\ ~released[s]
       THEN /\ released' = [released EXCEPT ![s] = TRUE]
            /\ holds' = [holds EXCEPT ![s] = FALSE]
            /\ Release(Room)
       ELSE UNCHANGED <<chainVars, released, holds>>
    /\ UNCHANGED <<provider, sent, delivered, unseal, orphans, aborted, turn>>

-----------------------------------------------------------------------------
(* list(): #unsealFetchedRows around #unsealRowsOnChain *)

\* Mutant of FetchBegin: a page without a subscriber appends to no chain.
FetchBeginNoAcquire(f) ==
    /\ EventLoopFree
    /\ phase[f] = "idle"
    /\ provider = "ready"
    /\ phase' = [phase EXCEPT ![f] = "live"]
    /\ turn' = IF f \in aborted THEN NoEntry ELSE f
    /\ UNCHANGED <<chainVars, provider, holds, released, sent, delivered, unseal, orphans,
                   aborted>>

FetchBegin(f) ==
    /\ EventLoopFree
    /\ phase[f] = "idle"
    /\ provider = "ready"
    /\ phase' = [phase EXCEPT ![f] = "live"]
    /\ turn' = IF f \in aborted THEN NoEntry ELSE f
    /\ holds' = [holds EXCEPT ![f] = RefCountOf(Room) = 0]
    /\ IF RefCountOf(Room) = 0 THEN Acquire(Room) ELSE UNCHANGED chainVars
    /\ UNCHANGED <<provider, released, sent, delivered, unseal, orphans, aborted>>

\* The rest of the burst; it ends with the page's last row.
FetchAppend(f) ==
    /\ turn = f
    /\ sent' = [sent EXCEPT ![f] = @ + 1]
    /\ AppendTask(Room, <<f, sent[f] + 1>>)
    /\ turn' = IF sent[f] + 1 = Bound[f] THEN NoEntry ELSE f
    /\ UNCHANGED <<provider, phase, holds, released, delivered, unseal, orphans, aborted>>

FetchAborts(f) ==
    /\ EventLoopFree
    /\ phase[f] # "gone"
    /\ f \notin aborted
    /\ aborted' = aborted \cup {f}
    /\ UNCHANGED <<chainVars, provider, phase, holds, released, sent, delivered, unseal,
                   orphans, turn>>

PageComplete(f) == Len(delivered[f]) = Bound[f]

\* The page promise settles, or the abort rejects it; finally releases.
FetchReturns(f) ==
    /\ EventLoopFree
    /\ phase[f] = "live"
    /\ PageComplete(f) \/ f \in aborted
    /\ phase' = [phase EXCEPT ![f] = "gone"]
    /\ holds' = [holds EXCEPT ![f] = FALSE]
    /\ IF holds[f] THEN Release(Room) ELSE UNCHANGED chainVars
    /\ UNCHANGED <<provider, released, sent, delivered, unseal, orphans, aborted, turn>>

-----------------------------------------------------------------------------
(* The task #appendDecryptTask puts on the chain *)

TaskBegins(e) ==
    /\ EventLoopFree
    /\ StartTask(e)
    /\ unseal' = [unseal EXCEPT ![e] =
                    IF Head(queue[e])[1] \in aborted THEN "skipped" ELSE "pending"]
    /\ UNCHANGED <<provider, phase, holds, released, sent, delivered, orphans, aborted,
                   turn>>

\* The abort deadline, or the caller's own abort, reaches the provider's signal.
SignalAbort(e) ==
    /\ EventLoopFree
    /\ unseal[e] = "pending"
    /\ unseal' = [unseal EXCEPT ![e] = "signalled"]
    /\ UNCHANGED <<chainVars, provider, phase, holds, released, sent, delivered, orphans,
                   aborted, turn>>

TaskEnds(e, outcome) ==
    LET task == Head(queue[e]) IN
    /\ SettleTask(e)
    /\ Delivered(task[1], task[2], outcome)
    /\ unseal' = [unseal EXCEPT ![e] = "none"]
    /\ UNCHANGED <<provider, phase, holds, released, sent, aborted, turn>>

UnsealSettles(e) ==
    /\ EventLoopFree
    /\ unseal[e] \in {"pending", "signalled"}
    /\ \E outcome \in {"plaintext", "unsealError"} : TaskEnds(e, outcome)
    /\ UNCHANGED orphans

SkipCancelled(e) ==
    /\ EventLoopFree
    /\ unseal[e] = "skipped"
    /\ TaskEnds(e, "untouched")
    /\ UNCHANGED orphans

ForceDrain(e) ==
    /\ EventLoopFree
    /\ unseal[e] = "signalled"
    /\ TaskEnds(e, "unsealError")
    /\ orphans' = orphans \cup {Head(queue[e])}

\* Mutant of OrphanSettles: no settled guard, the late result is delivered too.
OrphanDelivers(t) ==
    /\ EventLoopFree
    /\ orphans' = orphans \ {t}
    /\ Delivered(t[1], t[2], "plaintext")
    /\ UNCHANGED <<chainVars, provider, phase, holds, released, sent, unseal, aborted,
                   turn>>

\* A late result: the settled guard of its task drops it.
OrphanSettles(t) ==
    /\ EventLoopFree
    /\ orphans' = orphans \ {t}
    /\ UNCHANGED <<chainVars, provider, phase, holds, released, sent, delivered, unseal,
                   aborted, turn>>

RemovalRuns ==
    /\ EventLoopFree
    /\ Reaction
    /\ UNCHANGED clientVars

-----------------------------------------------------------------------------
SubscriberNext == \E s \in Subscribers : Subscribe(s) \/ Row(s) \/ Teardown(s)

FetchNext ==
    \E f \in Fetches :
        FetchBegin(f) \/ FetchAppend(f) \/ FetchAborts(f) \/ FetchReturns(f)

TaskNext ==
    \E e \in Entries :
        \/ TaskBegins(e)
        \/ SignalAbort(e)
        \/ UnsealSettles(e)
        \/ SkipCancelled(e)
        \/ ForceDrain(e)

Next ==
    \/ InitProvider
    \/ SubscriberNext
    \/ FetchNext
    \/ TaskNext
    \/ \E t \in orphans : OrphanSettles(t)
    \/ RemovalRuns

\* Timers fire and microtasks run; the provider owes nothing (no fairness on
\* UnsealSettles or OrphanSettles), nor do the callers.
Fairness ==
    /\ \A e \in Entries :
         /\ WF_vars(TaskBegins(e))
         /\ WF_vars(SignalAbort(e))
         /\ WF_vars(SkipCancelled(e))
         /\ WF_vars(ForceDrain(e))
    /\ \A f \in Fetches : WF_vars(FetchAppend(f)) /\ WF_vars(FetchReturns(f))
    /\ WF_vars(RemovalRuns)

Spec == Init /\ [][Next]_vars /\ Fairness

-----------------------------------------------------------------------------
(* Safety *)

\* Every row is handed out at most once and in the order it arrived, whatever
\* deadlines, force-drains, late results and aborts do.
DeliveredOnceInOrder ==
    \A c \in Consumers : \A i, j \in DOMAIN delivered[c] :
        i < j => delivered[c][i].row < delivered[c][j].row

(* Liveness *)

\* A row that was accepted is eventually handed out, even if the provider hangs
\* on it or on a row before it.
EveryRowIsDelivered ==
    \A c \in Consumers : \A n \in 1..Bound[c] :
        sent[c] >= n ~> \E i \in DOMAIN delivered[c] : delivered[c][i].row = n

\* list() always settles, also when the subscription whose chain it rode on is
\* torn down first.
FetchSettles == \A f \in Fetches : phase[f] = "live" ~> phase[f] = "gone"

\* What enters the chain comes out of it: rows at their callback, pages at
\* their caller.
WorkSettles == EveryRowIsDelivered /\ FetchSettles
=============================================================================
