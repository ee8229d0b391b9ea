------------------------------- MODULE Outbox -------------------------------
(***************************************************************************)
(* packages/chat-sdk/src/outbox.ts and the sends and flushes of client.ts  *)
(* that use it, for one room: the durable outbox in IndexedDB, the room's  *)
(* serial chain of foreground sends, and the background flushOutbox(),     *)
(* which the widget calls on mount and on every reconnect.                 *)
(*                                                                         *)
(* IndexedDB runs transactions on one store in the order of their          *)
(* requests; an actor (a message's send, the flush, the user) awaits at    *)
(* most one, so the outstanding ones are a sequence of actors.  A reload   *)
(* of the page keeps the store and nothing else.  The server keeps the     *)
(* first copy of a message id.                                             *)
(***************************************************************************)
EXTENDS Naturals, Sequences, FiniteSets, Sublists

CONSTANTS
    Texts,          \* ids of text messages
    Attachments,    \* ids of attachment messages
    Flush, User,    \* the other actors
    MAX_RETRIES,
    MAX_FAILED_OUTBOX_ENTRIES,
    MaxReloads,     \* bound on reloads
    MaxFaults       \* bound on failed requests and transactions

Messages == Texts \cup Attachments

ASSUME ActorsAssumption ==
    Texts \cap Attachments = {} /\ {Flush, User} \cap Messages = {} /\ Flush # User
ASSUME RetriesAssumption ==
    /\ MAX_RETRIES \in Nat \ {0}
    /\ MAX_FAILED_OUTBOX_ENTRIES \in Nat
    /\ MaxReloads \in Nat
    /\ MaxFaults \in Nat

VARIABLES
    store,      \* outbox:<roomId>, a sequence of entries
    idb,        \* actors whose transaction is outstanding, in request order
    clock,      \* Date.now(), as far as the times an eviction compares tell it
    pc,         \* [Messages -> Stage]: where the send of a message is
    chain,      \* the room's #sendChains: sends that entered it, unsettled
    attempt,    \* retries of the send at its head
    flush,      \* the running flushOutbox(): its stage, and the rest of its snapshot
    dismissed,  \* message whose dismissal the user's transaction is for
    server,     \* message ids the server has accepted
    refused,    \* message ids it has refused for good
    persisted,  \* history: messages whose enqueue transaction committed
    abandoned,  \* history: dismissed, upload failed, or evicted at the cap
    stumbled,   \* history: its enqueue, or a flush's send of it, once failed
    line,       \* history: messages in the order of their enqueue
    reloads, faults

sendVars == <<pc, chain, attempt>>
historyVars == <<persisted, abandoned, stumbled, line>>
vars == <<store, idb, clock, sendVars, flush, dismissed, server, refused, historyVars,
          reloads, faults>>

Entry == [id : Messages, pendingAttachments : BOOLEAN, sendFailed : BOOLEAN, at : Nat]

\* Stages that await a transaction, and the others.
Transacting == {"enqueueing", "placing", "patching", "deleting", "scrapping"}
Settled == {"succeeded", "failed", "gaveUp", "lost"}
Stage ==
    Transacting \cup Settled \cup {"idle", "sealing", "queued", "uploading", "sending"}

FlushStage == {"idle", "reading", "marking", "sending", "deleting", "pruning"}

TypeOK ==
    /\ store \in Seq(Entry)
    /\ idb \in Seq(Messages \cup {Flush, User})
    /\ clock \in Nat
    /\ pc \in [Messages -> Stage]
    /\ chain \in Seq(Messages)
    /\ attempt \in 0..(MAX_RETRIES - 1)
    /\ flush \in [stage : FlushStage, todo : Seq(Entry)]
    /\ dismissed \in Messages \cup {User}
    /\ server \subseteq Messages
    /\ refused \subseteq Messages
    /\ persisted \subseteq Messages
    /\ abandoned \subseteq Messages
    /\ stumbled \subseteq Messages
    /\ line \in Seq(Messages)
    /\ reloads \in 0..MaxReloads
    /\ faults \in 0..MaxFaults

NoFlush == [stage |-> "idle", todo |-> <<>>]

\* A message may have been lost by an earlier page, before it was stored.
Init ==
    /\ store = <<>>
    /\ idb = <<>>
    /\ clock = 0
    /\ pc \in [Messages -> {"idle", "lost"}]
    /\ chain = <<>>
    /\ attempt = 0
    /\ flush = NoFlush
    /\ dismissed = User
    /\ server = {}
    /\ refused = {}
    /\ persisted = {}
    /\ abandoned = {}
    /\ stumbled = {}
    /\ line = <<>>
    /\ reloads = 0
    /\ faults = 0

Fault == faults < MaxFaults /\ faults' = faults + 1

Stored(m) == \E i \in DOMAIN store : store[i].id = m

Goes(m, stage) == pc' = [pc EXCEPT ![m] = stage]

Request(actor) == idb' = Append(idb, actor)

-----------------------------------------------------------------------------
(* The store's operations *)

Without(ids) == Kept(store, {i \in DOMAIN store : store[i].id \notin ids})

Dequeued(m) == Without({m})

\* updateEntry() with the patch of a finished upload, and with the flush's.
Uploaded(m) ==
    [i \in DOMAIN store |->
        IF store[i].id = m THEN [store[i] EXCEPT !.pendingAttachments = FALSE]
                           ELSE store[i]]

MarkedFailed(m) ==
    [i \in DOMAIN store |->
        IF store[i].id = m THEN [store[i] EXCEPT !.sendFailed = TRUE, !.at = clock]
                           ELSE store[i]]

Enqueued(m) ==
    Append(store, [id |-> m, pendingAttachments |-> m \in Attachments,
                   sendFailed |-> FALSE, at |-> IF m \in Attachments THEN clock ELSE 0])

IsFailed(e) == e.sendFailed \/ e.pendingAttachments

Failed == {i \in DOMAIN store : IsFailed(store[i])}

\* Mutant of Evicted: the cap counts pending entries too, and evicts them.
EvictedAny ==
    {store[i].id : i \in {j \in DOMAIN store :
        Cardinality({k \in DOMAIN store : k > j}) >= MAX_FAILED_OUTBOX_ENTRIES}}

\* Evicted oldest first; entries of one instant in store order (sort is stable).
Older(i, j) == store[i].at < store[j].at \/ (store[i].at = store[j].at /\ i < j)

Evicted ==
    {store[i].id : i \in {j \in Failed :
        Cardinality({k \in Failed : Older(j, k)}) >= MAX_FAILED_OUTBOX_ENTRIES}}

-----------------------------------------------------------------------------
(* The foreground sends *)

\* sendTextOptimistic(), sendOptimistic(): seal, then enqueue.
CallText(m) ==
    /\ m \in Texts
    /\ pc[m] = "idle"
    /\ Goes(m, "sealing")
    /\ UNCHANGED <<store, idb, clock, chain, attempt, flush, dismissed, server, refused,
                   historyVars, reloads, faults>>

SealSettles(m) ==
    /\ pc[m] = "sealing"
    /\ Goes(m, "enqueueing")
    /\ Request(m)
    /\ line' = Append(line, m)
    /\ UNCHANGED <<store, clock, chain, attempt, flush, dismissed, server, refused,
                   persisted, abandoned, stumbled, reloads, faults>>

\* sendAttachmentMessageOptimistic() enters the chain at once and enqueues there.
CallAttachment(m) ==
    /\ m \in Attachments
    /\ pc[m] = "idle"
    /\ Goes(m, "queued")
    /\ chain' = Append(chain, m)
    /\ line' = Append(line, m)
    /\ UNCHANGED <<store, idb, clock, attempt, flush, dismissed, server, refused,
                   persisted, abandoned, stumbled, reloads, faults>>

\* Mutant of StartSend: sends do not wait for their predecessors.
StartSendAtOnce(m) ==
    /\ pc[m] = "queued"
    /\ attempt' = 0
    /\ \/ m \in Texts /\ Goes(m, "sending") /\ UNCHANGED idb
       \/ m \in Attachments /\ Goes(m, "placing") /\ Request(m)
    /\ UNCHANGED <<store, clock, chain, flush, dismissed, server, refused, historyVars,
                   reloads, faults>>

\* The chain reaches the send: its function is called.
StartSend(m) ==
    /\ pc[m] = "queued"
    /\ Head(chain) = m
    /\ attempt' = 0
    /\ \/ m \in Texts /\ Goes(m, "sending") /\ UNCHANGED idb
       \/ m \in Attachments /\ Goes(m, "placing") /\ Request(m)
    /\ UNCHANGED <<store, clock, chain, flush, dismissed, server, refused, historyVars,
                   reloads, faults>>

UploadSettles(m) ==
    /\ pc[m] = "uploading"
    /\ \/ Goes(m, "patching") /\ UNCHANGED <<abandoned, faults>>
       \/ Goes(m, "scrapping") /\ Fault /\ abandoned' = abandoned \cup {m}
    /\ Request(m)
    /\ UNCHANGED <<store, clock, chain, attempt, flush, dismissed, server, refused,
                   persisted, stumbled, line, reloads>>

SentByFlush(m) == flush.stage = "sending" /\ flush.todo[1].id = m

\* A request for m is under way, or was and its answer got lost.
SentBySomebody(m) == pc[m] = "sending" \/ SentByFlush(m)

ServerAccepts(m) ==
    /\ SentBySomebody(m)
    /\ m \notin refused \cup server
    /\ server' = server \cup {m}
    /\ UNCHANGED <<store, idb, clock, sendVars, flush, dismissed, refused, historyVars,
                   reloads, faults>>

ServerRefuses(m) ==
    /\ SentBySomebody(m)
    /\ m \notin refused \cup server
    /\ refused' = refused \cup {m}
    /\ UNCHANGED <<store, idb, clock, sendVars, flush, dismissed, server, historyVars,
                   reloads, faults>>

SendSucceeds(m) ==
    /\ pc[m] = "sending"
    /\ m \in server
    /\ Goes(m, "deleting")
    /\ Request(m)
    /\ UNCHANGED <<store, clock, chain, attempt, flush, dismissed, server, refused,
                   historyVars, reloads, faults>>

\* One of PERMANENT_OUTBOX_FAILURE_CODES.
SendRefused(m) ==
    /\ pc[m] = "sending"
    /\ m \in refused
    /\ Goes(m, "scrapping")
    /\ Request(m)
    /\ UNCHANGED <<store, clock, chain, attempt, flush, dismissed, server, refused,
                   historyVars, reloads, faults>>

SendFails(m) ==
    /\ pc[m] = "sending"
    /\ Fault
    /\ IF attempt < MAX_RETRIES - 1
       THEN attempt' = attempt + 1 /\ UNCHANGED <<pc, chain>>
       ELSE Goes(m, "gaveUp") /\ chain' = Tail(chain) /\ attempt' = 0
    /\ UNCHANGED <<store, idb, clock, flush, dismissed, server, refused, historyVars,
                   reloads>>

-----------------------------------------------------------------------------
(* flushOutbox() *)

\* The loop goes on with todo, beside the outstanding transactions in rest.
FlushGoesOn(todo, rest) ==
    \/ /\ todo = <<>>
       /\ flush' = [stage |-> "pruning", todo |-> <<>>]
       /\ idb' = Append(rest, Flush)
    \/ /\ todo # <<>>
       /\ todo[1].pendingAttachments
       /\ flush' = [stage |-> "marking", todo |-> todo]
       /\ idb' = Append(rest, Flush)
    \/ /\ todo # <<>>
       /\ ~todo[1].pendingAttachments
       /\ flush' = [stage |-> "sending", todo |-> todo]
       /\ idb' = rest

\* A call while one is running returns at once.
FlushCalled ==
    /\ flush.stage = "idle"
    /\ flush' = [stage |-> "reading", todo |-> <<>>]
    /\ Request(Flush)
    /\ UNCHANGED <<store, clock, sendVars, dismissed, server, refused, historyVars,
                   reloads, faults>>

FlushSends == flush.stage = "sending"

FlushScrubs ==
    /\ FlushSends
    /\ flush.todo[1].id \in server \cup refused
    /\ flush' = [flush EXCEPT !.stage = "deleting"]
    /\ Request(Flush)
    /\ UNCHANGED <<store, clock, sendVars, dismissed, server, refused, historyVars,
                   reloads, faults>>

\* A transient failure: the entry stays for the next flush.
FlushSkips ==
    /\ FlushSends
    /\ Fault
    /\ stumbled' = stumbled \cup {flush.todo[1].id}
    /\ FlushGoesOn(Tail(flush.todo), idb)
    /\ UNCHANGED <<store, clock, sendVars, dismissed, server, refused, persisted, abandoned,
                   line, reloads>>

-----------------------------------------------------------------------------
(* Transactions: the one at the head commits (or fails, a no-op for its    *)
(* caller), and its caller goes on.                                        *)

Enqueues(m, commits) ==
    /\ pc[m] \in {"enqueueing", "placing"}
    /\ store' = IF commits THEN Enqueued(m) ELSE store
    /\ persisted' = IF commits THEN persisted \cup {m} ELSE persisted
    /\ stumbled' = IF commits THEN stumbled ELSE stumbled \cup {m}
    /\ IF pc[m] = "placing"
       THEN Goes(m, "uploading") /\ clock' = clock + 1 /\ UNCHANGED chain
       ELSE Goes(m, "queued") /\ chain' = Append(chain, m) /\ UNCHANGED clock
    /\ UNCHANGED <<attempt, abandoned>>

\* Mutant of Patches: writes the entry back whether or not it is still there.
PatchesOrAdds(m, commits) ==
    /\ pc[m] = "patching"
    /\ store' = IF commits
                THEN Append(Dequeued(m), [id |-> m, pendingAttachments |-> FALSE,
                                          sendFailed |-> FALSE, at |-> clock])
                ELSE store
    /\ Goes(m, "sending")
    /\ UNCHANGED <<clock, chain, attempt, persisted, abandoned, stumbled>>

Patches(m, commits) ==
    /\ pc[m] = "patching"
    /\ store' = IF commits THEN Uploaded(m) ELSE store
    /\ Goes(m, "sending")
    /\ UNCHANGED <<clock, chain, attempt, persisted, abandoned, stumbled>>

Deletes(m, commits) ==
    /\ pc[m] \in {"deleting", "scrapping"}
    /\ store' = IF commits THEN Dequeued(m) ELSE store
    /\ Goes(m, IF pc[m] = "deleting" THEN "succeeded" ELSE "failed")
    /\ chain' = Tail(chain)
    /\ attempt' = 0
    /\ UNCHANGED <<clock, persisted, abandoned, stumbled>>

SendTransaction(m, commits) ==
    /\ idb # <<>>
    /\ Head(idb) = m
    /\ idb' = Tail(idb)
    /\ Enqueues(m, commits) \/ Patches(m, commits) \/ Deletes(m, commits)
    /\ UNCHANGED <<flush, dismissed, server, refused, line, reloads>>

FlushReads(commits) ==
    /\ flush.stage = "reading"
    /\ FlushGoesOn(IF commits THEN Kept(store, {i \in DOMAIN store : ~store[i].sendFailed})
                   ELSE <<>>, Tail(idb))
    /\ UNCHANGED <<store, clock, abandoned>>

FlushMarks(commits) ==
    /\ flush.stage = "marking"
    /\ store' = IF commits THEN MarkedFailed(flush.todo[1].id) ELSE store
    /\ clock' = clock + 1
    /\ FlushGoesOn(Tail(flush.todo), Tail(idb))
    /\ UNCHANGED abandoned

FlushDeletes(commits) ==
    /\ flush.stage = "deleting"
    /\ store' = IF commits THEN Dequeued(flush.todo[1].id) ELSE store
    /\ FlushGoesOn(Tail(flush.todo), Tail(idb))
    /\ UNCHANGED <<clock, abandoned>>

\* Mutant of FlushPrunes: the guard against a second flush is never released.
FlushPrunesLatched(commits) ==
    /\ flush.stage = "pruning"
    /\ store' = IF commits THEN Without(Evicted) ELSE store
    /\ abandoned' = IF commits THEN abandoned \cup Evicted ELSE abandoned
    /\ idb' = Tail(idb)
    /\ UNCHANGED <<flush, clock>>

\* pruneFailedEntries(), after which the guard is released.
FlushPrunes(commits) ==
    /\ flush.stage = "pruning"
    /\ store' = IF commits THEN Without(Evicted) ELSE store
    /\ abandoned' = IF commits THEN abandoned \cup Evicted ELSE abandoned
    /\ flush' = NoFlush
    /\ idb' = Tail(idb)
    /\ UNCHANGED clock

FlushTransaction(commits) ==
    /\ idb # <<>>
    /\ Head(idb) = Flush
    /\ FlushReads(commits) \/ FlushMarks(commits) \/ FlushDeletes(commits)
         \/ FlushPrunes(commits)
    /\ UNCHANGED <<sendVars, dismissed, server, refused, persisted, stumbled, line, reloads>>

UserTransaction(commits) ==
    /\ idb # <<>>
    /\ Head(idb) = User
    /\ idb' = Tail(idb)
    /\ store' = IF commits THEN Dequeued(dismissed) ELSE store
    /\ dismissed' = User
    /\ UNCHANGED <<clock, sendVars, flush, server, refused, historyVars, reloads>>

Transaction(commits) ==
    \/ \E m \in Messages : SendTransaction(m, commits)
    \/ FlushTransaction(commits)
    \/ UserTransaction(commits)

Commits == Transaction(TRUE) /\ UNCHANGED faults

\* Storage is unavailable: markDegraded(), and the caller carries on.
StorageFails == Transaction(FALSE) /\ Fault

-----------------------------------------------------------------------------
(* The user *)

\* dismissFailedOutboxEntry() of an entry getFailedOutboxEntries() shows.
Dismiss(m) ==
    /\ dismissed = User
    /\ \E i \in Failed : store[i].id = m
    /\ dismissed' = m
    /\ abandoned' = abandoned \cup {m}
    /\ Request(User)
    /\ UNCHANGED <<store, clock, sendVars, flush, server, refused, persisted, stumbled, line,
                   reloads, faults>>

Reload ==
    /\ reloads < MaxReloads
    /\ reloads' = reloads + 1
    /\ pc' = [m \in Messages |->
                IF pc[m] \in Settled \cup {"idle"} THEN pc[m] ELSE "lost"]
    /\ idb' = <<>>
    /\ chain' = <<>>
    /\ attempt' = 0
    /\ flush' = NoFlush
    /\ dismissed' = User
    /\ UNCHANGED <<store, clock, server, refused, historyVars, faults>>

-----------------------------------------------------------------------------
SendStep(m) ==
    \/ SealSettles(m)
    \/ StartSend(m)
    \/ UploadSettles(m)
    \/ SendSucceeds(m)
    \/ SendRefused(m)

Next ==
    \/ \E m \in Messages :
         \/ CallText(m)
         \/ CallAttachment(m)
         \/ SendStep(m)
         \/ ServerAccepts(m)
         \/ ServerRefuses(m)
         \/ SendFails(m)
         \/ Dismiss(m)
    \/ FlushCalled
    \/ FlushScrubs
    \/ FlushSkips
    \/ Commits
    \/ StorageFails
    \/ Reload

\* Transactions end, the server answers, and the widget flushes again and again
\* (on mount and on reconnects).
Fairness ==
    /\ \A m \in Messages : WF_vars(SendStep(m)) /\ WF_vars(ServerAccepts(m))
    /\ WF_vars(Commits)
    /\ WF_vars(FlushCalled)
    /\ WF_vars(FlushScrubs)

Spec == Init /\ [][Next]_vars /\ Fairness

-----------------------------------------------------------------------------
(* Safety *)

\* What the outbox has once stored stays there until the server has accepted it
\* or refused it for good, through reloads, retries, stale snapshots of a flush
\* and evictions: only an attachment may be dropped otherwise (abandoned).
NothingLost ==
    \A m \in persisted :
        Stored(m) \/ m \in server \cup refused \/ m \in abandoned \cap Attachments

\* A text is not sent, by its foreground send or by a flush, before its turn: the
\* sends of what was enqueued before it are over, or a flush has it in hand, and
\* what was enqueued before it has reached the server, which took or refused it.
\* A flush makes two exceptions.  It passes what it or the store stumbled over:
\* a send that failed for now, an enqueue that did (then the message is not in
\* the store).  And it passes attachments that are on their way in the chain
\* (SentInTurn has no such exception).
Started(m) ==
    pc[m] \in {"placing", "uploading", "patching", "sending", "deleting", "scrapping"}

Reached(m) == m \in server \cup refused

NoOvertaking ==
    \A i, j \in DOMAIN line : i < j /\ line[j] \in Texts =>
        /\ Started(line[j]) => pc[line[i]] \in Settled
        /\ SentByFlush(line[j]) => \/ pc[line[i]] \in Settled
                                   \/ Reached(line[i])
                                   \/ line[i] \in stumbled \cup Attachments


\* Only an attachment message whose upload was orphaned by a reload is marked
\* permanently failed (outbox.ts, sendFailed: "Set by `flushOutbox` when a
\* `pendingAttachments` entry is orphaned by a page reload").
OnlyOrphansAreMarked ==
    \A i \in DOMAIN store : store[i].sendFailed => pc[store[i].id] = "lost"

\* An entry that was delivered, dismissed or evicted never comes back, not even
\* by the patch of an upload that was still running.
NoResurrection ==
    [][\A m \in Messages :
         m \in persisted /\ ~Stored(m) => ~Stored(m)']_vars

(* Liveness *)

\* A stored text reaches the server or is refused by it, whatever happened to
\* its foreground send.
EveryTextIsDelivered == \A m \in Texts : m \in persisted ~> m \in server \cup refused
=============================================================================
