-------------------------- MODULE MessageReactions --------------------------
(***************************************************************************)
(* packages/chat-widget/src/ui/message-list.ts: the reactions under the    *)
(* rows of a mounted message list.  Four roads lead to #reactions: the     *)
(* optimistic write of a click, the live events of the subscription, the   *)
(* refresh that asks the server for the aggregate, and the rollback of a   *)
(* write that failed.  element.ts bridges live events without a            *)
(* totalCount, so each of them asks for a refresh.                         *)
(*                                                                         *)
(* A message's entry in #reactions holds for each emoji a count and the    *)
(* users; a missing entry, count or list reads as empty, as the code's     *)
(* `??` has it.  Lists of users are sets and are not truncated.            *)
(* Reactions are enabled and the client can write them; capabilities that  *)
(* are missing make the handlers return at once.                           *)
(***************************************************************************)
EXTENDS Naturals, Sequences, FiniteSets

CONSTANTS
    Msgs, Users, Emojis,
    Self,               \* #selfUid
    Reacted,            \* bound: messages that get reactions, the others come and go
    Mounted,            \* the messages list() returned to mount(), oldest first
    Earlier,            \* the reactions these may have before the mount
    MAX_LIVE_MESSAGES,
    MaxClicks,          \* bound on selections
    MaxChanges,         \* bound on reactions from elsewhere
    MaxArrivals,        \* bound on rows that come
    MaxFaults           \* bound on failed requests and lost events

ASSUME ReactionsAssumption ==
    /\ Self \in Users
    /\ IsFiniteSet(Users)
    /\ Reacted \subseteq Msgs
    /\ Mounted \in Seq(Msgs)
    /\ \A i, j \in 1..Len(Mounted) : Mounted[i] = Mounted[j] => i = j
    /\ Earlier \subseteq SUBSET (Users \X Emojis)
    /\ MAX_LIVE_MESSAGES \in Nat \ {0}
    /\ MaxClicks \in Nat /\ MaxChanges \in Nat /\ MaxArrivals \in Nat /\ MaxFaults \in Nat

VARIABLES
    order,      \* #order, whose messages are those of #rows
    reactions,  \* #reactions
    inflight,   \* #inflight: messages a routed click has locked
    writes,     \* the clicks whose server call is outstanding
    fetching,   \* #reactionFetchInFlight
    pending,    \* #reactionFetchPending
    timers,     \* #rollbackTimers: messages to reconcile after an auth error
    destroyed,  \* destroy() has run, and #signal is aborted
    server,     \* the pairs <<user, emoji>> the server holds for a message
    answers,    \* what the server answered to the refreshes in flight
    events,     \* reaction events on their way through the stream
    excused,    \* history: messages whose display need not be the server's
    clicks, changes, arrivals, faults

mutableVars == <<order, reactions, inflight, writes, fetching, pending, timers, destroyed>>
serverVars == <<server, answers, events>>
budgets == <<clicks, changes, arrivals, faults>>
vars == <<mutableVars, serverVars, excused, budgets>>

rows == {order[i] : i \in 1..Len(order)}
Pairs == Users \X Emojis
Shown == [counts : [Emojis -> Nat], users : [Emojis -> SUBSET Users]]
NoReactions == [counts |-> [e \in Emojis |-> 0], users |-> [e \in Emojis |-> {}]]

\* A click's outstanding call: `send` and `remove` are the last of their click,
\* after `swap` (the removeReaction() of a replacement) comes a `send` of `to`.
Writes == [id : 1..MaxClicks, msg : Msgs, call : {"send", "remove", "swap"},
           emoji : Emojis, to : Emojis, applied : BOOLEAN, preSnapshot : Shown]

Events == [msg : Msgs, user : Users, emoji : Emojis, op : {"add", "remove"}]

TypeOK ==
    /\ order \in Seq(Msgs)
    /\ reactions \in [Msgs -> Shown]
    /\ inflight \subseteq Msgs
    /\ writes \subseteq Writes
    /\ fetching \subseteq Msgs
    /\ pending \subseteq fetching
    /\ timers \subseteq Msgs
    /\ destroyed \in BOOLEAN
    /\ server \in [Msgs -> SUBSET Pairs]
    /\ answers \subseteq [msg : fetching, pairs : SUBSET Pairs]
    /\ events \in Seq(Events)
    /\ excused \subseteq Msgs
    /\ clicks \in 0..MaxClicks
    /\ changes \in 0..MaxChanges
    /\ arrivals \in 0..MaxArrivals
    /\ faults \in 0..MaxFaults

\* The end of #fetchAndRender(): subscribed, and every row's reactions asked for.
Init ==
    /\ order = Mounted
    /\ reactions = [m \in Msgs |-> NoReactions]
    /\ inflight = {}
    /\ writes = {}
    /\ fetching = rows
    /\ pending = {}
    /\ timers = {}
    /\ destroyed = FALSE
    /\ \E earlier \in [Reacted -> Earlier] :
         server = [m \in Msgs |-> IF m \in Reacted THEN earlier[m] ELSE {}]
    /\ answers = {}
    /\ events = <<>>
    /\ excused = {}
    /\ clicks = 0 /\ changes = 0 /\ arrivals = 0 /\ faults = 0

-----------------------------------------------------------------------------
(* What an entry becomes *)

Put(entry, e, users, count) ==
    [counts |-> [entry.counts EXCEPT ![e] = count],
     users |-> [entry.users EXCEPT ![e] = users]]

\* A count that reaches zero takes the whole emoji with it.
Less(entry, e, user) ==
    IF entry.counts[e] <= 1
    THEN Put(entry, e, {}, 0)
    ELSE Put(entry, e, entry.users[e] \ {user}, entry.counts[e] - 1)

\* Mutant of More: counts a user who is listed already.
MoreTwice(entry, e, user) ==
    Put(entry, e, entry.users[e] \cup {user}, entry.counts[e] + 1)

More(entry, e, user) ==
    Put(entry, e, entry.users[e] \cup {user},
        entry.counts[e] + (IF user \in entry.users[e] THEN 0 ELSE 1))

\* getReactions(): the server's aggregate.
Aggregate(pairs) ==
    LET who(e) == {u \in Users : <<u, e>> \in pairs} IN
    [counts |-> [e \in Emojis |-> Cardinality(who(e))], users |-> [e \in Emojis |-> who(e)]]

\* #scheduleReactionRefresh(m): one request per message, and a note to ask again.
Refresh(m) ==
    IF m \in fetching
    THEN pending' = pending \cup {m} /\ UNCHANGED fetching
    ELSE fetching' = fetching \cup {m} /\ UNCHANGED pending

\* Mutant of RefreshEnds: what happened during the request is forgotten.
RefreshEndsForgetful(m) ==
    /\ answers' = {a \in answers : a.msg # m}
    /\ pending' = pending \ {m}
    /\ fetching' = fetching \ {m}

\* Its finally().
RefreshEnds(m) ==
    /\ answers' = {a \in answers : a.msg # m}
    /\ pending' = pending \ {m}
    /\ fetching' = IF m \in pending THEN fetching ELSE fetching \ {m}

-----------------------------------------------------------------------------
(* The server (external): idempotent per user and emoji; it announces each *)
(* change on the stream, which the list leaves when it is destroyed.       *)

ServerTakes(m, user, e, op) ==
    LET after == IF op = "add" THEN server[m] \cup {<<user, e>>} ELSE server[m] \ {<<user, e>>}
    IN  /\ server' = [server EXCEPT ![m] = after]
        /\ events' = IF destroyed \/ after = server[m]
                     THEN events
                     ELSE Append(events, [msg |-> m, user |-> user, emoji |-> e, op |-> op])

\* Another participant, or Self on another device; left out once nobody looks.
OtherReacts(m, user, e, op) ==
    /\ ~destroyed
    /\ m \in Reacted
    /\ changes < MaxChanges
    /\ changes' = changes + 1
    /\ ServerTakes(m, user, e, op)
    /\ UNCHANGED <<mutableVars, answers, excused, clicks, arrivals, faults>>

ServerAppliesWrite(w) ==
    /\ ~w.applied
    /\ ServerTakes(w.msg, Self, w.emoji, IF w.call = "send" THEN "add" ELSE "remove")
    /\ writes' = (writes \ {w}) \cup {[w EXCEPT !.applied = TRUE]}
    /\ UNCHANGED <<order, reactions, inflight, fetching, pending, timers, destroyed,
                   answers, excused, budgets>>

ServerAnswersRefresh(m) ==
    /\ m \in fetching
    /\ \A a \in answers : a.msg # m
    /\ answers' = answers \cup {[msg |-> m, pairs |-> server[m]]}
    /\ UNCHANGED <<mutableVars, server, events, excused, budgets>>

\* A reaction that happens while the stream is down is not replayed.
EventIsLost ==
    /\ events # <<>>
    /\ faults < MaxFaults
    /\ faults' = faults + 1
    /\ events' = Tail(events)
    /\ excused' = excused \cup {Head(events).msg}
    /\ UNCHANGED <<mutableVars, server, answers, clicks, changes, arrivals>>

-----------------------------------------------------------------------------
(* Clicks: #selectReaction() and the write it is routed to.  The keys      *)
(* `${msgId}:${emoji}` of the additions and removals are taken under the   *)
(* lock of the message and never contended, so they are not modelled.      *)

\* #ownReactionFor() returns the first of these; their order is left open.
Own(m) == {e \in Emojis : Self \in reactions[m].users[e]}

StartWrite(m, call, e, to, entry) ==
    /\ reactions' = [reactions EXCEPT ![m] = entry]
    /\ writes' = writes \cup
         {[id |-> clicks + 1, msg |-> m, call |-> call, emoji |-> e, to |-> to,
           applied |-> FALSE, preSnapshot |-> reactions[m]]}

RouteAdd(m, e) ==
    Own(m) = {} /\ StartWrite(m, "send", e, e, More(reactions[m], e, Self))

RouteRemove(m, e) ==
    e \in Own(m) /\ StartWrite(m, "remove", e, e, Less(reactions[m], e, Self))

RouteReplace(m, from, to) ==
    /\ from \in Own(m) \ {to}
    /\ StartWrite(m, "swap", from, to, More(Less(reactions[m], from, Self), to, Self))

Lock(m) == m \notin inflight /\ inflight' = inflight \cup {m}

SelectReaction(m, e) ==
    /\ ~destroyed
    /\ m \in rows \cap Reacted
    /\ clicks < MaxClicks
    /\ clicks' = clicks + 1
    /\ Lock(m)
    /\ \/ RouteAdd(m, e)
       \/ RouteRemove(m, e)
       \/ \E from \in Emojis : RouteReplace(m, from, e)
    /\ UNCHANGED <<order, fetching, pending, timers, destroyed, serverVars, excused,
                   changes, arrivals, faults>>

\* Mutant of EndWrite: the lock stays.
EndWriteLocked(w) == writes' = writes \ {w} /\ UNCHANGED inflight

\* The finally() of #selectReaction.
EndWrite(w) ==
    /\ writes' = writes \ {w}
    /\ inflight' = inflight \ {w.msg}

\* removeReaction(from) of a replacement is followed by sendReaction(to).
SwapGoesOn(w) ==
    /\ w.applied /\ w.call = "swap"
    /\ writes' = (writes \ {w}) \cup
         {[w EXCEPT !.call = "send", !.emoji = w.to, !.applied = FALSE]}
    /\ UNCHANGED <<order, reactions, inflight, fetching, pending, timers, destroyed,
                   serverVars, excused, budgets>>

WriteSucceeds(w) ==
    /\ w.applied /\ w.call # "swap"
    /\ EndWrite(w)
    /\ UNCHANGED <<order, reactions, fetching, pending, timers, destroyed,
                   serverVars, excused, budgets>>

\* #handleWriteFailure() for a reason other than auth_expired: the request or
\* its answer is lost, and the snapshot taken at the click is put back.
WriteFails(w) ==
    /\ faults < MaxFaults
    /\ faults' = faults + 1
    /\ reactions' = [reactions EXCEPT ![w.msg] = w.preSnapshot]
    /\ excused' = excused \cup {w.msg}
    /\ EndWrite(w)
    /\ UNCHANGED <<order, fetching, pending, timers, destroyed, serverVars,
                   clicks, changes, arrivals>>

\* #scheduleDelayedRollback(): one timer per message.
DelayRollback(m) == timers' = timers \cup {m}

\* #handleWriteFailure() for auth_expired: the server did not take the call.
WriteExpires(w) ==
    /\ ~w.applied
    /\ faults < MaxFaults
    /\ faults' = faults + 1
    /\ DelayRollback(w.msg)
    /\ EndWrite(w)
    /\ UNCHANGED <<order, reactions, fetching, pending, destroyed, serverVars, excused,
                   clicks, changes, arrivals>>

RollbackTimerFires(m) ==
    /\ m \in timers
    /\ timers' = timers \ {m}
    /\ Refresh(m)
    /\ UNCHANGED <<order, reactions, inflight, writes, destroyed, serverVars, excused, budgets>>

-----------------------------------------------------------------------------
(* Events, refreshes, rows *)

\* #handleReaction(), also for a message that is not in the list.
HandleReaction ==
    /\ ~destroyed
    /\ events # <<>>
    /\ events' = Tail(events)
    /\ LET ev == Head(events)
           entry == reactions[ev.msg]
       IN  /\ reactions' = [reactions EXCEPT ![ev.msg] =
                 IF ev.op = "add" THEN More(entry, ev.emoji, ev.user)
                                  ELSE Less(entry, ev.emoji, ev.user)]
           /\ Refresh(ev.msg)
    /\ UNCHANGED <<order, inflight, writes, timers, destroyed, server, answers, excused, budgets>>

\* Mutant of Wanted: an answer after the teardown is stored.
WantedAlways(m) == TRUE

\* What a refresh asks before it stores its answer.
Wanted(m) == ~destroyed /\ m \in rows

RefreshResolves(a) ==
    /\ reactions' = IF Wanted(a.msg)
                    THEN [reactions EXCEPT ![a.msg] = Aggregate(a.pairs)]
                    ELSE reactions
    /\ excused' = IF a.pairs = server[a.msg] THEN excused \ {a.msg} ELSE excused
    /\ RefreshEnds(a.msg)
    /\ UNCHANGED <<order, inflight, writes, timers, destroyed, server, events, budgets>>

RefreshFails(m) ==
    /\ m \in fetching
    /\ faults < MaxFaults
    /\ faults' = faults + 1
    /\ excused' = excused \cup {m}
    /\ RefreshEnds(m)
    /\ UNCHANGED <<order, reactions, inflight, writes, timers, destroyed, server, events,
                   clicks, changes, arrivals>>

\* #evictOldMessages(): how many of n rows go, for a reader at the bottom of
\* the list and for one who has scrolled up.
Overflow(n, pinned) ==
    LET cap == IF pinned THEN MAX_LIVE_MESSAGES ELSE 2 * MAX_LIVE_MESSAGES
    IN  IF n > cap THEN n - cap ELSE 0

\* #handleNewMessage() of a message that is not in the list.
NewMessage(m, pinned) ==
    /\ ~destroyed
    /\ m \notin rows
    /\ arrivals < MaxArrivals
    /\ arrivals' = arrivals + 1
    /\ LET all == Append(order, m)
           gone == Overflow(Len(all), pinned)
       IN  /\ order' = SubSeq(all, gone + 1, Len(all))
           /\ reactions' = [x \in Msgs |->
                 IF \E i \in 1..gone : all[i] = x THEN NoReactions ELSE reactions[x]]
    /\ Refresh(m)
    /\ UNCHANGED <<inflight, writes, timers, destroyed, serverVars, excused,
                   clicks, changes, faults>>

Destroy ==
    /\ ~destroyed
    /\ destroyed' = TRUE
    /\ order' = <<>>
    /\ reactions' = [m \in Msgs |-> NoReactions]
    /\ inflight' = {}
    /\ fetching' = {}
    /\ pending' = {}
    /\ timers' = {}
    /\ answers' = {}
    /\ events' = <<>>
    /\ UNCHANGED <<writes, server, excused, budgets>>

-----------------------------------------------------------------------------
Next ==
    \/ \E m \in Msgs, user \in Users, e \in Emojis, op \in {"add", "remove"} :
         OtherReacts(m, user, e, op)
    \/ \E w \in writes :
         \/ ServerAppliesWrite(w)
         \/ SwapGoesOn(w) \/ WriteSucceeds(w) \/ WriteFails(w) \/ WriteExpires(w)
    \/ \E m \in Msgs :
         \/ ServerAnswersRefresh(m) \/ RefreshFails(m)
         \/ RollbackTimerFires(m)
         \/ \E e \in Emojis : SelectReaction(m, e)
         \/ \E pinned \in BOOLEAN : NewMessage(m, pinned)
    \/ \E a \in answers : RefreshResolves(a)
    \/ EventIsLost
    \/ HandleReaction
    \/ Destroy

\* What is under way goes on: requests are answered, the stream delivers,
\* promise reactions and timers run.
Progress ==
    \/ HandleReaction
    \/ \E w \in writes : ServerAppliesWrite(w) \/ SwapGoesOn(w) \/ WriteSucceeds(w)
    \/ \E m \in Msgs : ServerAnswersRefresh(m) \/ RollbackTimerFires(m)
    \/ \E a \in answers : RefreshResolves(a)

Safety == Init /\ [][Next]_vars

\* Nothing is assumed of users, of other participants, or of faults, and no
\* order between the kinds of progress: work in hand is finite, so that
\* something of it goes on is enough for all of it to be done.
Spec == Safety /\ WF_vars(Progress)

-----------------------------------------------------------------------------
(* Properties *)

\* Nothing is under way that will still change what m shows.
Quiet(m) ==
    /\ m \notin fetching \cup timers \cup inflight
    /\ \A w \in writes : w.msg # m
    /\ \A i \in 1..Len(events) : events[i].msg # m

ShowsServer(m) == reactions[m] = Aggregate(server[m])

\* Once nothing is under way for a message of the list, it shows what the
\* server holds, in whatever order clicks, events, refreshes and expired writes
\* came.  Excused are messages whose last refresh failed, whose event was lost
\* with the stream, or whose snapshot a failed write put back: the code asks
\* for no refresh then, and what it shows may be stale for good.
SettledOnServer ==
    ~destroyed => \A m \in rows \ excused : Quiet(m) => ShowsServer(m)

\* The lock of #selectReaction covers its whole routed operation: of the
\* clicks on one message in one mounted list, at most one has a server call
\* outstanding, so a removal and an addition never race.
OneWriteAtATime ==
    ~destroyed => \A w1, w2 \in writes : w1.msg = w2.msg => w1 = w2

\* A chip never counts more users than it lists, and is there exactly when it
\* lists someone, however optimistic updates, the events that confirm them,
\* and rollbacks are interleaved.
ChipsMatch ==
    \A m \in Msgs, e \in Emojis :
        /\ reactions[m].counts[e] <= Cardinality(reactions[m].users[e])
        /\ reactions[m].counts[e] = 0 <=> reactions[m].users[e] = {}

\* After destroy() no event, refresh or timer touches #reactions.  (A write
\* that fails later does: its snapshot is put back without a look at #signal.)
QuietAfterDestroy ==
    [][destroyed /\ reactions' # reactions =>
         \E w \in writes : reactions' = [reactions EXCEPT ![w.msg] = w.preSnapshot]]_vars

\* A click's lock is released, on every path, and when all is still the
\* message shows the server's state or is excused.
ClicksSettle ==
    \A m \in Msgs :
        m \in inflight ~> \/ destroyed
                          \/ m \notin rows
                          \/ m \notin inflight /\ (m \in excused \/ ShowsServer(m))
=============================================================================
