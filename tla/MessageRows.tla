----------------------------- MODULE MessageRows -----------------------------
(***************************************************************************)
(* packages/chat-widget/src/ui/message-list.ts: the rows of a room as the  *)
(* list keeps them (#rows, #order) and as it shows them (the bubbles of    *)
(* #listEl, found again by their position), through the first fetch, the   *)
(* streams, optimistic echoes, failures, deletions and eviction.           *)
(*                                                                         *)
(* Two subscriptions feed the list: its own, made after the first page and *)
(* kept until it is destroyed, and once that has reported an error the one *)
(* of the Reconnector (element.ts), which each success of its loop         *)
(* replaces.  The widget gives its client no e2ee provider, so one         *)
(* subscription hands over rows and events in the order it got them; the   *)
(* two are not in order with each other.                                   *)
(*                                                                         *)
(* The server's log is the order in which messages were appended; a row    *)
(* handed over is a snapshot of its message.  A fetched page is taken when *)
(* it is answered.                                                         *)
(***************************************************************************)
EXTENDS Naturals, Sequences, SequencesExt, Sublists

CONSTANTS
    Messages, Mine,     \* messages of the room, those sent by this widget
    Deletable,          \* those that somebody deletes
    PageLimit,          \* list({limit: 50})
    LiveCap,            \* MAX_LIVE_MESSAGES
    HardCeiling,        \* MAX_LIVE_MESSAGES_HARD_CEILING
    MaxLoops,           \* successes of the Reconnector's loop (a bound)
    Unshown             \* no row

Row == [echo : BOOLEAN, gone : BOOLEAN, failed : BOOLEAN]

ASSUME RowsAssumption ==
    /\ Unshown \notin Row
    /\ Mine \subseteq Messages /\ Deletable \subseteq Messages
    /\ PageLimit \in Nat \ {0} /\ LiveCap \in Nat \ {0}
    /\ HardCeiling \in Nat /\ HardCeiling >= LiveCap
    /\ MaxLoops \in Nat

\* The list's own subscription, and that of the Reconnector's loop.
Subscriptions == {"own", "loop"}

VARIABLES
    log,            \* the server's messages, oldest first
    tombstones,     \* those of them that were deleted
    listStage,      \* "listing", "failed", "live", "destroyed"
    rows,           \* #rows: [Messages -> Row or Unshown]
    order,          \* #order
    bubbles,        \* the articles under #listEl: messages and what they show
    stream,         \* [Subscriptions -> what it is going to hand over]
    loops,          \* how often the Reconnector has subscribed
    atBottom,       \* #isPinnedToBottom()
    doubled         \* history: the first page had a message already in #order

rowsVars == <<log, tombstones, listStage, rows, order, bubbles, stream, loops, atBottom,
              doubled>>

Fresh(m) == [echo |-> FALSE, gone |-> m \in tombstones, failed |-> FALSE]

RowsTypeOK ==
    /\ log \in Seq(Messages) /\ IsInjective(log)
    /\ tombstones \subseteq ToSet(log)
    /\ listStage \in {"listing", "failed", "live", "destroyed"}
    /\ rows \in [Messages -> Row \cup {Unshown}]
    /\ order \in Seq(Messages)
    /\ bubbles \in Seq([msg : Messages, row : Row])
    /\ stream \in [Subscriptions -> Seq([op : {"row"}, msg : Messages, row : Row]
                                           \cup [op : {"delete"}, msg : Messages])]
    /\ loops \in 0..MaxLoops /\ atBottom \in BOOLEAN /\ doubled \in BOOLEAN

RowsInit ==
    /\ log \in UNION {[1..n -> Messages \ Mine] : n \in 0..PageLimit + 1}
    /\ IsInjective(log)
    /\ tombstones = {}
    /\ listStage = "listing"
    /\ rows = [m \in Messages |-> Unshown]
    /\ order = <<>>
    /\ bubbles = <<>>
    /\ stream = [s \in Subscriptions |-> <<>>]
    /\ loops = 0
    /\ atBottom = TRUE
    /\ doubled = FALSE

-----------------------------------------------------------------------------
(* Showing rows *)

Known(m) == rows[m] # Unshown
Position(m) == CHOOSE i \in DOMAIN order : order[i] = m /\ \A j \in 1..i-1 : order[j] # m

\* #renderAll(): entries of the order whose row is gone are passed over.
Rendered(o, r) ==
    LET shown == Kept(o, {i \in DOMAIN o : r[o[i]] # Unshown})
    IN [i \in DOMAIN shown |-> [msg |-> shown[i], row |-> r[shown[i]]]]

\* #updateBubble() on the article that has the message's place in the order.
Updated(m, row) ==
    IF Position(m) \in DOMAIN bubbles
    THEN [bubbles EXCEPT ![Position(m)] = [msg |-> m, row |-> row]]
    ELSE bubbles

\* #evictOldMessages(): the oldest entries, their rows, and as many children of
\* the list from its top.
Overflow(o) ==
    LET cap == IF atBottom THEN LiveCap ELSE HardCeiling
    IN IF Len(o) > cap THEN Len(o) - cap ELSE 0
DropFirst(s, n) == IF n >= Len(s) THEN <<>> ELSE SubSeq(s, n + 1, Len(s))

\* #handleNewMessage(): a known message is replaced where it stands, a new one
\* goes to the bottom.
Take(m, row) ==
    IF Known(m)
    THEN /\ rows' = [rows EXCEPT ![m] = row]
         /\ bubbles' = IF m \in ToSet(order) THEN Updated(m, row) ELSE bubbles
         /\ UNCHANGED order
    ELSE LET longer  == Append(order, m)
             evicted == ToSet(SubSeq(longer, 1, Overflow(longer)))
         IN /\ order' = DropFirst(longer, Overflow(longer))
            /\ rows' = [x \in Messages |->
                            IF x \in evicted THEN Unshown ELSE IF x = m THEN row ELSE rows[x]]
            /\ bubbles' = DropFirst(Append(bubbles, [msg |-> m, row |-> row]), Overflow(longer))

-----------------------------------------------------------------------------
(* The first page *)

RowEvents(s) == [i \in DOMAIN s |-> [op |-> "row", msg |-> s[i], row |-> Fresh(s[i])]]

\* #fetchAndRender(): the page is added to whatever is there, without a look at
\* whether it is there already, everything is rendered, and the list's own
\* subscription starts, which replays the log from its start.
PageArrives ==
    /\ listStage = "listing"
    /\ LET page == SubSeq(log, 1, IF Len(log) < PageLimit THEN Len(log) ELSE PageLimit)
       IN /\ rows' = [m \in Messages |-> IF m \in ToSet(page) THEN Fresh(m) ELSE rows[m]]
          /\ order' = order \o page
          /\ bubbles' = Rendered(order', rows')
          /\ doubled' = (doubled \/ ToSet(page) \cap ToSet(order) # {})
    /\ stream' = [stream EXCEPT !["own"] = RowEvents(log)]
    /\ atBottom' = TRUE
    /\ listStage' = "live"
    /\ UNCHANGED <<log, tombstones, loops>>

\* #renderListError(): the notice takes the place of the bubbles.
PageFails ==
    /\ listStage = "listing"
    /\ listStage' = "failed"
    /\ bubbles' = <<>>
    /\ UNCHANGED <<log, tombstones, rows, order, stream, loops, atBottom, doubled>>

\* #retryMount() forgets what it had.
RetryMount ==
    /\ listStage = "failed"
    /\ listStage' = "listing"
    /\ rows' = [m \in Messages |-> Unshown]
    /\ order' = <<>>
    /\ bubbles' = <<>>
    /\ UNCHANGED <<log, tombstones, stream, loops, atBottom, doubled>>

-----------------------------------------------------------------------------
(* The streams *)

\* Mutant of Delete: the tombstone is drawn and the row kept as it was.
DeleteOnScreen(m) ==
    IF Known(m)
    THEN /\ bubbles' = IF m \in ToSet(order)
                       THEN Updated(m, [rows[m] EXCEPT !.gone = TRUE]) ELSE bubbles
         /\ UNCHANGED <<rows, order>>
    ELSE UNCHANGED <<rows, order, bubbles>>

\* A row: #handleNewMessage().  A deletion: #handleMutation(), on known rows.
Delete(m) ==
    IF Known(m)
    THEN LET row == [rows[m] EXCEPT !.gone = TRUE]
         IN /\ rows' = [rows EXCEPT ![m] = row]
            /\ bubbles' = IF m \in ToSet(order) THEN Updated(m, row) ELSE bubbles
            /\ UNCHANGED order
    ELSE UNCHANGED <<rows, order, bubbles>>

StreamDelivers(s) ==
    /\ listStage = "live"
    /\ stream[s] # <<>>
    /\ stream' = [stream EXCEPT ![s] = Tail(@)]
    /\ LET e == Head(stream[s])
       IN IF e.op = "row" THEN Take(e.msg, e.row) ELSE Delete(e.msg)
    /\ UNCHANGED <<log, tombstones, listStage, loops, atBottom, doubled>>

\* A stream breaks and the client replays what it missed: rows, not events.
StreamGap(s) ==
    /\ listStage = "live"
    /\ LET missed == Kept(stream[s], {i \in DOMAIN stream[s] : stream[s][i].op = "row"})
       IN stream' = [stream EXCEPT ![s] =
                        [i \in DOMAIN missed |-> [missed[i] EXCEPT !.row = Fresh(missed[i].msg)]]]
    /\ stream' # stream
    /\ UNCHANGED <<log, tombstones, listStage, rows, order, bubbles, loops, atBottom, doubled>>

\* The Reconnector's loop has subscribed: its own earlier subscription is torn
\* down, the list's is not.  The new one replays the log from its start.
Resubscribe ==
    /\ listStage = "live"
    /\ loops < MaxLoops
    /\ loops' = loops + 1
    /\ stream' = [stream EXCEPT !["loop"] = RowEvents(log)]
    /\ UNCHANGED <<log, tombstones, listStage, rows, order, bubbles, atBottom, doubled>>

-----------------------------------------------------------------------------
(* What the user and the page do *)

\* optimisticEcho() of element.ts, before the request.  The composer is there
\* before the first page is.
Echo(m) ==
    /\ m \in Mine \ ToSet(log)
    /\ ~Known(m)
    /\ listStage # "destroyed"
    /\ Take(m, [echo |-> TRUE, gone |-> FALSE, failed |-> FALSE])
    /\ UNCHANGED <<log, tombstones, listStage, stream, loops, atBottom, doubled>>

\* markSendFailed(): the row is marked even when it has no bubble.
MarkSendFailed(m) ==
    /\ m \in Mine
    /\ Known(m)
    /\ ~rows[m].failed
    /\ listStage # "destroyed"
    /\ LET row == [rows[m] EXCEPT !.failed = TRUE]
       IN /\ rows' = [rows EXCEPT ![m] = row]
          /\ bubbles' = IF m \in ToSet(order) THEN Updated(m, row) ELSE bubbles
    /\ UNCHANGED <<log, tombstones, listStage, order, stream, loops, atBottom, doubled>>

\* Mutant of RemoveRow: the order keeps the entry.
RemoveRowUnordered(m) ==
    /\ listStage # "destroyed"
    /\ Known(m) /\ rows[m].failed
    /\ m \in ToSet(order)
    /\ rows' = [rows EXCEPT ![m] = Unshown]
    /\ bubbles' = IF Position(m) \in DOMAIN bubbles THEN RemoveAt(bubbles, Position(m)) ELSE bubbles
    /\ UNCHANGED <<log, tombstones, listStage, order, stream, loops, atBottom, doubled>>

\* removeRow(), from the dismiss button of a failed message.
RemoveRow(m) ==
    /\ listStage # "destroyed"
    /\ Known(m) /\ rows[m].failed
    /\ m \in ToSet(order)
    /\ rows' = [rows EXCEPT ![m] = Unshown]
    /\ order' = RemoveAt(order, Position(m))
    /\ bubbles' = IF Position(m) \in DOMAIN bubbles THEN RemoveAt(bubbles, Position(m)) ELSE bubbles
    /\ UNCHANGED <<log, tombstones, listStage, stream, loops, atBottom, doubled>>

\* #fetchRoster() has answered: names and avatars are drawn anew.
RosterArrives ==
    /\ listStage = "live"
    /\ bubbles' = Rendered(order, rows)
    /\ bubbles' # bubbles
    /\ UNCHANGED <<log, tombstones, listStage, rows, order, stream, loops, atBottom, doubled>>

Scroll ==
    /\ listStage = "live"
    /\ atBottom' = ~atBottom
    /\ UNCHANGED <<log, tombstones, listStage, rows, order, bubbles, stream, loops, doubled>>

DestroyList ==
    /\ listStage # "destroyed"
    /\ listStage' = "destroyed"
    /\ rows' = [m \in Messages |-> Unshown]
    /\ order' = <<>>
    /\ bubbles' = <<>>
    /\ stream' = [s \in Subscriptions |-> <<>>]
    /\ UNCHANGED <<log, tombstones, loops, atBottom, doubled>>

-----------------------------------------------------------------------------
(* The server: other users' messages, ours once echoed, deletions *)

\* Both subscriptions get what happens, once they are made.
Emit(e) ==
    stream' = [s \in Subscriptions |->
                  IF listStage = "live" /\ (s = "own" \/ loops > 0) THEN Append(stream[s], e)
                                                                  ELSE stream[s]]

ServerAppends(m) ==
    /\ listStage # "destroyed"
    /\ m \notin ToSet(log)
    /\ m \in Mine => Known(m)
    /\ log' = Append(log, m)
    /\ Emit([op |-> "row", msg |-> m, row |-> Fresh(m)])
    /\ UNCHANGED <<tombstones, listStage, rows, order, bubbles, loops, atBottom, doubled>>

ServerDeletes(m) ==
    /\ listStage # "destroyed"
    /\ m \in (ToSet(log) \cap Deletable) \ tombstones
    /\ tombstones' = tombstones \cup {m}
    /\ Emit([op |-> "delete", msg |-> m])
    /\ UNCHANGED <<log, listStage, rows, order, bubbles, loops, atBottom, doubled>>

RowsNext ==
    \/ PageArrives
    \/ PageFails
    \/ RetryMount
    \/ \E s \in Subscriptions : StreamDelivers(s) \/ StreamGap(s)
    \/ Resubscribe
    \/ \E m \in Messages :
        \/ Echo(m)
        \/ MarkSendFailed(m)
        \/ RemoveRow(m)
        \/ ServerAppends(m)
        \/ ServerDeletes(m)
    \/ RosterArrives
    \/ Scroll
    \/ DestroyList

-----------------------------------------------------------------------------
(* Properties *)

\* The bubbles are found again by counting: so every bubble must stand where its
\* message stands in the order and show its current row, no message may stand
\* twice, and no row may be left without a place, however echoes, pages, two
\* streams, failures, dismissals and evictions meet.  One exception: a message
\* echoed before the page that has it arrives is entered twice (#fetchAndRender).
BubblesMatchRows ==
    listStage = "live" /\ ~doubled =>
        /\ IsInjective(order)
        /\ ToSet(order) = {m \in Messages : Known(m)}
        /\ bubbles = [i \in DOMAIN order |-> [msg |-> order[i], row |-> rows[order[i]]]]

Tombstone(m) == \E i \in DOMAIN bubbles : bubbles[i].msg = m /\ bubbles[i].row.gone
Body(m) == \E i \in DOMAIN bubbles : bubbles[i].msg = m /\ ~bubbles[i].row.gone

\* A row of m, read before its deletion, is handed over by one of two
\* subscriptions, the other having handed over the deletion.
OvertakenRow(m) ==
    /\ loops > 0
    /\ \E s \in Subscriptions :
        /\ stream[s] # <<>>
        /\ LET e == Head(stream[s]) IN e.op = "row" /\ e.msg = m /\ ~e.row.gone
        /\ stream' = [stream EXCEPT ![s] = Tail(@)]

\* A deleted message stays deleted on the screen while it has a bubble: replays,
\* redeliveries, failed sends, dismissals and redraws never bring its text back
\* (#handleNewMessage, #handleMutation, markSendFailed, #renderAll).  Two
\* exceptions: a row overtaken by the deletion on the other subscription, which
\* #handleNewMessage takes as it is, and a list with a message entered twice.
DeletedStaysDeleted ==
    [][\A m \in Messages : Tombstone(m) /\ ~OvertakenRow(m) /\ ~doubled' => ~Body(m)']_rowsVars

\* element.ts:1633-1638, of the mutations the Reconnector's subscription hands
\* on: double application is safe, as two handlers never run concurrently and
\* all mutations are idempotent.  So a deletion, once shown, is final.
DoubleApplyIsSafe == [][\A m \in Messages : Tombstone(m) /\ ~doubled' => ~Body(m)']_rowsVars
=============================================================================
