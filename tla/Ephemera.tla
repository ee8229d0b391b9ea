------------------------------ MODULE Ephemera ------------------------------
(***************************************************************************)
(* The overlays of packages/chat-widget/src/ui that keep a state of their  *)
(* own beside the message list: typing-indicator.ts, presence-overlay.ts,  *)
(* read-receipts.ts and thread-panel.ts, as message-list.ts mounts and     *)
(* feeds them when its client offers the optional methods they need.       *)
(***************************************************************************)
EXTENDS Naturals, FiniteSets

CONSTANTS
    Others,         \* users other than the widget's own
    Self,
    MaxOwnSeq,      \* own messages have the seqs 1..MaxOwnSeq
    Horizon,        \* bound on the clock
    Freshness,      \* #freshnessSecs
    Threads,        \* roots of threads
    MaxLoads,       \* bound on getThread() calls under way
    NoThread

ASSUME EphemeraAssumption ==
    /\ Self \notin Others /\ NoThread \notin Threads
    /\ MaxOwnSeq \in Nat /\ Horizon \in Nat /\ Freshness \in Nat \ {0} /\ MaxLoads \in Nat

VARIABLES
    typing,         \* #typingUsers
    typingTimers,   \* pending timeouts, each [user, id]
    typingHandle,   \* #timers: [Others -> id of a timeout, or 0]
    clockNow,
    lastSeen,       \* #presence: [Others -> epoch, or 0]
    avatars,        \* users with a registered avatar
    onlineDots,     \* avatars that show the dot
    snapshot,       \* the getPresence() call of mount()
    reads,          \* #userReads: [Others -> lastSeq, or 0]
    maxReadSeq,
    receipts,       \* [1..MaxOwnSeq -> what the bubble shows, or "unregistered"]
    panel,          \* the root of the open thread panel, or NoThread
    loads,          \* getThread() calls under way, each [root, id]
    replies,        \* the threads whose replies the panel shows
    replyText,      \* the panel's input is not empty
    replying,       \* #sending: the root a reply is being sent to, or NoThread
    overlaysGone

typingVars == <<typing, typingTimers, typingHandle>>
presenceVars == <<clockNow, lastSeen, avatars, onlineDots, snapshot>>
receiptVars == <<reads, maxReadSeq, receipts>>
threadVars == <<panel, loads, replies, replyText, replying>>
ephemeraVars == <<typingVars, presenceVars, receiptVars, threadVars, overlaysGone>>

OwnSeqs == 1..MaxOwnSeq
NoTimeout == 0

EphemeraTypeOK ==
    /\ typing \subseteq Others
    /\ typingTimers \subseteq [user : Others, id : 1..2]
    /\ typingHandle \in [Others -> 0..2]
    /\ clockNow \in 1..Horizon + 1
    /\ lastSeen \in [Others -> 0..Horizon + 1]
    /\ avatars \subseteq Others /\ onlineDots \subseteq avatars
    /\ snapshot \in {"pending", "settled"}
    /\ reads \in [Others -> 0..MaxOwnSeq]
    /\ maxReadSeq \in 0..MaxOwnSeq
    /\ receipts \in [OwnSeqs -> {"unregistered", "delivered", "read"}]
    /\ panel \in Threads \cup {NoThread}
    /\ loads \subseteq [root : Threads, id : 1..MaxLoads]
    /\ replies \subseteq Threads
    /\ replyText \in BOOLEAN
    /\ replying \in Threads \cup {NoThread}
    /\ overlaysGone \in BOOLEAN

EphemeraInit ==
    /\ typing = {} /\ typingTimers = {} /\ typingHandle = [u \in Others |-> NoTimeout]
    /\ clockNow = 1
    /\ lastSeen = [u \in Others |-> 0]
    /\ avatars = {} /\ onlineDots = {}
    /\ snapshot = "pending"
    /\ reads = [u \in Others |-> 0]
    /\ maxReadSeq = 0
    /\ receipts = [s \in OwnSeqs |-> "unregistered"]
    /\ panel = NoThread /\ loads = {} /\ replies = {}
    /\ replyText = FALSE
    /\ replying = NoThread
    /\ overlaysGone = FALSE

-----------------------------------------------------------------------------
(* Typing indicator *)

Arm(u, pending) ==
    LET t == CHOOSE t \in [user : {u}, id : 1..2] : t \notin pending IN
    /\ typingTimers' = pending \cup {t}
    /\ typingHandle' = [typingHandle EXCEPT ![u] = t.id]

\* Mutant of AddTyping: the timeout under way is not cleared.
AddTypingOnTop(u) ==
    /\ ~overlaysGone
    /\ u # Self
    /\ Cardinality({t \in typingTimers : t.user = u}) < 2
    /\ typing' = typing \cup {u}
    /\ Arm(u, typingTimers)
    /\ UNCHANGED <<presenceVars, receiptVars, threadVars, overlaysGone>>

\* addTyping(): an event about a user starts that user's time again.
AddTyping(u) ==
    /\ ~overlaysGone
    /\ u # Self
    /\ typing' = typing \cup {u}
    /\ Arm(u, typingTimers \ [user : {u}, id : {typingHandle[u]}])
    /\ UNCHANGED <<presenceVars, receiptVars, threadVars, overlaysGone>>

TypingTimeout(t) ==
    /\ t \in typingTimers
    /\ typingTimers' = typingTimers \ {t}
    /\ typingHandle' = [typingHandle EXCEPT ![t.user] = NoTimeout]
    /\ typing' = typing \ {t.user}
    /\ UNCHANGED <<presenceVars, receiptVars, threadVars, overlaysGone>>

-----------------------------------------------------------------------------
(* Presence overlay *)

IsOnline(u, seen) == seen[u] > 0 /\ clockNow - seen[u] < Freshness

\* #refreshAvatar() of the users in us.
DotsAfter(us, seen) ==
    (onlineDots \ us) \cup {u \in us : u \in avatars /\ IsOnline(u, seen)}

Tick ==
    /\ clockNow <= Horizon
    /\ clockNow' = clockNow + 1
    /\ UNCHANGED <<typingVars, lastSeen, avatars, onlineDots, snapshot, receiptVars,
                   threadVars, overlaysGone>>

\* updatePresence() of an event: the last one to arrive counts.
UpdatePresence(u) ==
    /\ ~overlaysGone
    /\ \E at \in 1..clockNow :
        LET seen == [lastSeen EXCEPT ![u] = at] IN
        /\ lastSeen' = seen
        /\ onlineDots' = DotsAfter({u}, seen)
    /\ UNCHANGED <<typingVars, clockNow, avatars, snapshot, receiptVars, threadVars,
                   overlaysGone>>

\* setSnapshot(), when mount()'s getPresence() answers.
SnapshotArrives ==
    /\ snapshot = "pending"
    /\ snapshot' = "settled"
    /\ IF overlaysGone THEN UNCHANGED <<lastSeen, onlineDots>>
       ELSE \E told \in SUBSET Others : \E at \in [told -> 1..clockNow] :
                LET seen == [u \in Others |-> IF u \in told THEN at[u] ELSE lastSeen[u]] IN
                /\ lastSeen' = seen
                /\ onlineDots' = DotsAfter(told, seen)
    /\ UNCHANGED <<typingVars, clockNow, avatars, receiptVars, threadVars, overlaysGone>>

\* registerAvatar(): the avatar of a user's latest bubble.
RegisterAvatar(u) ==
    /\ ~overlaysGone
    /\ avatars' = avatars \cup {u}
    /\ onlineDots' = IF IsOnline(u, lastSeen) THEN onlineDots \cup {u} ELSE onlineDots \ {u}
    /\ UNCHANGED <<typingVars, clockNow, lastSeen, snapshot, receiptVars, threadVars,
                   overlaysGone>>

-----------------------------------------------------------------------------
(* Read receipts *)

\* #computeStatus()
Status(s, max) == IF s <= max THEN "read" ELSE "delivered"

\* registerBubble(): a message of one's own that has a seq when its bubble is made.
RegisterBubble(s) ==
    /\ ~overlaysGone
    /\ receipts' = [receipts EXCEPT ![s] = Status(s, maxReadSeq)]
    /\ UNCHANGED <<typingVars, presenceVars, reads, maxReadSeq, threadVars, overlaysGone>>

\* onReadReceipt(): a user's receipts count forwards only.
OnReadReceipt(u, seq) ==
    /\ ~overlaysGone
    /\ u # Self
    /\ seq > reads[u]
    /\ reads' = [reads EXCEPT ![u] = seq]
    /\ maxReadSeq' = IF seq > maxReadSeq THEN seq ELSE maxReadSeq
    /\ receipts' = [s \in OwnSeqs |-> IF receipts[s] = "unregistered" THEN receipts[s]
                                      ELSE Status(s, maxReadSeq')]
    /\ UNCHANGED <<typingVars, presenceVars, threadVars, overlaysGone>>

-----------------------------------------------------------------------------
(* Thread panel *)

\* open(), from the indicator of a root message, and the load it starts.
OpenThread(r) ==
    /\ ~overlaysGone
    /\ panel = NoThread
    /\ \E id \in 1..MaxLoads :
        /\ \A l \in loads : l.id # id
        /\ loads' = loads \cup {[root |-> r, id |-> id]}
    /\ panel' = r
    /\ replies' = {}
    /\ replyText' = FALSE
    /\ UNCHANGED <<typingVars, presenceVars, receiptVars, replying, overlaysGone>>

\* close(), from its button, Escape, or the indicator of an open panel.
CloseThread ==
    /\ panel # NoThread
    /\ panel' = NoThread
    /\ replies' = {}
    /\ replyText' = FALSE
    /\ UNCHANGED <<typingVars, presenceVars, receiptVars, loads, replying, overlaysGone>>

\* The rest of #loadReplies(): it fills whatever panel is open now.
RepliesArrive(l) ==
    /\ l \in loads
    /\ loads' = loads \ {l}
    /\ replies' = IF panel = NoThread \/ overlaysGone THEN replies ELSE {l.root}
    /\ UNCHANGED <<typingVars, presenceVars, receiptVars, panel, replyText, replying,
                   overlaysGone>>

RepliesFail(l) ==
    /\ l \in loads
    /\ loads' = loads \ {l}
    /\ replies' = {}
    /\ UNCHANGED <<typingVars, presenceVars, receiptVars, panel, replyText, replying,
                   overlaysGone>>

\* The input of a panel is disabled while the reply typed in it is sent.
TypeReply ==
    /\ panel # NoThread /\ replying # panel
    /\ replyText' = ~replyText
    /\ UNCHANGED <<typingVars, presenceVars, receiptVars, panel, loads, replies, replying,
                   overlaysGone>>

SendReply ==
    /\ panel # NoThread
    /\ replyText
    /\ replying = NoThread
    /\ replying' = panel
    /\ UNCHANGED <<typingVars, presenceVars, receiptVars, panel, loads, replies, replyText,
                   overlaysGone>>

\* What is cleared is the input of the panel that is open now.
ReplySettles ==
    /\ replying # NoThread
    /\ replying' = NoThread
    /\ \E sent \in BOOLEAN : replyText' = (replyText /\ ~(sent /\ panel # NoThread))
    /\ UNCHANGED <<typingVars, presenceVars, receiptVars, panel, loads, replies,
                   overlaysGone>>

-----------------------------------------------------------------------------
\* The list's destroy(), and the abort of its signal.
DestroyOverlays ==
    /\ ~overlaysGone
    /\ overlaysGone' = TRUE
    /\ typing' = {} /\ typingTimers' = {} /\ typingHandle' = [u \in Others |-> NoTimeout]
    /\ lastSeen' = [u \in Others |-> 0]
    /\ avatars' = {} /\ onlineDots' = {}
    /\ reads' = [u \in Others |-> 0]
    /\ receipts' = [s \in OwnSeqs |-> "unregistered"]
    /\ panel' = NoThread /\ replies' = {} /\ replyText' = FALSE
    /\ UNCHANGED <<clockNow, snapshot, maxReadSeq, loads, replying>>

\* The overlays know nothing of each other; what they share is their end.
TypingNext ==
    \/ \E u \in Others : AddTyping(u)
    \/ \E t \in typingTimers : TypingTimeout(t)
    \/ DestroyOverlays

PresenceNext ==
    \/ \E u \in Others : UpdatePresence(u) \/ RegisterAvatar(u)
    \/ Tick
    \/ SnapshotArrives
    \/ DestroyOverlays

ReceiptsNext ==
    \/ \E s \in OwnSeqs : RegisterBubble(s)
    \/ \E u \in Others, s \in OwnSeqs : OnReadReceipt(u, s)
    \/ DestroyOverlays

ThreadNext ==
    \/ \E r \in Threads : OpenThread(r)
    \/ CloseThread
    \/ \E l \in loads : RepliesArrive(l) \/ RepliesFail(l)
    \/ TypeReply
    \/ SendReply
    \/ ReplySettles
    \/ DestroyOverlays

-----------------------------------------------------------------------------
\* Whoever is shown as typing has exactly one timeout ahead: none stays shown for
\* want of one, and no older one cuts a renewed notice short.
TypingIsTimed ==
    \A u \in Others :
        LET mine == {t \in typingTimers : t.user = u} IN
        /\ u \in typing => Cardinality(mine) = 1
        /\ u \notin typing => mine = {}

\* A bubble says "read" exactly when one of the other users has read that far, in
\* whatever order receipts and bubbles come and however many users send them.
ReceiptsMatch ==
    \A s \in OwnSeqs :
        receipts[s] # "unregistered" =>
            (receipts[s] = "read" <=> \E u \in Others : reads[u] >= s)

\* The overlays show what they were told last, and no longer than it holds.  (The
\* presence dot and the thread panel do not: see the README.)
OverlaysAreCurrent == TypingIsTimed /\ ReceiptsMatch
=============================================================================
