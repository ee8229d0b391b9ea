----------------------------- MODULE CryptoMode -----------------------------
(***************************************************************************)
(* packages/chat-sdk/src/client.ts: how a client decides what a room's     *)
(* bytes are.  The constructor fixes an expectation; the server states a   *)
(* room's mode in a page or in the prelude of a stream; a mode that is not *)
(* the expected one poisons that room for the life of the client.  The     *)
(* discovered modes are cached, up to a cap, and released with the room's  *)
(* last subscriber.                                                        *)
(*                                                                         *)
(* Only the decisions are modelled: what a request carries and what a row  *)
(* is taken for.  The order of the unseals is RoomDecryptChain's subject,  *)
(* the outbox Outbox's, the stream's cycles Subscribe's.                   *)
(***************************************************************************)
EXTENDS Naturals, Sequences, FiniteSets, Sublists

CONSTANTS
    Rooms,
    Subscribers,    \* subscriptions a host makes, each used once
    Calls,          \* concurrent calls of the host
    ModeCap,        \* ACTIVE_CRYPTO_MODE_MAP_CAP
    Nothing         \* null

Modes == {"plaintext", "sframe-static", "mls"}

\* crypto_mode as a server may send it: absent, a mode, or anything else.
Stated == Modes \cup {"absent", "unknown"}

\* What a call sends: the text itself, what the provider made of it, or bytes
\* the host has sealed.
Forms == {"plain", "cipher", "presealed"}

ASSUME CapAssumption == ModeCap \in Nat \ {0} /\ Nothing \notin Modes \cup Forms \cup Rooms

\* A host makes finitely many calls and subscriptions.
ASSUME HostAssumption == IsFiniteSet(Subscribers) /\ IsFiniteSet(Calls)

VARIABLES
    e2ee,       \* the e2ee option: "none", "eager" (sframe or custom), "mls"
    expected,   \* #cryptoMode
    provider,   \* #cryptoProvider exists
    modes,      \* #activeCryptoModeByRoom, in insertion order
    poisoned,   \* #poisonedRooms
    refs,       \* the decrypt chain's refCount of each room
    subscriber, \* [Subscribers -> [room, state, share]]
    call,       \* [Calls -> [op, room, stage, form]]
    outgoing,   \* history: content has been posted in the clear
    handed      \* history: a row's bytes were handed over as its text

cryptoVars == <<e2ee, expected, provider, modes, poisoned, refs, subscriber, call,
                outgoing, handed>>

NoCall == [op |-> Nothing, room |-> Nothing, stage |-> "idle", form |-> Nothing]

\* A subscription exists; its handle has been called; its share of the chain
\* has been given back (chainReleased).
SubscriberState == {"unused", "live", "destroyed", "released"}

\* share: it took a share of the chain when it was made, there being a provider.
Subscription == [room : Rooms \cup {Nothing}, state : SubscriberState, share : BOOLEAN]

CryptoTypeOK ==
    /\ e2ee \in {"none", "eager", "mls"}
    /\ expected \in Modes \cup {Nothing}
    /\ provider \in BOOLEAN
    /\ modes \in Seq([room : Rooms, mode : Modes])
    /\ poisoned \subseteq Rooms
    /\ refs \in [Rooms -> Nat]
    /\ subscriber \in [Subscribers -> Subscription]
    /\ outgoing \in BOOLEAN /\ handed \in BOOLEAN

\* Mutant of Configured: no expectation but the one the options state.
ConfiguredAsStated(kind, explicit) == explicit

\* The expectation follows the provider unless the options state one; an e2ee
\* option beside an explicit 'plaintext' is rejected.
Configured(kind, explicit) ==
    IF explicit # Nothing THEN explicit
    ELSE CASE kind = "none" -> Nothing
           [] kind = "mls" -> "mls"
           [] kind = "eager" -> "sframe-static"

CryptoInit ==
    /\ e2ee \in {"none", "eager", "mls"}
    /\ \E explicit \in Modes \cup {Nothing} :
        /\ ~(e2ee # "none" /\ explicit = "plaintext")
        /\ expected = Configured(e2ee, explicit)
    /\ provider = (e2ee = "eager")
    /\ modes = <<>>
    /\ poisoned = {}
    /\ refs = [r \in Rooms |-> 0]
    /\ subscriber = [s \in Subscribers |-> [room |-> Nothing, state |-> "unused", share |-> FALSE]]
    /\ call = [c \in Calls |-> NoCall]
    /\ outgoing = FALSE /\ handed = FALSE

-----------------------------------------------------------------------------
(* The cache of discovered modes *)

\* getRoomCryptoMode(): the discovered mode, or null.
RoomMode(r) ==
    IF \E i \in DOMAIN modes : modes[i].room = r
    THEN (CHOOSE e \in {modes[i] : i \in DOMAIN modes} : e.room = r).mode
    ELSE Nothing

EffectiveMode(r) == IF RoomMode(r) = Nothing THEN expected ELSE RoomMode(r)

\* Map.set: a room met before keeps its place.
Set(r, mode) ==
    IF RoomMode(r) = Nothing
    THEN Append(modes, [room |-> r, mode |-> mode])
    ELSE [i \in DOMAIN modes |-> IF modes[i].room = r THEN [modes[i] EXCEPT !.mode = mode]
                                                      ELSE modes[i]]

\* #boundActiveCryptoModeMap(): the oldest entries beyond the cap go, save the
\* room just resolved and those the chain counts a subscriber of.
Bounded(seq, just) ==
    LET Evictable(i) == seq[i].room # just /\ refs[seq[i].room] = 0
        Rank(i) == Cardinality({j \in 1..i : Evictable(j)})
    IN Kept(seq, {i \in DOMAIN seq : ~(Evictable(i) /\ Rank(i) + ModeCap <= Len(seq))})

\* validateAndResolveCryptoMode(): an unknown mode, or one that is not the
\* configured one, is refused.
Refused(stated) ==
    /\ stated # "absent"
    /\ stated = "unknown" \/ (expected # Nothing /\ stated # expected)

\* #resolveRoomCryptoMode(): poison this room, or remember what it stated.
Resolve(r, stated) ==
    IF Refused(stated)
    THEN poisoned' = poisoned \cup {r} /\ modes' = modes
    ELSE /\ poisoned' = poisoned
         /\ LET mode == IF stated = "absent" THEN RoomMode(r) ELSE stated
            IN modes' = IF mode = Nothing THEN modes ELSE Bounded(Set(r, mode), r)

\* #assertRoomNotPoisoned()
Gate(r) == r \notin poisoned

-----------------------------------------------------------------------------
(* Content that leaves: every call has the gate at its entry, and sendText,  *)
(* sendFile and the optimistic sends reach send()'s own after an await.      *)

Start(c, op, r, stage, form) ==
    call' = [call EXCEPT ![c] = [op |-> op, room |-> r, stage |-> stage, form |-> form]]

End(c) == call' = [call EXCEPT ![c] = NoCall]

Idle(c) == call[c].stage = "idle"

\* sendText(): in a plaintext room the gate of send() is passed in the same
\* tick; otherwise the provider is made sure of and seals.
SendText(c, r) ==
    /\ Idle(c)
    /\ Gate(r)
    /\ ~(EffectiveMode(r) = Nothing /\ provider)
    /\ IF EffectiveMode(r) = "plaintext"
       THEN Start(c, "text", r, "encoding", "plain")
       ELSE e2ee # "none" /\ Start(c, "text", r, "preparing", "cipher")
    /\ UNCHANGED <<e2ee, expected, provider, modes, poisoned, refs, subscriber, outgoing,
                   handed>>

\* sendTextOptimistic(): the branch is chosen at the call, the gate comes with
\* send(), after the transactions of the outbox.
SendTextOptimistic(c, r) ==
    /\ Idle(c)
    /\ IF EffectiveMode(r) = "plaintext" \/ (~provider /\ expected = Nothing)
       THEN Start(c, "optimistic", r, "preparing", "plain")
       ELSE provider /\ Start(c, "optimistic", r, "preparing", "cipher")
    /\ UNCHANGED <<e2ee, expected, provider, modes, poisoned, refs, subscriber, outgoing,
                   handed>>

\* sendFile(): the presign and the upload come first.
SendFile(c, r) ==
    /\ Idle(c)
    /\ Gate(r)
    /\ Start(c, "file", r, "preparing", "presealed")
    /\ UNCHANGED <<e2ee, expected, provider, modes, poisoned, refs, subscriber, outgoing,
                   handed>>

\* send(), updateMessage(), batchAppend() and sendProductCard() of bytes the
\* host has sealed: a gate, then the encoding.
SendSealed(c, r) ==
    /\ Idle(c)
    /\ Gate(r)
    /\ Start(c, "sealed", r, "encoding", "presealed")
    /\ UNCHANGED <<e2ee, expected, provider, modes, poisoned, refs, subscriber, outgoing,
                   handed>>

\* The seal, the upload or the transaction is over: send() has its own gate.
Prepared(c) ==
    /\ call[c].stage = "preparing"
    /\ call[c].form = "cipher" => provider
    /\ IF Gate(call[c].room)
       THEN call' = [call EXCEPT ![c].stage = "encoding"]
       ELSE End(c)
    /\ UNCHANGED <<e2ee, expected, provider, modes, poisoned, refs, subscriber, outgoing,
                   handed>>

\* #encodeBody() has its codec, or had it all along: the request leaves.
Post(c) ==
    /\ call[c].stage = "encoding"
    /\ outgoing' = (outgoing \/ call[c].form = "plain")
    /\ End(c)
    /\ UNCHANGED <<e2ee, expected, provider, modes, poisoned, refs, subscriber, handed>>

\* #ensureMlsProvider(), for a text that waits to be sealed or for the host's
\* getMlsManager().
CreateMlsProvider ==
    /\ e2ee = "mls"
    /\ ~provider
    /\ provider' = TRUE
    /\ UNCHANGED <<e2ee, expected, modes, poisoned, refs, subscriber, call, outgoing, handed>>

\* The request of a call fails, or its preparation does.
CallFails(c) ==
    /\ call[c].stage \in {"preparing", "encoding", "fetching"}
    /\ End(c)
    /\ UNCHANGED <<e2ee, expected, provider, modes, poisoned, refs, subscriber, outgoing,
                   handed>>

-----------------------------------------------------------------------------
(* Rows that come back *)

\* list(), or getThread() and searchByProductRef(), of one room.
Fetch(c, op, r) ==
    /\ Idle(c)
    /\ Gate(r)
    /\ Start(c, op, r, "fetching", Nothing)
    /\ UNCHANGED <<e2ee, expected, provider, modes, poisoned, refs, subscriber, outgoing,
                   handed>>

\* #fetchRows() settles the mode of a page before its rows are looked at; the
\* other two endpoints state none.
Answer(c, stated) ==
    /\ call[c].stage = "fetching"
    /\ LET r == call[c].room IN
        IF call[c].op = "list"
        THEN /\ Resolve(r, stated)
             /\ IF Refused(stated) THEN End(c)
                ELSE call' = [call EXCEPT ![c].stage = "dispatching"]
        ELSE /\ stated = "absent"
             /\ call' = [call EXCEPT ![c].stage = "dispatching"]
             /\ UNCHANGED <<modes, poisoned>>
    /\ UNCHANGED <<e2ee, expected, provider, refs, subscriber, outgoing, handed>>

\* #unsealFetchedRows(): the discovered mode, else the expected one; with a
\* provider the page goes on the chain, which is borrowed if nobody holds it.
Dispatch(c) ==
    LET r == call[c].room
        borrow == refs[r] = 0
    IN
    /\ call[c].stage = "dispatching"
    /\ IF EffectiveMode(r) # "plaintext" /\ provider
       THEN /\ refs' = IF borrow THEN [refs EXCEPT ![r] = @ + 1] ELSE refs
            /\ call' = [call EXCEPT ![c].stage = IF borrow THEN "borrowing" ELSE "unsealing"]
            /\ UNCHANGED handed
       ELSE /\ handed' = (handed \/ EffectiveMode(r) = "plaintext")
            /\ End(c)
            /\ UNCHANGED refs
    /\ UNCHANGED <<e2ee, expected, provider, modes, poisoned, subscriber, outgoing>>

\* RoomDecryptChain.release(): never below zero.
Less(r) == IF refs[r] > 0 THEN [refs EXCEPT ![r] = @ - 1] ELSE refs

\* The page has drained; a borrowed share is given back, and the room's mode
\* stays cached.
PageUnsealed(c) ==
    /\ call[c].stage \in {"unsealing", "borrowing"}
    /\ refs' = IF call[c].stage = "borrowing" THEN Less(call[c].room) ELSE refs
    /\ End(c)
    /\ UNCHANGED <<e2ee, expected, provider, modes, poisoned, subscriber, outgoing, handed>>

-----------------------------------------------------------------------------
(* Subscriptions *)

\* subscribe(): a share of the chain, if there is a provider by now.
Join(s, r) ==
    /\ subscriber[s].state = "unused"
    /\ Gate(r)
    /\ subscriber' = [subscriber EXCEPT ![s] = [room |-> r, state |-> "live", share |-> provider]]
    /\ refs' = IF provider THEN [refs EXCEPT ![r] = @ + 1] ELSE refs
    /\ UNCHANGED <<e2ee, expected, provider, modes, poisoned, call, outgoing, handed>>

WithoutRoom(cache, r) == Kept(cache, {i \in DOMAIN cache : cache[i].room # r})

\* Mutant of Teardown: the mode goes with any subscriber, not with the last.
TeardownForAll(s, cache) ==
    LET r == subscriber[s].room IN
    IF provider /\ subscriber[s].state # "released"
    THEN /\ subscriber' = [subscriber EXCEPT ![s].state = "released"]
         /\ refs' = Less(r)
         /\ modes' = WithoutRoom(cache, r)
    ELSE /\ subscriber' = [subscriber EXCEPT
                ![s].state = IF @ = "released" THEN @ ELSE "destroyed"]
         /\ modes' = cache
         /\ UNCHANGED refs

\* teardownSubscriber(): with a provider, one release for each subscription,
\* whether or not it took a share; the last one of a room takes its discovered
\* mode along.
Teardown(s, cache) ==
    LET r == subscriber[s].room IN
    IF provider /\ subscriber[s].state # "released"
    THEN /\ subscriber' = [subscriber EXCEPT ![s].state = "released"]
         /\ refs' = Less(r)
         /\ modes' = IF refs'[r] = 0 THEN WithoutRoom(cache, r) ELSE cache
    ELSE /\ subscriber' = [subscriber EXCEPT
                ![s].state = IF @ = "released" THEN @ ELSE "destroyed"]
         /\ modes' = cache
         /\ UNCHANGED refs

\* The handle subscribe() returned; a host may call it again.
Leave(s) ==
    /\ subscriber[s].state # "unused"
    /\ Teardown(s, modes)
    /\ UNCHANGED <<e2ee, expected, provider, poisoned, call, outgoing, handed>>

\* The `connected` prelude of a stream, and the page of a replay.  A poisoned
\* room fails the replay at the gate; either way the subscription ends.
StreamStates(s, stated) ==
    /\ subscriber[s].state = "live"
    /\ IF Refused(stated)
       THEN /\ poisoned' = poisoned \cup {subscriber[s].room}
            /\ Teardown(s, modes)
       ELSE /\ Resolve(subscriber[s].room, stated)
            /\ UNCHANGED <<refs, subscriber>>
    /\ UNCHANGED <<e2ee, expected, provider, call, outgoing, handed>>

ReplayRefused(s) ==
    /\ subscriber[s].state = "live"
    /\ ~Gate(subscriber[s].room)
    /\ Teardown(s, modes)
    /\ UNCHANGED <<e2ee, expected, provider, poisoned, call, outgoing, handed>>

\* A row of the stream or of a replayed page: by the discovered mode alone.  In
\* a plaintext room it is handed over as it is; else as it is too, if there is
\* no provider, or to the chain, which drops the row of a room it has no share of.
RowArrives(s) ==
    /\ subscriber[s].state = "live"
    /\ handed' = (handed \/ RoomMode(subscriber[s].room) = "plaintext")
    /\ UNCHANGED <<e2ee, expected, provider, modes, poisoned, refs, subscriber, call, outgoing>>

CryptoNext ==
    \/ \E c \in Calls, r \in Rooms :
        \/ SendText(c, r)
        \/ SendTextOptimistic(c, r)
        \/ SendFile(c, r)
        \/ SendSealed(c, r)
        \/ \E op \in {"list", "other"} : Fetch(c, op, r)
    \/ \E c \in Calls :
        \/ Prepared(c)
        \/ Post(c)
        \/ CallFails(c)
        \/ \E stated \in Stated : Answer(c, stated)
        \/ Dispatch(c)
        \/ PageUnsealed(c)
    \/ CreateMlsProvider
    \/ \E s \in Subscribers :
        \/ \E r \in Rooms : Join(s, r)
        \/ Leave(s)
        \/ \E stated \in Stated : StreamStates(s, stated)
        \/ ReplayRefused(s)
        \/ RowArrives(s)

-----------------------------------------------------------------------------

\* A client with an e2ee option never posts a text in the clear and never
\* takes a row's bytes for its text, whatever modes the server states and in
\* whatever order pages, preludes and calls meet (validateAndResolveCryptoMode,
\* the constructor's default expectation and the branches of the sends).
NoDowngrade == e2ee # "none" => ~outgoing /\ ~handed

\* A room, once poisoned, stays so, and a send that was still sealing,
\* uploading or queued when it happened is stopped by send()'s own gate.
PoisonSticks ==
    /\ poisoned \subseteq poisoned'
    /\ \A c \in Calls :
        call[c].stage = "preparing" /\ call[c].room \in poisoned => call'[c].stage # "encoding"

\* A live subscription, or a page on its way, has its own share of the chain.
InUse(r) ==
    \/ \E s \in Subscribers : subscriber[s] = [room |-> r, state |-> "live", share |-> TRUE]
    \/ \E c \in Calls : call[c].stage = "borrowing" /\ call[c].room = r

\* A subscription made before there was a provider took no share, yet its
\* teardown gives one back: another's.
Robbed(r) ==
    \E s \in Subscribers : subscriber[s] = [room |-> r, state |-> "released", share |-> FALSE]

\* Neither the cap nor the departure of a co-subscriber takes the mode of a room
\* from a live subscription or a page that has a share of the chain.  Two
\* exceptions, both against the comments of #boundActiveCryptoModeMap and
\* teardownSubscriber, which speak of every live subscriber: one made without a
\* provider (of a plaintext room, or before the MLS provider) has no share, so
\* its mode may go at the cap; and where such a one has been torn down under a
\* provider, it has released another's share.
HeldModesStay ==
    \A r \in Rooms :
        /\ RoomMode(r) # Nothing
        /\ InUse(r) /\ InUse(r)'
        /\ ~Robbed(r)'
        => RoomMode(r)' # Nothing

\* What a client has concluded about a room outlives whatever else it does: a
\* poisoning for ever and past every await of a send, a discovered mode as long
\* as someone has a share of the room, robberies apart (#poisonedRooms, send()'s
\* own gate, #boundActiveCryptoModeMap, teardownSubscriber).
VerdictsStick == [][PoisonSticks /\ HeldModesStay]_cryptoVars
=============================================================================
