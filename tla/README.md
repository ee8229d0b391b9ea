# oxpulse-chat-sdk in TLA+

TLA+ models, TLC runs and TLAPS proofs for the chat SDK in this repository:
`packages/chat-sdk` (the client library), `packages/chat-widget` (the custom
element built on it) and the small packages beside them (`wire-codec`,
`url-contract`, `voice-core`, `crypto-primitives`, `intro-protocol`). All paths
below are relative to the repository.

JavaScript runs one handler at a time, so nothing here is a data race; what is
hard is everything that happens between two handlers. Each `await`, timer,
promise reaction, event listener and caller's callback is a place where another
handler may run, unsubscribe, reconnect or reload the page. The models keep
those places and what the handlers do between them, and abstract the payloads.

## 1. The system

| Component | State it keeps | Operations | Hard behaviour | What makes it correct |
|---|---|---|---|---|
| Room decrypt chain (`room-decrypt-chain.ts`) | map room -> entry (refCount, generation, promise chain) | `acquire`, `append`, `release`, deferred `removeIfStillIdle` | removal is a promise reaction that may run after the room came back | one unseal at a time per room; no lost and no leaked entry |
| Row delivery (`client.ts`: `#appendDecryptTask`, `#unsealRowsOnChain`, `#unsealFetchedRows`) | per-task deadline timer, drain timer, settled flag | append a row, fill a page, abort, force-drain | provider hangs, late results, aborts, teardown under a running page, lazy MLS provider | each row once, in order; every accepted row and every page settles |
| Subscription (`client.ts`: `subscribe`) | EventSource, `lastSeq`, `epoch`, timers, watchdog, ping flag | connect, replay, reconnect, force, tear down | half-open links, superseded cycles, callbacks that unsubscribe | one way forward; no gap, no duplicate; rows eventually arrive |
| Outbox and optimistic sends (`outbox.ts`, `client.ts`: `sendOptimistic` ... `flushOutbox`) | IndexedDB array per room, `#sendChains`, `#flushInFlight` | enqueue, send with retries, upload, patch, dequeue, flush, dismiss, prune | reloads, stale snapshots, failing transactions, lost answers | nothing stored is lost or comes back; texts are delivered, and in turn but for what a flush overtakes (section 4) |
| Crypto mode and poison (`client.ts`) | expectation, mode per room (capped map), poisoned rooms | constructor, pages, stream preludes, sends, teardown | requests in flight while a room is poisoned or evicted | no downgrade; a poisoning is for ever; who shares the chain keeps the room's mode |
| MLS groups (`mls-provider.ts`, `mls-state-store.ts`) | room -> group id -> state, epoch counters | create, welcome, message, add, remove, restore | read, `await`, write of one group's state | memory, store and keys agree; no epoch is taken back |
| Batched writes (`client.ts`), export (`export.ts`), request wrappers | none between calls | attempts with backoff, chunks, page walk, one request | lost answers, a chunk that fails half-way, messages that come meanwhile, abort | the residue is exact, the export complete, the retry rules agree |
| Web push (`push.ts`) | the browser's subscription and the server's | subscribe, unsubscribe | overlapping calls, refusals, a browser that rotates | no subscription is left behind |
| Widget element (`element.ts`, `bootstrap.ts`, `iframe.ts`, `postmessage.ts`) | controllers, renewal timer, child components | connect, attributes, renew, refresh, remove | a bootstrap that goes on after it was aborted | the screen follows the attributes; an aborted bootstrap is mute |
| Reconnect banner and loop (`ui/reconnect.ts`, errors from `element.ts`) | banner, retry timer, attempt, last subscription | notify*, start, attempt, online/offline, destroy | overlapping errors, timers whose handle is lost | no orphaned subscription; the loop ends |
| Message list (`ui/message-list.ts`) | rows, order, bubbles, reactions, pins | first fetch, streams, echo, delete, evict, react, pin | the same message by four roads; optimistic writes against events | bubbles, chips and pins show what rows and server have |
| Composer and attachments (`ui/composer.ts`, `ui/attachment-picker.ts`) | draft, riders, tray, error chip | pick, upload, retry, send in three ways, destroy | uploads that end after the send or the removal | a file goes out once, whole; the composer is given back |
| Voice (`voice-core`, `ui/composer.ts`, `ui/voice-bubble.ts`) | recorder, analyser tap, preview; player, object URL | start, latch, stop, cap, send; load, play, pause, destroy | the permission prompt; promises of `play()` | a recording has an owner and ends; a destroyed player is silent |
| Typing, presence, receipts, threads (`ui/*.ts`) | timers and counters per user | event, timeout, register | events of several users, stale answers | the overlay shows what was said last |
| Wire codec (`wire-codec`) | dictionary cache, loader generation | load, negotiate, encode, decode | loader swapped under a fetch, peers of other builds | what is read is what was sent, or refused |
| Room URLs (`url-contract`) | none | mint, build, parse | slips of one key | a URL opens its room or none |
| Crypto primitives, introductions (`crypto-primitives`, `intro-protocol`) | the caller's replay window; a session per party | seal, open; the five steps of an introduction | repeated, reordered and garbled messages; overlapping opens | opened is what was sealed; both parties agree |
| SFrame provider (`sframe.ts`), presentation (styles, emoji, i18n, DOM) | | | | not modelled (section 7) |

How they interact: the widget builds a client, its message list calls `list()`
and `subscribe()`, its composer the optimistic sends; `subscribe()` hands rows
to the decrypt chain in an encrypted room and straight to the callback in a
plaintext one; `list()` borrows the same chain; every reconnect of the widget
calls `flushOutbox()`, beside the foreground sends that wait in `#sendChains`;
subscription errors reach `Reconnector`, which makes subscriptions of its own, beside the
list's first one.

`PROJECT.json` lists every component with its status and every hazard with its
line and the properties aimed at it.

## 2. Modules

| Module | Models | Extends / uses |
|---|---|---|
| `SerialUnseal` | abstract: what the chain promises, one first-in first-out executor per room | |
| `RoomDecryptChain` | `room-decrypt-chain.ts`, any use of it | refines `SerialUnseal` |
| `DecryptDelivery` | rows of `subscribe()` and `list()` over the chain | extends `RoomDecryptChain` |
| `Subscribe` | one `subscribe()` against the server's log | |
| `Outbox` | the outbox, the send chain and the flush of one room | |
| `MlsGroups` | `mls-provider.ts` and `mls-state-store.ts` of one device, with the initialisation in `client.ts` | |
| `CryptoMode`, `BatchedWrites`, `HistoryExport`, `SdkRequests`, `PushRegistration` | the rest of `packages/chat-sdk` | |
| `WireFormats`, `RoomUrls` | `packages/wire-codec`, `packages/url-contract` | |
| `Primitives`, `PairwiseSeal`, `Introductions` | `packages/crypto-primitives`, `packages/intro-protocol` | the latter two extend the first |
| `MessageRows`, `MessageReactions`, `MessagePins` | three concerns of `ui/message-list.ts` | |
| `WidgetLifecycle`, `Reconnector` | `element.ts` and what it waits for; `ui/reconnect.ts` and the errors it is fed | |
| `Composer`, `VoiceRecording`, `VoicePlayback`, `Ephemera` | composer and tray, recording, playing, the small overlays | |
| `Sublists` | `Array.prototype.filter` (`Kept`), by positions | extended by `Outbox`, `CryptoMode`, `MessageRows`, `MessagePins`, `Composer` |
| `SharedLemmas` | lemmas about finite sets, `Kept` and the ends of sequences | TLAPS |
| `DecryptDeliveryProofs` | theorems about `RoomDecryptChain` and `DecryptDelivery` | TLAPS |
| `SubscribeProofs`, `OutboxProofs`, `MlsGroupsProofs`, `MessageReactionsProofs` | theorems about the module named | TLAPS |
| `SdkPartsProofs` | theorems about `PushRegistration`, `BatchedWrites`, `HistoryExport`, `SdkRequests`, `CryptoMode`, `Introductions`, `PairwiseSeal`, `RoomUrls`, `WireFormats` | TLAPS |
| `WidgetPartsProofs` | theorems about `Reconnector`, `VoicePlayback`, `Ephemera`, `WidgetLifecycle`, `MessagePins`, `Composer`, `MessageRows`, `VoiceRecording` | TLAPS |
| `MC*` | the instances TLC checks | the modules named |

Definitions are named after the code (`Acquire`, `ForceReconnect`,
`FlushPrunes`, ...), and the map in `PROJECT.json` gives the lines of each. A
definition whose comment begins "Mutant of" is no part of any specification: it
is a plausible bug in the code (a dropped guard, a missing reset, an off-by-one)
kept beside the definition it replaces, to show that the property named in
`PROJECT.json` would notice it.

Where the code filters an array, the models use `Kept(s, positions)`: the elements at
those positions, in their order. It is `SelectSeq` defined without recursion, so that
the lemmas of `SharedLemmas` (`KeptPositions`, `KeptElements`, ...) can be proved and used.

**RoomDecryptChain.** A `ChainEntry` object is an element of `Entries`, because
it outlives the map `#byRoom`: released entries still drain. Its promise chain
is the queue of links that have not settled; `StartTask` is the microtask that
calls the next one, `SettleTask` its resolution. The tail that `release()`
captures is the number of links appended by then, so a `Cleanup` record is the
reaction registered on it, `RemoveIfStillIdle` its run. The generation guard is
the code's. Callers are unconstrained.

**DecryptDelivery.** One room. Consumers are subscriptions, whose rows come one
by one, and `list()` calls, whose page is appended in one synchronous burst
(`turn`: no other handler runs in the middle). A task goes through the provider
call, the abort signal (deadline or caller) and the force-drain; a drained call
is an orphan whose late result must be dropped. The provider may never answer.
`provider` is `#cryptoProvider`, which for MLS is set lazily.

**Subscribe.** A state lies between two handlers. A *cycle* is one run of the
asynchronous body of `reconnect()` or `reconnectImmediate()` at the request it
awaits (replay page or ticket), stamped with the epoch it was started in. The
stream is absent, silent (no prelude yet), open, or dead (half-open). Timers are
a set, of which the handle knows one. Callbacks that run inside a handler may
unsubscribe (`Quits*`), and the rest of the handler then runs as the code has it.
The server's log, hung requests and half-open links are external.

**Outbox.** Sends, the flush and the user are actors, each awaiting at most one IndexedDB
transaction; `idb` is the order in which IndexedDB runs them. A message's `pc` is the statement
its send awaits. A reload keeps the store and the server and forgets everything else.
`flush.todo` is the snapshot the flush works through, `line` the messages in the order in which
they were enqueued, `stumbled` those whose enqueue, or whose send by a flush, once failed. The
clock is only as fine as the eviction order needs.

**MlsGroups.** A group's `ClientState` is its id and the commits applied to it. A
call (`op`) holds what it read before its awaits, as the code's local variables
do; nothing in the class keeps two calls on a room apart, so neither does the
model. `tx` are the saves outstanding at IndexedDB. `init` follows
`#ensureMlsProvider`: the manager is handed out while `restoreAll()` runs unless
the application waits (`AppAwaitsInit`). The Delivery Service takes a commit made on its
log's last epoch; peers invite this device and commit. `dirty` and `overlapped` are
history: rooms with a call that failed after its write, and with calls that ran
at the same time.

**CryptoMode.** The decisions only: what the constructor expects, what a page or a prelude
says, what is remembered (`modes`, capped) and what is refused for ever (`poisoned`). A send
passes through its awaits (`preparing`, `encoding`), so a room may be poisoned between the
gates. A subscription has a `share` of the decrypt chain if there was a provider when it was
made; its teardown gives one back if there is a provider then. `outgoing` and `handed` record a
text sent in the clear and bytes taken for a text.

**BatchedWrites.** `batchAppend` sends one body again until an attempt is answered;
a request may be stored after its caller gave it up, and its answer lost.
`batchAddMembers` works through chunks; users are numbers, a chunk an interval.

**HistoryExport, SdkRequests, PushRegistration.** The page walk beside arriving
messages; one call from argument check to code, for each family of wrappers; the
browser's endpoint, the server's list of devices and the calls between them, an
endpoint being a number the browser has not used before.

**WireFormats.** Bytes are named by what is needed to read them: a dictionary by the
loader generation that fetched it, a compressed body by its dictionary, an envelope
by whether its fields fit the compact shapes. **RoomUrls.** A code is its values in
the alphabet, so that the checksum is computed and not assumed.

**Primitives.** Keys, secrets, ciphertexts, MACs and signatures are terms: what was sealed
opens under the same key, nonce and data and under nothing else, and a signature verifies under
its key and text. That is the usual idealisation; it also takes the 8-byte peer addresses to be
injective, which the code's are only up to chance. **PairwiseSeal** has a channel that loses,
repeats, reorders, misdirects and garbles envelopes, field by field, and a caller that uses a
buffer again. **Introductions** are two parties with their own view of each other; the caller
that drives them through the packages' functions is external. Properties go over the wire
through JSON, which does not keep every value as it is (`OnWire`).

**MessageRows, MessageReactions, MessagePins.** The list keeps rows in an order and
finds a bubble by counting articles, so bubbles are a sequence of their own. It is fed by two
subscriptions: its own, which lives as long as the list, and the one of the `Reconnector`'s loop
(`stream["own"]`, `stream["loop"]`); each is in order, since the widget gives its client no
`e2ee` provider, but the two are not in order with each other. `doubled` is history: the first
page had a message that an echo had entered before. In
`MessageReactions` `rows` are the messages of `#order`; what they say is left
out. `writes` are the clicks of `#selectReaction()` whose server call is outstanding,
each with the snapshot it took; a replacement is one click with two calls. A refresh
is a request (`fetching`), the server's answer on its way (`answers`), and a note to
ask again (`pending`). The server announces a change after it made it; the bridge in
`element.ts` drops the total, so every event asks for a refresh. Which of several own
emojis `#ownReactionFor()` finds first is left open. `excused` and `unsure` are history:
messages whose display the code may leave behind the server's (section 4).

**WidgetLifecycle.** A bootstrap is named by its number and stands at the request it
awaits; its controller may have been aborted since. Microtasks queued by an attribute
change run before any task.

**Reconnector.** The retry loop with its banner. A retry timer whose handle was
overwritten stays in `timers`: that is the code's behaviour under overlapping
errors. `live` are the subscriptions the loop made and nobody ended.

**Composer, VoiceRecording, VoicePlayback, Ephemera.** A message of the composer is a
record of `posts` with its files and with those that have an id by then; what becomes
of it is `Outbox`'s subject. What follows a settled promise in microtasks is part of the action
that settles it: no pointer event can come between. The audio element, MediaRecorder and
the permission prompt are the browser's and take any time; MediaRecorder may also refuse the
stream it is given (`RecorderThrows`).

## 3. Runs

| Run | Module, configuration | Question | Bounds |
|---|---|---|---|
| `client_streams` | `MCClientStreams`, `ClientStreams.cfg` | Does every row come, once and in order: over the stream of a subscription, over the chain it shares, and is that chain a serial executor, whatever its callers do? | chain: 1 room, 2 entry objects, 2 tasks, generation <= 4; delivery: 2 subscriptions (2 rows and none), 1 page of 1 row, generation <= 7; stream: 3 rows, pages of 2, 3 faults, both kinds of room, re-entrant callbacks |
| `delivery_early` | `MCDecryptDelivery`, `DeliveryEarly.cfg` | The same for a subscription made before the lazy provider exists (**violated**) | 1 subscription and 1 page of 1 row each |
| `outbox` | `MCOutbox`, `Outbox.cfg` | Is what was stored delivered, in turn, and gone afterwards? | 2 of 3 messages, 2 attempts each, cap 0 on failed entries, 1 reload, 2 faults |
| `outbox_live_upload` | `MCOutbox`, `OutboxLiveUpload.cfg` | Does the flush mark orphans only? (**violated**) | 1 text, 1 attachment, no fault |
| `outbox_overtaken` | `MCOutbox`, `OutboxOvertaken.cfg` | Does a text wait for the attachment before it, whoever sends it? (**violated**) | 1 text, 1 attachment, no fault |
| `mls_groups` | `MCMlsGroups`, `MlsGroups.cfg` | Do stored, held and sealing state of a group agree, and does it only move forward? | 1 room, 3 calls, 2 at a time, 1 KeyPackage, peers commit up to epoch 2, 1 reload, 1 fault |
| `mls_before_restore` | `MCMlsGroups`, `MlsBeforeRestore.cfg` | Is the stored state restored before anything uses it? (**violated**) | 2 calls, 1 reload, no fault |
| `message_reactions` | `MCMessageReactions`, `MessageReactions.cfg` | Do the chips end as the server has them, whatever overlaps? | 2 clicks, 1 change from elsewhere, 1 arrival that may evict, 1 fault, 2 users, 2 emojis, cap 1 |
| `sdk_parts` | `MCSdkParts`, `SdkParts.cfg` | Eleven questions about the nine parts listed below | see below |
| `widget_parts` | `MCWidgetParts`, `WidgetParts.cfg` | Twelve questions about the parts of the widget listed below | see below |
| `attachment_retry` | `MCAttachmentRetry`, `AttachmentRetry.cfg` | Does a message wait for the uploads of its files? (**violated**) | 1 file, 1 message |
| `deleted_text_returns` | `MCTwoStreams`, `DeletedTextReturns.cfg` | Is a deletion, once shown, final with two subscriptions side by side? (**violated**) | 2 messages, page 1, caps 2, 2 successes of the loop |

`sdk_parts` and `widget_parts` collect parts that touch no common state, and `client_streams`
three views of a row's way: the stream of one subscription, the delivery composed with the
chain, and the chain by itself under callers that do anything. (The stream hands rows on in
order; in `DecryptDelivery` they arrive in that order, at any time.) Such parts need no
interleaving with each other, only exploration; their product would say no more. Each behaviour
is therefore one of a single part, named by the variable `part`, while all others keep one
fixed initial state; a part's own actions run under its own `Next` and fairness. Where parts do
meet, in the room's chain, in the outbox, in the rows a reaction hangs on, they are composed
and not put side by side.

| Part | Property | What it says |
|---|---|---|
| modes | `NoDowngrade` | a client with an `e2ee` option posts nothing in the clear and takes no bytes for text, whatever the server states and when |
| modes | `VerdictsStick` | poison is for ever and reaches sends under way; whoever has a share of the room's chain keeps its mode |
| requests | `RetryRulesAgree` | a code the outbox gives up on is never one `batchAppend` would try again |
| batches | `AppendSettles`, `ResidueIsExact` | `batchAppend` ends on a server that never answers; a failed bulk names exactly what is confirmed, in doubt and untried |
| export | `ExportIsComplete` | each message once, in order, none of the room's left out, counters that add up |
| push | `NoLeakedSubscription` | what `unsubscribe()` read is gone from the browser, and from the server if nobody else held it |
| wire | `FramesAreReadAsSent` | no dictionary of a replaced loader; negotiated frames are readable by every peer; foreign ones are refused or read whole |
| urls | `UrlOpensItsRoom` | a URL opens its room with its secret; a slip of one key opens none |
| seal | `MessagesOpenAsSealed` | opened is what was sealed, for us, under that id and flags; no genuine message is refused; not twice in turn |
| intro | `IntroductionAgrees` | both parties derive one session id and one safety number, and see each other as each is |
| rows | `BubblesMatchRows`, `DeletedStaysDeleted` | every message one bubble, at its place, with its newest row; a tombstone stays one (exceptions: section 4) |
| pins | `PinsAgree` | banner and buttons are the server's pins once nothing is under way |
| element | `ScreenFollowsElement`, `AbortedIsMute` | the chat shown is the one the attributes ask for, a removed element holds nothing; aborted bootstraps change nothing |
| composer | `FilesGoOutOnce`, `ComposerIsGivenBack` | a file is in the tray or in exactly one message; a blocking send ends |
| recording | `MicrophoneIsEnded` | a recording has an owner and ends, and its microphone with it; the analyser is closed before its tracks |
| playback | `PlayerLeavesNothing` | a destroyed player is silent and holds no object URL |
| typing, receipts, presence, thread | `OverlaysAreCurrent` | a typing user has one timer, a receipt the furthest reader |
| reconnector | `NoOrphanedSubscription`, `LoopIsDecided` | no subscription without an owner; the loop comes to a verdict |

Why the bounds are enough for the cases that matter. *Chain*: two entry objects
are what a drain beside a re-acquisition needs, and generation 4 allows
acquire, append, release, come back, release again with both cleanups pending;
a new object takes an identity nothing refers to, so histories of any length
fit. Rooms share nothing in the class, and the proofs cover any number of them.
*Delivery*: two rows show order within a subscription, the second subscription
needs no rows to hold or drop the refcount under the others, and the page is
the third holder; any number of them is covered by the proofs. *Subscribe*: a log of
three rows against pages of two has a full page, a partial one and a page boundary;
three faults interleave a broken stream, a failed or hung request of the cycle that
follows, and a forced reconnect that supersedes it. *Outbox*: the configuration has two
texts and an attachment of which a page sends two, so both pairs are covered; with a cap
of 0 the first eviction happens already with one failed entry (the code's cap is 50).
*MLS*: rooms share the list of KeyPackages and the store's
switch to memory, and the proofs cover any number of them; a Welcome, a commit after it and the same
Welcome again are three calls, a lost update needs two at a time, and the
initialisation of the second page meets what the first one stored. *Reactions*:
messages share nothing but the order in which rows are evicted, so one message with
reactions and one that may evict it are enough; two clicks give every pair of add,
remove and replace, and since a click may come before the first refresh, also a user
with two emojis at the server; the change from elsewhere falls into any of it.

*Modes*: two rooms against a cap of 1 evict; a third room would meet the same code. *Requests*:
every family with a status of each class the code tells apart and the four lengths around its
limits. *Batches*: three attempts (the code makes up to four) have a first, a middle and a last
one, chunks of 2 among at most 5 ids give a full chunk, a partial one and a failure at each
place. *Export*: pages of 2 among at most 5 messages. *Push*: two overlapping calls and three
endpoints. *Wire*: two dictionaries, one swap, two fetches under way. *URLs*: three codes,
chosen for letters and digits of equal weight and for both ends of the alphabet, under every
one-key slip and swap. *Seal*: two ids, two sealed envelopes, two overlapping opens.
*Introductions*: three keys give each order of two parties' keys; the proofs cover any set.
*Rows*: a page of 1 and caps of 1 and 2 make fetch, both streams, echo and both evictions meet
with three messages, of which two may be deleted; one success of the loop puts a second
subscription beside the first. *Pins*: two messages, one event on its way at a time, beside the
user's toggles. *Element*: two rooms, two tokens, two bootstraps and their controllers.
*Composer*: one file, one rider, two messages. *Recording*: three recordings, so that one may
be replaced while the prompt of the next is open. *Loop*: two overlapping errors are enough to
lose a handle, three timers leave room for one more, three attempts for a give-up in the middle
of a series.

Deadlock is not checked: every system here may stop, when all subscriptions are torn down, the
fault budget is used up or the widget is gone. That nothing gets stuck before is what the
liveness properties say.

The type invariants (`TypeOK`, `CryptoTypeOK`, ...) are not among the runs' properties: most
are theorems, the others are part of an inductive invariant that is. Invariants that a theorem
covers for all values (`OneUnsealInFlight`, `UnsettledWorkIsReachable`, `OneWriteAtATime`, ...)
are not run either.

### Fairness

- Promise reactions and timers run: the event loop does not starve them. That is
  weak fairness on `StartTask`, `Reaction`, `TimerFires`, `Attempt`, `BackoffOver`, ...
- A running unseal task settles (`SettleTask` in `RoomDecryptChain`) because
  `#appendDecryptTask` bounds it. `DecryptDelivery` does not assume that but
  derives it: there the *provider* owes nothing (no fairness on `UnsealSettles`
  or `OrphanSettles`), and only the two timers and the microtasks are fair.
- In `Subscribe` a request that does not hang is answered and an open stream
  delivers. The watchdog is fair, pings, faults and the caller are not: liveness
  is promised only once the server was seen to ping, as the code's own comment
  on the blind window says.
- In `MessageReactions` what is in hand goes on, of whatever kind; nothing is assumed
  of users, participants and faults.
- In `Outbox` transactions end, the server answers, and the widget flushes again
  and again (it does on mount and on each reconnect). Nothing else is assumed of
  requests: they may fail as often as the budget allows.
- In `BatchedWrites` an attempt's timer, the abort listener and the backoff's timer run;
  the server owes nothing.
- In `Composer` uploads and posts end, well or badly; the user owes nothing. In
  `VoiceRecording` MediaRecorder's stop event comes, a recording reaches its cap,
  and a blob is decoded or refused.

## 4. What the runs found

Each of these is a run expected to be violated, and an entry of `findings`.

1. `delivery_early`: `subscribe()` joins the decrypt chain only if the provider
   exists at that moment. With the lazily created MLS provider, a subscription made
   before the first seal never joins it, and rows that arrive after the creation are
   dropped by `append()`, although `lastSeq` moves past them.
2. `outbox_live_upload`: `flushOutbox()` marks the placeholder of an upload that is
   still running as permanently failed.
3. `mls_before_restore`: `#ensureMlsProvider()` returns at once when the provider is
   set, which happens before `restoreAll()` is awaited: a second caller gets
   `mls_epoch_desync` for a room whose state is about to be restored.
4. `outbox_overtaken`: `flushOutbox()` sends outside `#sendChains`. While an attachment message
   is still uploading, a flush passes its placeholder and posts the text that waits in the chain
   behind it, which the comments of `#sendChains` and of `sendAttachmentMessageOptimistic` exclude.
5. `attachment_retry`: a message detached while a failed upload is being retried waits
   for the first upload, which is over, and is posted with a file that has no id.
6. `deleted_text_returns`: the list's own subscription and that of the `Reconnector` live side by
   side (`reconnect.ts:242` replaces only the loop's own earlier one). A row that was read before
   its message was deleted, and comes on one of them after the other has handed over the
   deletion, overwrites the tombstone with the text. The comment at `element.ts:1633` takes the
   old subscription to be torn down.

What the properties except, because the code does it:

- `NoOvertaking` is about texts; an attachment message may enter the send chain while an earlier
  text is still being stored. A flush keeps the order of the store but for two things it passes:
  what it or the store stumbled over (a send that failed for now, an enqueue that failed), and
  attachment messages on their way in the chain (`outbox_overtaken`).
- `VerdictsStick` keeps a mode for those who have a share of the room's chain. Plaintext
  subscriptions, and those made before the MLS provider, have none: their mode may go at the cap
  (`client.ts:898-912`). The teardown of one made before the provider releases a share it never
  took (`client.ts:1516`, `1967`), so that the mode is deleted under a live subscription; the
  comments at 1512-1514 and 1963-1966 speak of every subscriber. `Robbed` names these rooms.
- `NoGapNoDuplicate` states for encrypted rooms only that nothing is handed on after the
  teardown: the loop over a replayed plaintext page goes on when its callback unsubscribes
  (`client.ts:1839`, against the comment at 1828-1829).
- `NoRollback` and the sealing half of `EpochsAgree` are stated for rooms whose calls do not
  overlap: when they do, `addMember`, `removeMember` and `processMessage` lose epochs.
- In `MessageReactions` a write that fails for any reason but an expired token puts back the
  snapshot taken at the click, over events and refreshes that came meanwhile, and asks for no
  refresh: `SettledOnServer` excuses the message until a later refresh. The comment at
  `message-list.ts:2052` explains why the expired-token path must not do that. The same
  rollback runs after `destroy()`, although the comment at `message-list.ts:1210` says a
  torn-down list must never mutate `#reactions`: `QuietAfterDestroy` excepts exactly this step.
- `PinsAgree` excuses messages whose events fell into a gap of the stream, events and toggles
  that the answer of `listPins()` had not seen, and a failed toggle that rolled back over an
  event.
- `BubblesMatchRows` and `DeletedStaysDeleted` except a list whose first page had a message that
  was echoed before it arrived: the composer is there before `list()` answers, and such a message
  is entered in the order twice (`message-list.ts:2746`). `DeletedStaysDeleted` also excepts a row
  overtaken by its deletion on the other subscription (`deleted_text_returns`).
- `MicrophoneIsEnded` excepts a recording whose `MediaRecorder` cannot be made or started after
  the grant (`recorder.ts:128-139`): `createVoiceRecorder` rejects without stopping the tracks,
  `#startRecording` resets the button, and the microphone stays on.
- `OverlaysAreCurrent` is about typing and read marks; of presence and the thread panel it says
  nothing, the observations below do.
- `AbortedIsMute` excepts a bootstrap's last request, the read of failed outbox entries: the
  signal is not looked at afterwards, and `Reconnector` and the send-failed listener of the
  newer room are replaced.
- `NegotiatedIsReadable` takes ids to be UUIDs: `uuidToBytes` reads others leniently.
- `OpenedOnceInTurn`: overlapping `openMessage` calls on one envelope both open it, since the
  window is consulted before the cipher is awaited and marked afterwards.
- `NoFalseAlarm` holds for properties that JSON leaves alone.

Observations made while modelling, which no run states:

- *Crypto mode.* The comment at `client.ts:3253-3256` describes a branch that is dead for the
  lazy MLS provider, and that provider is said to be made "lazily on first seal/unseal", while
  `list`, `getThread` and `subscribe` before it hand over raw rows.
- *Requests.* `presignAttachment` has one code for every status. A malformed answer in the
  middle of a bulk loses the confirmed part. The doc of `push.ts:359-361` suggests that a 410
  is not rethrown; it is.
- *Wire.* A rejected `ensureWireCodecReady` promise is kept for ever; a stale fetch's `finally`
  drops the newer loader's in-flight entry; a mesh frame signs its size with 4 bytes of FCS.
- *URLs.* `parseRoomUrl` throws on a malformed `%`; a group's room id loses its checksum, so a
  URL rebuilt from it is parsed as a legacy one.
- *Outbox.* The comment at `client.ts:3368-3370` says that `flushOutbox` scrubs the entry of an
  orphaned upload; it marks it.
- *Subscription.* A resubscription replays from 0, although `getLastSeq` is documented as a
  resume token (`client.ts:1080`); mutation events lost in a gap are not replayed.
- *Rows.* `markSendFailed` may mark a delivered row, and failed outbox entries may overwrite
  one. Receipts and the thread panel are mounted only if the client has `getPresence`
  (1018-1043).
- *Reconnector.* A retry timer whose handle was overwritten by a second error
  (`reconnect.ts:252`) survives `notifyAuthExpired()` and replaces its alert.
- *Element.* A refreshed token is lost while the iframe loads; `setAttribute` and
  `refreshToken` in one tick start two bootstraps that share a controller; a bootstrap without
  a configuration leaves the old chat on the screen.
- *Composer and voice.* The error chip's retry sends the old text with the present tray and
  wipes the draft; a restored text overwrites the draft. `recorder.onerror` stops the tracks
  under an open analyser; the chip's controls are reset after the gesture has latched; a pause
  while `play()` is pending ends in the error phase.
- *Overlays.* The presence dot is never evaluated again; a stale thread answer fills the panel
  of another thread; bubbles that are evicted stay registered for receipts.
- *Primitives.* `sealMessage` reads its arguments' buffers after an await. The comment at
  `intro-wire.ts:40-47` says a bigint is rejected; the schema accepts it and `JSON.stringify`
  throws. An array with holes passes and becomes one with nulls, so that the two transcripts
  differ and the introduction is aborted.

## 5. What is proved

`tlapm` checks every proof to the last leaf. The theorems hold for all values of the
constants under the modules' named assumptions, which the runs evaluate for theirs. Every safety
invariant and every action property of a passing run is the statement of a theorem (one with
a hypothesis, `AppAwaitsInit`, explained where it is used). Each rests on
an inductive invariant; those that are not just the property with its types were checked by
TLC on the run's instance first.

**The decrypt chain** (`DecryptDeliveryProofs`), for every set of rooms, entries and tasks, if
`NoEntry` is no entry: `ChainTypeCorrect`, `Serial` (`[]OneUnsealInFlight`),
`WorkStaysReachable` (`[]UnsettledWorkIsReachable`), `IdleEntryNotStranded`
(`[]IdleEntryHasRemoval`), and `RefinesSerialUnseal`: the class implements the safety part of
`SerialUnseal` under the refinement mapping `Promised`.

None of the safety invariants is inductive by itself. Serial execution across
the entries of a room holds because an entry with unsettled work never leaves
the map; that, in turn, is a statement about the removals that are pending: one
that would pass the idle guard must have been registered behind all the entry's
work. The inductive invariant `IInv` says so:

- `MapMatchesHome`: an entry in the map is there under the room it was made for;
- `RunningIsQueued`: the task under way is the head of the queue;
- `CountsAgree`: no more unsettled links than were appended;
- `RemovalsAreBehind`: a pending removal of the entry's *current* generation waits
  for every link appended so far, and no removal carries a later generation. Each
  `acquire` and `append` bumps the generation, so older removals are harmless;
- `UnsettledWorkIsReachable` and `IdleEntryHasRemoval` themselves.

The proof goes action by action, and the refinement proof maps
each action to `Join`, `Leave`, `Submit`, `Start`, `Finish` or a stutter, using
`IInv` where an entry leaves the map (its queue is empty and its count zero).

**The delivery over it** (`DecryptDeliveryProofs`), for any number of subscriptions, pages and
rows, if the shared room is one of the chain's and the rows are among its tasks.
`UsesTheChain`: every step of the delivery is a step of the chain or none, hence `Spec =>
ChainSafety`, and the chain's theorems hold beneath it (`OneRowAtATime` is `Serial` carried
over). `InOrder`: `Spec => []DeliveredOnceInOrder`. The invariant `DInv` is the chain's `IInv`
with the order of a row's whole way: what is queued was sent and is queued in that order
(`QueuedInv`), what was handed out was sent and comes before everything queued still
(`HandedOutInv`), the room has one entry with unsettled work (`OneQueue`, from
`UnsettledWorkIsReachable`: without it a released entry could drain late rows behind newer
ones), and nothing is queued before there is a provider (`BurstInv`: so a raw row never
overtakes one in the queue). The proof first shows that every action has one of five effects on
the rows (`Effect`), then that each effect keeps the order.

**`SubscribeProofs`**, for every log, page size and number of faults: `TypeCorrect`,
`OneWayForward` (`[]ExactlyOneWayForward`), `RowsInOrder` (`[]NoGapNoDuplicate`). `SubInv`
replaces the count by cases: a subscription that lives is `Waiting` (one timer), `Cycling` (one
cycle) or `Streaming` of the current epoch, and nothing of a later epoch exists (`EpochsInv`),
so that a superseded cycle or timer can be recognised. The rows stay in order because in each
of the cases whatever continues starts at `lastSeq`: the cycle's cursor, the stream's position.

**`OutboxProofs`**, for every set of messages, number of attempts, cap, page size, reloads and
faults: `OutboxTypeCorrect`, `NothingIsLost` (`[]NothingLost`), `NothingComesBack`
(`NoResurrection`) and `NobodyOvertakes` (`[]NoOvertaking`). `IInv` has three parts. The types
say more than usual: a settling send is at the head of its chain, and the flush has an entry in
hand. `StoreInv` says why an entry may be deleted: by a send that the server answered
(`SendHasReason`), by a flush that has its answer (`FlushHasReason`), and only attachments are
marked as failed (`OnlyAttachmentsFail`). A message that was stored once never enqueues again
(`SendHasReason` too), so nothing comes back. `OrderInv` follows a message through the places
it can be: in IndexedDB's queue, or behind everything earlier in the send chain
(`QueueInOrder`, `ChainInOrder`); that is what makes the head of the chain the oldest. For the
flush, `TurnInv` adds that texts are enqueued and stored in turn (`EnqueuedInTurn`,
`StoredInTurn`) and that of those before the one in hand each comes earlier in the snapshot or has
been dealt with (`FlushInTurn`).

**`MlsGroupsProofs`**, for every set of rooms, calls and packages and every bound:
`MlsTypeCorrect`, `MlsEpochsAgree` (`[]EpochsAgree`), `MlsMovesForward` (`NoRollback`). The
last two assume `AppAwaitsInit`, an application that awaits its first `getMlsManager()`; one
that does not may work on a room that is about to be restored, which is what the run
`mls_before_restore` shows. `MlsInv` is the conjunction of what the class gets right without a
queue per room:

- `RestoreComesFirst`: no call and no save while the initialisation runs; what it has loaded it
  seals with;
- `Bindings`: a room with a state has a group id, so do the rooms of calls past their first
  check;
- `Queue`, `SaveIsOnItsWay`, `DisposerSaves`: saves reach the store in the order of the
  requests, and the last of a room is that of the state in memory, or some call will still make
  one: every write of the state is followed by a save of what memory has *then*. This is why
  overlapping calls lose epochs but never leave store and memory apart;
- `CommitsAreNew`: a commit is in no history before its call has made it;
- `OneAtATime`, `WorksOnTheState`, `SealingFollows`: in a room whose calls do not overlap, the
  state a call holds is the room's, so that what it writes back extends it, and the AEAD layer
  follows;
- `PackagesAreUsedOnce`: the package of a Welcome opens one group once, so a repeated Welcome
  cannot take a room back to the epoch of its first.

**`MessageReactionsProofs`**, for every set of messages, rows and emojis and every finite set
of users, if `list()` returned no message twice: `TypeCorrect`, `OneWrite`, `Chips`, `Settled`,
`Torndown`. The core of its `IInv` is `ReconciledInv`: a message of the list that does not show
the server's state, and is not excused, has something under way that will bring it there. That
is an event still in the stream, a refresh that is not behind the server or will be repeated,
the timer of an expired write, or a call that will change the server and so be announced. Each
step hands this on: a click from the server's state starts an effective call, an effective call
or somebody else's change becomes an event, an event becomes a fresh refresh, and a refresh
ends in the server's state. The other parts are what that argument needs: `StaleIsRepeated` (an
answer behind the server is marked for repetition by `#reactionFetchPending`, or its event has
yet to come, which will mark it), `DistinctRows`, `LockCoversWrites` (a click's call is
outstanding only while its lock is held) and `ChipsInv` (also the snapshots that a rollback
would put back are well formed).

**`SdkPartsProofs`**, one section for each part of the run `sdk_parts`.

*Push registration*, for any number of calls and endpoints, if the browser's
endpoints do not repeat: `PushTypeCorrect` and `NothingLeaks` (`[]NoLeakedSubscription`). The
invariant follows a call's hand: what it holds was made by the browser before
(`EndpointsAreNew`), is gone from the browser once the call is over
(`BrowserForgot`), and from the server once it accepted the deletion, unless
another call holds the same (`ServerForgot`).

*Batched writes*, for any number of users, chunk size and attempts: `BatchTypeCorrect`,
`BatchResidue` (`[]ResidueIsExact`): the chunks confirmed are those below the offset, and what
the server has enrolled lies below the next one.

*History export*, for any room and page: `ExportComplete` (`[]ExportIsComplete`). The row at
each place is the message of that number; the cursor is the number of rows, and what was there
at the start is below it when the walk ends.

*Requests*, for any set of statuses and lengths: `RetryRules` (`[]RetryRulesAgree`). Each
family's outcome is followed through its mapping of statuses to codes.

*Crypto mode*, for any rooms, calls, subscriptions and cap: `CryptoTypeCorrect`,
`NeverDowngraded` (`[]NoDowngrade`), `VerdictsStay` (`VerdictsStick`). The invariant adds that
a client with an `e2ee` option remembers no room as plaintext and that no send under way has
the plain form (`OnlySealedModes`). For the verdicts: an eviction takes the oldest entries that
may go, so that the cap drops no room with a share outstanding; and the chain's count of a room
that is not `Robbed` is that of the shares held (`SharesInv`).

*Introductions*, for every set of keys: `IntroTypeCorrect` and `Agreement`
(`[]IntroductionAgrees`). What a party derives is written as a function of both parties' keys
and properties; the lemmas show that the function does not depend on whose side it is computed
on, whatever order the keys have (`PartiesDeriveAlike`); the invariant `IntroInv` says that
parties hold, and the wire carries, nothing but those values.

*Pairwise seal*, for any ids, overlapping calls and sealed messages: `OpenedAreSealed`
(`[]MessagesOpenAsSealed`). `SealInv` says of every call under way that what it has passed so
far binds the envelope to one that was sealed: the signature to contact, id and flags, the
cipher to the text; and that the window holds the ids of what was opened and no other.

*Room URLs*, for any code over the alphabet, any secret and slip: `UrlsOpenTheirRoom`
(`[]UrlOpensItsRoom`). Its lemmas compute with the checksum modulo 34: the weights are 1 and 3,
neither has a factor in common with 34, so one wrong value is always noticed; swapping two
neighbours changes the sum by twice their difference, so it goes unnoticed exactly if 17
divides that, which the property says.

*Wire formats*, for any dictionaries, peers and builds: `FramesReadAsSent`
(`[]FramesAreReadAsSent`). The lemmas follow a frame from the negotiation (what every peer
advertises) through `EncodeIs` and `ExpandedIs` to what its reader makes of it (`FrameIsRead`);
the state contributes that no bytes in the cache are older than the loader.

**`WidgetPartsProofs`**, one section for each part of the run `widget_parts`.

*Reconnector.* `ReconnectorTypeCorrect` and `LoopIsOwned` (`[]NoOrphanedSubscription`), with
the invariant that a handle in `#clearTimer` belongs to a pending removal.

*Voice playback*: `PlayerIsQuiet` (`[]PlayerLeavesNothing`), since an object URL in use is the
element's source and nothing sounds before its load has come. *Voice recording*:
`MicrophoneIsHeld`, the safety half of `MicrophoneIsEnded`. `VoiceInv`: at most one recording
is busy, `isRecording` is set as long as one is, and what the composer holds is the one that
runs. A stream that `MediaRecorder` refused is `leaked` and no recording in progress.

*Overlays*: `OverlaysCurrent` (`[]OverlaysAreCurrent`), for all overlays interleaved.

*Widget element*, for any number of bootstraps, controllers, rooms and tokens:
`ScreenIsCurrent` (`[]ScreenFollowsElement`) and `AbortedStayMute` (`AbortedIsMute`).
`LifeInv`: a bootstrap that has a controller of its own was given the attributes of the moment
(`ListIsCurrent`), because whatever changes them takes the controller away in the same step.

*Pins*: `PinsTypeCorrect`, `PinsFollowTheServer` (`[]PinsAgree`). `PinsInv` says for each
message that the last event, or a click that nothing has overtaken, tells what the server has.

*Composer*: `ComposerTypeCorrect`, `EachFileGoesOutOnce` (`[]FilesGoOutOnce`). `FilesInPlace`
is the property with what the steps need: files of two messages are disjoint, and no file of a
message is in the tray.

*Message rows*, for any messages, page size, caps and successes of the loop: `BubblesStand`
(`[]BubblesMatchRows`) and `TombstonesStay` (`DeletedStaysDeleted`), with the exceptions the two
properties name and no further assumption. `RowsBase` and `RowsShown` have the order, the rows and
the bubbles in step (`OnScreen`). While the list's own subscription is the only one, an event with
a message's text comes before the one with its deletion (`Streamed`), which is why a late row never
uncovers a tombstone; with the second subscription the only way left is `OvertakenRow`.

Attempts to prove changed the models where they were wrong or vaguer than the code:

- `RetryRulesAgree` did not hold for a 3xx that `fetch()` returns (304): the outbox takes its
  code for one to try again, `batchAppend` does not. The property excepts it, the run has it.
- `HistoryExport` counts a page's rows by their kind as the code does, not by filtering the
  list made.
- Two cases of a bootstrap's beginning overlapped in `WidgetLifecycle` (a `CASE` whose guards
  were not exclusive); the guard now is the code's.
- In `MlsGroups` peers could add a device that is a member already, which MLS refuses. And
  after the store's switch to memory, a room that was not saved since has its last state in
  IndexedDB, where this page no longer looks: `EpochsAgree` speaks of where a room was last
  saved (`LastSaved`). With one room the runs could not show it.
- A bootstrap that is past its last check may register its listener and `Reconnector` on an
  element that was removed meanwhile; `TornDownIsBare` does not speak of those two.

## 6. What is only model-checked

Everything that speaks of "eventually" (fairness and `ENABLED` are beyond the prover):
`IdleEntryIsRemoved`, `WorkSettles`, `EveryRowArrives`, `EveryTextIsDelivered`, `ClicksSettle`,
`AppendSettles`, `ComposerIsGivenBack`, `LoopIsDecided`, the liveness half of
`MicrophoneIsEnded` and that of `ImplementsSerialUnseal`. No safety property is left to the
runs alone, except beyond the hypothesis, where the code does not keep what the properties
say (`mls_before_restore`).

## 7. What is not modelled

- `sframe.ts` wraps an external library and keeps no state of its own: the models see an
  unseal that resolves, rejects or hangs. The arithmetic of the ciphers is external as well.
- `kem.ts` and `xchacha.ts` of `crypto-primitives`: the package exports them, and nothing else in
  the repository calls them (`intro-crypto.ts` takes its XChaCha20 from the library).
- Building the DOM: styles, translations, emoji tables, chips, galleries, focus, wording.
  Where an element of the DOM is state that the code reads back (bubbles found by
  counting, pressed buttons, the banner's index) it is modelled.
- Base64, zeroizing, constant-time comparison; waveforms and their drawing; logging.
- The server beyond what the client sees of it: logs, pages, streams, pins and codes.
- Faults that have no property: callbacks other than `onMessage` that throw, a
  reload between an accepted commit and its save, and the rollback of a failed reaction (see the
  notes in `hazards`).
- Edits of a message, which replace what a row says where it stands.

## 8. What could come next

- An abstract specification of the outbox (a message is stored, accepted or refused, and
  forgotten, in the order of the sends) and of a subscription (a cursor that moves over the
  log), each with a proof that the detailed module implements it, as `RoomDecryptChain` has for
  `SerialUnseal`.
- `MlsGroups` with one queue per room, to prove `NoRollback` without its exception for
  overlapping calls: what a fix of the class would have to keep.
- Callbacks of the host that throw, and the reload between an accepted commit and its save.
