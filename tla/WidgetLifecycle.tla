--------------------------- MODULE WidgetLifecycle ---------------------------
(***************************************************************************)
(* packages/chat-widget/src/element.ts, bootstrap.ts, iframe.ts and        *)
(* postmessage.ts: the life of one <oxpulse-chat> element.  Every attribute*)
(* change aborts the bootstrap under way and schedules another; a bootstrap*)
(* is a chain of requests, and whatever it finds when one of them settles  *)
(* may belong to a later one.                                              *)
(*                                                                         *)
(* A bootstrap is named by its number, a controller by the number of abort *)
(* controllers made before it.  Promise reactions may run between an       *)
(* attribute change and the bootstrap it queued; tasks (requests, timers)  *)
(* may not.                                                                *)
(***************************************************************************)
EXTENDS Naturals

CONSTANTS
    RoomIds,            \* values of room-id
    MaxJwt,             \* jwt values are 1..MaxJwt, and none
    MaxBoots,           \* bound on bootstraps
    MaxControllers,     \* bound on abort controllers
    Nobody              \* no bootstrap, no room, no token

Boots == 1..MaxBoots
Tokens == 1..MaxJwt

ASSUME LifecycleAssumption ==
    /\ MaxJwt \in Nat /\ MaxBoots \in Nat /\ MaxControllers \in Nat
    /\ Nobody \notin (0..MaxControllers) \cup Boots \cup Tokens \cup RoomIds

VARIABLES
    setup,          \* attributes that stay: mode, allow-anon-read, write mint
    attrs,          \* [room, jwt]: attributes that change
    attached,       \* the element is in the document
    initialized,    \* #initialized
    controller,     \* #abortController, or Nobody
    controllers,    \* controllers made so far
    scheduled,      \* #bootstrapScheduled
    microtasks,     \* queued bootstraps
    boots,          \* [Boots -> [at, controller, attrs]]
    screen,         \* what is under the shadow root
    list, composer, \* #messageList, #composer: the bootstrap that made it
    renewTimer,     \* #anonRenewTimer
    degraded,       \* #outboxDegradedDispose
    listener,       \* #sendFailedListener
    reconnector,    \* #reconnector
    frame           \* the iframe: [by, open, token]

uiVars == <<screen, list, composer, renewTimer, degraded, listener, reconnector, frame>>
widgetVars == <<setup, attrs, attached, initialized, controller, controllers, scheduled,
                microtasks, boots, uiVars>>

Attributes == [room : RoomIds \cup {Nobody}, jwt : Tokens \cup {Nobody}]
Stages == {"unused", "checking", "minting", "writeMinting", "listing", "outbox", "over"}
NoFrame == [by |-> Nobody, open |-> FALSE, token |-> Nobody]

WidgetTypeOK ==
    /\ setup \in [mode : {"inline", "iframe"}, anonRead : BOOLEAN, writeMint : BOOLEAN]
    /\ attrs \in Attributes
    /\ attached \in BOOLEAN /\ initialized \in BOOLEAN /\ scheduled \in BOOLEAN
    /\ controller \in 1..MaxControllers \cup {Nobody}
    /\ controllers \in 0..MaxControllers
    /\ microtasks \in 0..MaxControllers
    /\ boots \in [Boots -> [at : Stages, controller : 0..MaxControllers, attrs : Attributes]]
    /\ screen \in {"bare", "loading", "error", "chat", "iframe"}
    /\ {list, composer, renewTimer, degraded, listener, reconnector} \subseteq Boots \cup {Nobody}
    /\ frame \in [by : Boots \cup {Nobody}, open : BOOLEAN, token : Tokens \cup {Nobody}]

WidgetInit ==
    /\ setup \in [mode : {"inline", "iframe"}, anonRead : BOOLEAN, writeMint : BOOLEAN]
    /\ attrs \in Attributes
    /\ attached = FALSE /\ initialized = FALSE /\ scheduled = FALSE
    /\ controller = Nobody
    /\ controllers = 0
    /\ microtasks = 0
    /\ boots = [b \in Boots |-> [at |-> "unused", controller |-> 0,
                                 attrs |-> [room |-> Nobody, jwt |-> Nobody]]]
    /\ screen = "bare"
    /\ list = Nobody /\ composer = Nobody /\ renewTimer = Nobody
    /\ degraded = Nobody /\ listener = Nobody /\ reconnector = Nobody
    /\ frame = NoFrame

\* #resolveConfig(): room-id is required, and jwt unless anyone may read.
Configured(a) == a.room # Nobody /\ (a.jwt # Nobody \/ setup.anonRead)

Aborted(b) == boots[b].controller # controller
AnonMode(b) == setup.anonRead /\ boots[b].attrs.jwt = Nobody
CanSend(b) == setup.writeMint \/ ~AnonMode(b)

\* A fresh controller; the bootstraps of the old one are aborted thereby.
NewController ==
    /\ controllers < MaxControllers
    /\ controllers' = controllers + 1
    /\ controller' = controllers + 1

-----------------------------------------------------------------------------
(* #bootstrap() *)

\* From one request to the next: where a bootstrap goes after the origin check,
\* the read mint and the write mint.  An iframe is mounted before any mint.
MoveTo(b, stage) == boots' = [boots EXCEPT ![b].at = stage]

\* The widget is built: composer first, then the list, whose mount() is awaited.
\* What an equal bootstrap built before is dropped, not destroyed.
Build(b) ==
    /\ screen' = "chat"
    /\ composer' = IF CanSend(b) THEN b ELSE composer
    /\ list' = b
    /\ MoveTo(b, "listing")
    /\ UNCHANGED <<degraded, listener, reconnector, frame>>

AfterReadToken(b) ==
    IF setup.writeMint
    THEN MoveTo(b, "writeMinting") /\ UNCHANGED <<screen, list, composer, degraded, listener,
                                                  reconnector, frame>>
    ELSE Build(b)

MountIframe(b) ==
    /\ screen' = "iframe"
    /\ frame' = [by |-> b, open |-> FALSE, token |-> Nobody]
    /\ MoveTo(b, "over")
    /\ UNCHANGED <<list, composer, renewTimer, degraded, listener, reconnector>>

\* The start of a bootstrap with the attributes of this moment: without a
\* configuration nothing is touched; else the timers and the old widget go.  With
\* allow-anon-read the origin is not checked, and with a jwt besides nothing is
\* minted to read: the bootstrap runs on.  `timer' is the renewal left so far.
Begin(b, c, timer) ==
    LET enters(stage) == boots' = [boots EXCEPT ![b] =
                                    [at |-> stage, controller |-> c, attrs |-> attrs]]
        built   == setup.anonRead /\ setup.mode = "inline" /\ attrs.jwt # Nobody
                        /\ ~setup.writeMint
        mounted == setup.anonRead /\ setup.mode = "iframe"
    IN /\ boots[b].at = "unused"
       /\ \A x \in 1..b-1 : boots[x].at # "unused"
       /\ UNCHANGED <<degraded, listener, reconnector>>
       /\ IF ~Configured(attrs)
          THEN enters("over") /\ renewTimer' = timer /\ UNCHANGED <<screen, list, composer, frame>>
          ELSE /\ renewTimer' = Nobody
               /\ composer' = IF built THEN b ELSE Nobody
               /\ list' = IF built THEN b ELSE Nobody
               /\ frame' = IF mounted THEN [NoFrame EXCEPT !.by = b] ELSE NoFrame
               /\ screen' = CASE built -> "chat" [] mounted -> "iframe" [] OTHER -> "loading"
               /\ enters(CASE built -> "listing"
                            [] mounted -> "over"
                            [] ~setup.anonRead -> "checking"
                            [] setup.anonRead /\ ~mounted /\ attrs.jwt = Nobody -> "minting"
                            [] OTHER -> "writeMinting")

\* #renderError() and the event: the bootstrap ends there.
ShowError(b) ==
    /\ screen' = "error"
    /\ MoveTo(b, "over")
    /\ UNCHANGED <<list, composer, renewTimer, degraded, listener, reconnector, frame>>

\* An aborted bootstrap ends without a trace.
Drop(b) == MoveTo(b, "over") /\ UNCHANGED uiVars

OutsideUnchanged ==
    UNCHANGED <<setup, attrs, attached, initialized, controller, controllers, scheduled, microtasks>>

\* checkOrigin() reads the token and waits for nothing: it passes or it throws.
OriginChecked(b) ==
    /\ boots[b].at = "checking"
    /\ IF Aborted(b) THEN Drop(b)
       ELSE \/ ShowError(b)
            \/ setup.mode = "iframe" /\ MountIframe(b)
            \/ setup.mode = "inline" /\ AfterReadToken(b) /\ UNCHANGED renewTimer
    /\ OutsideUnchanged

\* The anonymous token, renewed before it expires.
ReadTokenMinted(b) ==
    /\ boots[b].at = "minting"
    /\ microtasks = 0
    /\ IF Aborted(b) THEN Drop(b)
       ELSE \/ ShowError(b)
            \/ AfterReadToken(b) /\ renewTimer' = b
    /\ OutsideUnchanged

\* Mutant of WriteTokenMinted: does not look at the signal again.
WriteTokenMintedBlindly(b) ==
    /\ boots[b].at = "writeMinting"
    /\ microtasks = 0
    /\ \/ ShowError(b)
       \/ Build(b) /\ UNCHANGED renewTimer
    /\ OutsideUnchanged

WriteTokenMinted(b) ==
    /\ boots[b].at = "writeMinting"
    /\ microtasks = 0
    /\ IF Aborted(b) THEN Drop(b)
       ELSE \/ ShowError(b)
            \/ Build(b) /\ UNCHANGED renewTimer
    /\ OutsideUnchanged

\* MessageList.mount() is over, whatever became of its first page.
ListMounted(b) ==
    /\ boots[b].at = "listing"
    /\ microtasks = 0
    /\ IF Aborted(b) THEN Drop(b)
       ELSE /\ degraded' = b
            /\ IF CanSend(b)
               THEN MoveTo(b, "outbox") /\ UNCHANGED <<listener, reconnector>>
               ELSE MoveTo(b, "over") /\ listener' = b /\ reconnector' = b
            /\ UNCHANGED <<screen, list, composer, renewTimer, frame>>
    /\ OutsideUnchanged

\* getFailedOutboxEntries() has answered.  The signal is not looked at again
\* before the listener and the Reconnector are put in the place of the old ones.
OutboxRead(b) ==
    /\ boots[b].at = "outbox"
    /\ microtasks = 0
    /\ listener' = b
    /\ reconnector' = b
    /\ MoveTo(b, "over")
    /\ UNCHANGED <<screen, list, composer, renewTimer, degraded, frame>>
    /\ OutsideUnchanged

-----------------------------------------------------------------------------
(* The element's callbacks *)

ConnectedCallback ==
    /\ ~attached
    /\ attached' = TRUE
    /\ IF initialized
       THEN UNCHANGED <<initialized, controller, controllers, boots, uiVars>>
       ELSE /\ initialized' = TRUE
            /\ NewController
            /\ \E b \in Boots : Begin(b, controllers + 1, renewTimer)
    /\ UNCHANGED <<setup, attrs, scheduled, microtasks>>

\* Mutant of TearDown: the renewal timer is forgotten.
TearDownButTimer ==
    /\ controller' = Nobody
    /\ initialized' = FALSE
    /\ scheduled' = FALSE
    /\ screen' = "bare"
    /\ list' = Nobody /\ composer' = Nobody
    /\ degraded' = Nobody /\ listener' = Nobody /\ reconnector' = Nobody
    /\ frame' = NoFrame
    /\ UNCHANGED <<setup, attrs, controllers, microtasks, boots, renewTimer>>

\* Everything goes, and a bootstrap that is queued finds no controller.
TearDown ==
    /\ controller' = Nobody
    /\ initialized' = FALSE
    /\ scheduled' = FALSE
    /\ screen' = "bare"
    /\ list' = Nobody /\ composer' = Nobody /\ renewTimer' = Nobody
    /\ degraded' = Nobody /\ listener' = Nobody /\ reconnector' = Nobody
    /\ frame' = NoFrame
    /\ UNCHANGED <<setup, attrs, controllers, microtasks, boots>>

DisconnectedCallback == attached /\ attached' = FALSE /\ TearDown
DestroyElement == initialized /\ TearDown /\ UNCHANGED attached

\* The bootstrap is queued once, the old one aborted at once.
Reschedule ==
    /\ NewController
    /\ initialized' = TRUE
    /\ scheduled' = TRUE
    /\ microtasks' = IF scheduled THEN microtasks ELSE microtasks + 1

AttributeChanged ==
    /\ \E a \in Attributes :
        /\ a # attrs
        /\ a.room = attrs.room \/ a.jwt = attrs.jwt
        /\ attrs' = a
    /\ IF initialized THEN Reschedule
                      ELSE UNCHANGED <<initialized, controller, controllers, scheduled, microtasks>>
    /\ UNCHANGED <<setup, attached, boots, uiVars>>

RunMicrotask ==
    /\ microtasks > 0
    /\ microtasks' = microtasks - 1
    /\ scheduled' = FALSE
    /\ IF controller = Nobody THEN UNCHANGED <<boots, uiVars>>
                              ELSE \E b \in Boots : Begin(b, controller, renewTimer)
    /\ UNCHANGED <<setup, attrs, attached, initialized, controller, controllers>>

\* The anonymous token is about to expire.
RenewTimerFires ==
    /\ renewTimer # Nobody
    /\ microtasks = 0
    /\ initialized
    /\ NewController
    /\ \E b \in Boots : Begin(b, controllers + 1, Nobody)
    /\ UNCHANGED <<setup, attrs, attached, initialized, scheduled, microtasks>>

-----------------------------------------------------------------------------
(* Tokens *)

\* refreshToken(): to the live iframe in place, unless a remount is queued; else
\* by the attribute, or by a bootstrap right away when the attribute has it.
RefreshToken(t) ==
    /\ IF frame.by # Nobody /\ ~scheduled /\ Configured(attrs)
       THEN /\ attrs' = [attrs EXCEPT !.jwt = t]
            /\ \/ frame.open /\ frame' = [frame EXCEPT !.token = t]
               \/ UNCHANGED frame
            /\ UNCHANGED <<initialized, controller, controllers, scheduled, microtasks, boots,
                           screen, list, composer, renewTimer, degraded, listener, reconnector>>
       ELSE IF attrs.jwt # t
       THEN /\ attrs' = [attrs EXCEPT !.jwt = t]
            /\ IF initialized
               THEN Reschedule
               ELSE UNCHANGED <<initialized, controller, controllers, scheduled, microtasks>>
            /\ UNCHANGED <<boots, uiVars>>
       ELSE /\ initialized' = TRUE
            /\ NewController
            /\ \E b \in Boots : Begin(b, controllers + 1, renewTimer)
            /\ UNCHANGED <<attrs, scheduled, microtasks>>
    /\ UNCHANGED <<setup, attached>>

\* The iframe has loaded and is sent the configuration of its bootstrap, which
\* initIframe() checks; from then on it takes refreshed tokens, of the same
\* origins only (applyRefreshedToken).
FrameLoads ==
    /\ frame.by # Nobody /\ ~frame.open
    /\ microtasks = 0
    /\ boots[frame.by].attrs.jwt # Nobody
    /\ frame' = [frame EXCEPT !.open = TRUE, !.token = boots[frame.by].attrs.jwt]
    /\ UNCHANGED <<boots, screen, list, composer, renewTimer, degraded, listener, reconnector>>
    /\ OutsideUnchanged

WidgetNext ==
    \/ \E b \in Boots :
        \/ OriginChecked(b)
        \/ ReadTokenMinted(b)
        \/ WriteTokenMinted(b)
        \/ ListMounted(b)
        \/ OutboxRead(b)
    \/ ConnectedCallback
    \/ DisconnectedCallback
    \/ DestroyElement
    \/ AttributeChanged
    \/ RunMicrotask
    \/ RenewTimerFires
    \/ \E t \in Tokens : RefreshToken(t)
    \/ FrameLoads

-----------------------------------------------------------------------------
(* Properties *)

\* Steps of bootstraps aborted before: nothing of the widget changes.
Mute(stages) ==
    \A b \in Boots :
        boots[b].at \in stages /\ boots'[b].at # boots[b].at /\ Aborted(b) => UNCHANGED uiVars

\* A bootstrap aborted by an attribute change, a removal or a renewal leaves the
\* screen, the list, the composer and the timers to its successor, whichever
\* request it was waiting for.  Not its last one: after the read of the failed
\* outbox entries the signal is not looked at, and the Reconnector and the
\* listener of send-failed events are replaced by those of the aborted room.
AbortedIsMute == [][Mute(Stages \ {"unused", "outbox"})]_widgetVars

Quiet == microtasks = 0 /\ \A b \in Boots : boots[b].at \in {"unused", "over"} \/ Aborted(b)

\* Once nothing is under way, the chat on the screen is the one the attributes
\* ask for: no change, removal, renewal or refresh of any of them gets lost, in
\* whatever order they overlap with earlier bootstraps.
ShowsWhatIsAsked ==
    initialized /\ Quiet /\ Configured(attrs) /\ screen = "chat" =>
        list # Nobody /\ boots[list].attrs = attrs

\* A removed or destroyed element holds nothing that would go on by itself.
TornDownIsBare ==
    ~initialized =>
        screen = "bare" /\ list = Nobody /\ composer = Nobody /\ renewTimer = Nobody
            /\ frame = NoFrame

\* What the element shows and holds is what it has last been told, to show a
\* room or to end.
ScreenFollowsElement == ShowsWhatIsAsked /\ TornDownIsBare
=============================================================================
