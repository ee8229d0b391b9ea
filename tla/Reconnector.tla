----------------------------- MODULE Reconnector -----------------------------
(***************************************************************************)
(* packages/chat-widget/src/ui/reconnect.ts: the widget's retry loop and   *)
(* its banner, driven as element.ts drives it: by the errors of the        *)
(* MessageList's own subscription, by those of the subscriptions the loop  *)
(* itself establishes, and by the window's online and offline events.      *)
(*                                                                         *)
(* Any pending timer may fire next.  MaxTimers bounds the retry timers     *)
(* pending at a time, which the code does not: a handle that is            *)
(* overwritten leaves its timer armed.                                     *)
(***************************************************************************)
EXTENDS Naturals, FiniteSets

CONSTANTS
    MAX_ATTEMPTS,
    MaxTimers,      \* bound on pending retry timers
    MaxEvents       \* bound on errors reported and on window events

ASSUME ReconnectorAssumption ==
    MAX_ATTEMPTS \in Nat /\ MaxTimers \in Nat \ {0} /\ MaxEvents \in Nat

VARIABLES
    state,          \* #state
    shown,          \* the banner is in the DOM
    removals,       \* pending timeouts of notifyReconnected() that remove it
    clearTimer,     \* the last of them has its handle in #clearTimer
    timers,         \* pending retry timeouts
    reconnectTimer, \* the handle of one of them, or None
    attempt,
    started,        \* #subscribeFn is set
    unsubscribe,    \* the subscription #unsubscribe would end, or None
    live,           \* subscriptions made and not ended
    online,         \* the window's last event was not `offline`
    expired,        \* history: the alert shown is notifyAuthExpired()'s
    destroyed,
    events

reconnectorVars == <<state, shown, removals, clearTimer, timers, reconnectTimer, attempt,
                     started, unsubscribe, live, online, expired, destroyed, events>>

None == 0
TimerIds == 1..MaxTimers
States == {"idle", "auth-expired", "reconnecting", "connected"}

ReconnectorTypeOK ==
    /\ state \in States
    /\ shown \in BOOLEAN
    /\ removals \in Nat
    /\ clearTimer \in BOOLEAN
    /\ timers \subseteq TimerIds
    /\ reconnectTimer \in TimerIds \cup {None}
    /\ attempt \in Nat
    /\ started \in BOOLEAN
    /\ unsubscribe \in Nat
    /\ live \subseteq Nat \ {None}
    /\ online \in BOOLEAN
    /\ expired \in BOOLEAN
    /\ destroyed \in BOOLEAN
    /\ events \in 0..MaxEvents

ReconnectorInit ==
    /\ state = "idle"
    /\ shown = FALSE
    /\ removals = 0
    /\ clearTimer = FALSE
    /\ timers = {}
    /\ reconnectTimer = None
    /\ attempt = 0
    /\ started = FALSE
    /\ unsubscribe = None
    /\ live = {}
    /\ online = TRUE
    /\ expired = FALSE
    /\ destroyed = FALSE
    /\ events = 0

Event == events < MaxEvents /\ events' = events + 1

-----------------------------------------------------------------------------
(* Pieces of handlers; rest is the set of retry timers pending at the time *)

UpdateBanner(s) ==
    /\ state' = s
    /\ shown' = TRUE
    /\ expired' = FALSE

\* #cancelRetryTimer()
Uncancelled == timers \ {reconnectTimer}

\* stopReconnectLoop(), which leaves the timers in rest, and the alert whose
\* button asks the host for a token.
NotifyAuthExpired(rest) ==
    /\ timers' = rest
    /\ reconnectTimer' = None
    /\ live' = live \ {unsubscribe}
    /\ unsubscribe' = None
    /\ state' = "auth-expired"
    /\ shown' = TRUE
    /\ expired' = TRUE

SetTimer(rest) ==
    /\ rest # TimerIds
    /\ LET id == CHOOSE i \in TimerIds \ rest : TRUE IN
         /\ timers' = rest \cup {id}
         /\ reconnectTimer' = id

ShouldGiveUp(n) == n >= MAX_ATTEMPTS

\* #scheduleAttempt() with #attempt = n and the handle given: give up, or
\* announce and set a timer.
ScheduleAttempt(rest, handle, n) ==
    IF ShouldGiveUp(n)
    THEN /\ UpdateBanner("auth-expired")
         /\ timers' = rest
         /\ reconnectTimer' = handle
    ELSE /\ UpdateBanner("reconnecting")
         /\ SetTimer(rest)

-----------------------------------------------------------------------------
(* Errors and attempts *)

\* handleSubscribeError() of the MessageList's subscription, or the button of
\* notifyGivenUp(), which starts from attempt 0.
StartReconnectLoop(n) ==
    /\ ~destroyed
    /\ started' = TRUE
    /\ attempt' = n
    /\ ScheduleAttempt(timers, reconnectTimer, n)
    /\ UNCHANGED <<removals, clearTimer, unsubscribe, live, online, destroyed>>

ListError == Event /\ StartReconnectLoop(attempt)

GivenUpAlert == state = "auth-expired" /\ shown /\ ~expired

ReconnectManually == Event /\ GivenUpAlert /\ started /\ StartReconnectLoop(0)

AuthError(rest) ==
    /\ NotifyAuthExpired(rest)
    /\ UNCHANGED <<removals, clearTimer, attempt, started, online, destroyed>>

ListAuthError == ~destroyed /\ Event /\ AuthError(Uncancelled)

\* onError of a subscription this loop made.
SubscriptionError(s) ==
    /\ ~destroyed
    /\ s \in live
    /\ Event
    /\ attempt' = attempt + 1
    /\ ScheduleAttempt(timers, reconnectTimer, attempt + 1)
    /\ UNCHANGED <<removals, clearTimer, started, unsubscribe, live, online, destroyed>>

SubscriptionAuthError(s) ==
    /\ ~destroyed
    /\ s \in live
    /\ Event
    /\ AuthError(Uncancelled)

\* Mutant of AttemptSucceeds: the previous subscription is forgotten, not ended.
AttemptSucceedsBeside(t) ==
    /\ t \in timers
    /\ ~destroyed
    /\ LET s == CHOOSE n \in 1..(Cardinality(live) + 1) : n \notin live IN
         /\ live' = live \cup {s}
         /\ unsubscribe' = s
    /\ UpdateBanner("connected")
    /\ removals' = removals + 1
    /\ clearTimer' = TRUE
    /\ timers' = timers \ {t}
    /\ reconnectTimer' = None
    /\ attempt' = 0
    /\ UNCHANGED <<started, online, destroyed, events>>

\* A retry timer fires and #subscribeFn returns: #replaceSubscription(), then
\* notifyReconnected().
AttemptSucceeds(t) ==
    /\ t \in timers
    /\ ~destroyed
    /\ LET s == CHOOSE n \in 1..(Cardinality(live) + 1) : n \notin live IN
         /\ live' = (live \ {unsubscribe}) \cup {s}
         /\ unsubscribe' = s
    /\ UpdateBanner("connected")
    /\ removals' = removals + 1
    /\ clearTimer' = TRUE
    /\ timers' = timers \ {t}
    /\ reconnectTimer' = None
    /\ attempt' = 0
    /\ UNCHANGED <<started, online, destroyed, events>>

\* Mutant of AttemptThrows: the attempt is not counted.
AttemptThrowsUncounted(t) ==
    /\ t \in timers
    /\ ~destroyed
    /\ ScheduleAttempt(timers \ {t}, None, attempt)
    /\ UNCHANGED <<attempt, removals, clearTimer, started, unsubscribe, live, online,
                   destroyed, events>>

\* ... or throws: the room is poisoned, or an authentication error.
AttemptThrows(t) ==
    /\ t \in timers
    /\ ~destroyed
    /\ attempt' = attempt + 1
    /\ ScheduleAttempt(timers \ {t}, None, attempt + 1)
    /\ UNCHANGED <<removals, clearTimer, started, unsubscribe, live, online, destroyed,
                   events>>

AttemptThrowsAuth(t) ==
    /\ t \in timers
    /\ ~destroyed
    /\ AuthError(timers \ {t})
    /\ UNCHANGED events

\* A timer whose handle was lost before destroy().
AttemptIgnored(t) ==
    /\ t \in timers
    /\ destroyed
    /\ timers' = timers \ {t}
    /\ reconnectTimer' = None
    /\ UNCHANGED <<state, shown, removals, clearTimer, attempt, started, unsubscribe,
                   live, online, expired, destroyed, events>>

-----------------------------------------------------------------------------
(* The window, the banner's timeout, and the end *)

Offline ==
    /\ ~destroyed
    /\ Event
    /\ online' = FALSE
    /\ UpdateBanner("reconnecting")
    /\ UNCHANGED <<removals, clearTimer, timers, reconnectTimer, attempt, started,
                   unsubscribe, live, destroyed>>

Online ==
    /\ ~destroyed
    /\ Event
    /\ online' = TRUE
    /\ IF state = "reconnecting" /\ started
       THEN SetTimer(Uncancelled)
       ELSE UNCHANGED <<timers, reconnectTimer>>
    /\ UNCHANGED <<state, shown, removals, clearTimer, attempt, started, unsubscribe,
                   live, expired, destroyed>>

BannerTimeout ==
    /\ removals > 0
    /\ removals' = removals - 1
    /\ clearTimer' = FALSE
    /\ shown' = FALSE
    /\ UNCHANGED <<state, timers, reconnectTimer, attempt, started, unsubscribe, live,
                   online, expired, destroyed, events>>

\* destroy(), by the element or by its abort signal.
DestroyReconnector ==
    /\ ~destroyed
    /\ destroyed' = TRUE
    /\ removals' = IF clearTimer THEN removals - 1 ELSE removals
    /\ clearTimer' = FALSE
    /\ timers' = Uncancelled
    /\ reconnectTimer' = None
    /\ live' = live \ {unsubscribe}
    /\ unsubscribe' = None
    /\ shown' = FALSE
    /\ state' = "idle"
    /\ expired' = FALSE
    /\ UNCHANGED <<attempt, started, online, events>>

-----------------------------------------------------------------------------
Attempt(t) ==
    \/ AttemptSucceeds(t)
    \/ AttemptThrows(t)
    \/ AttemptThrowsAuth(t)
    \/ AttemptIgnored(t)

ReconnectorNext ==
    \/ ListError
    \/ ListAuthError
    \/ ReconnectManually
    \/ \E s \in live : SubscriptionError(s) \/ SubscriptionAuthError(s)
    \/ \E t \in timers : Attempt(t)
    \/ Offline
    \/ Online
    \/ BannerTimeout
    \/ DestroyReconnector

\* Timers fire.
ReconnectorFairness ==
    /\ WF_reconnectorVars(\E t \in timers : Attempt(t))
    /\ WF_reconnectorVars(BannerTimeout)

-----------------------------------------------------------------------------
(* Safety *)

\* Every subscription the loop ever made is either ended or the one it can still
\* end: one dropped on the floor would keep reconnecting by itself and deliver
\* every message again, past the widget's end too.
NoOrphanedSubscription == live \subseteq {unsubscribe} \ {None}

(* Liveness *)

\* A started loop comes to a verdict, connected or an alert, however attempts
\* throw and errors overlap; an offline window may leave it waiting.
LoopIsDecided ==
    (timers # {} /\ state = "reconnecting")
        ~> (state \in {"connected", "auth-expired"} \/ ~online \/ destroyed)
=============================================================================
