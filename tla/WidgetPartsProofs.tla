------------------------- MODULE WidgetPartsProofs -------------------------
(***************************************************************************)
(* Proofs about the parts of packages/chat-widget that the run widget_parts*)
(* checks, one section for each; they share no state.                      *)
(***************************************************************************)
EXTENDS MessageRows, MessagePins, WidgetLifecycle, Composer, VoiceRecording, VoicePlayback,
        Ephemera, Reconnector, SharedLemmas

-----------------------------------------------------------------------------
(***************************************************************************)
(* Proofs about Reconnector, for any number of attempts, pending timers    *)
(* and events.                                                             *)
(***************************************************************************)

ReconnectorSpec == ReconnectorInit /\ [][ReconnectorNext]_reconnectorVars

\* A handle in #clearTimer belongs to a pending removal, or destroy() would
\* count one too many.
BannerIsCounted == clearTimer => removals > 0

ReconnectorInv == ReconnectorTypeOK /\ BannerIsCounted /\ NoOrphanedSubscription

\* There is always a number for one more subscription, and it is none yet.
LEMMA FreshSubscription ==
    ASSUME unsubscribe \in Nat, NoOrphanedSubscription
    PROVE  LET s == CHOOSE n \in 1..(Cardinality(live) + 1) : n \notin live
           IN  s \in Nat \ {None} /\ s \notin live
<1>1. CASE live = {}
  <2>1. Cardinality(live) = 0
    BY <1>1, FS_EmptySet
  <2>2. 1 \in 1..(Cardinality(live) + 1) /\ 1 \notin live
    BY <1>1, <2>1
  <2> QED
    BY <2>2, <2>1 DEF None
<1>2. CASE live # {}
  <2>1. live = {unsubscribe} /\ unsubscribe # None
    BY <1>2 DEF NoOrphanedSubscription
  <2>2. Cardinality(live) = 1
    BY <2>1, FS_Singleton
  <2>3. \E n \in 1..(Cardinality(live) + 1) : n \notin live
    <3>1. 1 \in 1..(Cardinality(live) + 1) /\ 2 \in 1..(Cardinality(live) + 1)
      BY <2>2
    <3> QED
      BY <3>1, <2>1
  <2> QED
    BY <2>3, <2>2 DEF None
<1> QED
  BY <1>1, <1>2

\* The two ways a handler ends keep the types of what they write.
LEMMA SetTimerType ==
    ASSUME NEW rest, rest \subseteq TimerIds, SetTimer(rest)
    PROVE  timers' \subseteq TimerIds /\ reconnectTimer' \in TimerIds
<1>1. \E i \in TimerIds \ rest : TRUE
  BY DEF SetTimer
<1> QED
  BY <1>1 DEF SetTimer

LEMMA ScheduleAttemptType ==
    ASSUME NEW rest, rest \subseteq TimerIds,
           NEW handle \in TimerIds \cup {None},
           NEW n, ScheduleAttempt(rest, handle, n)
    PROVE  /\ timers' \subseteq TimerIds /\ reconnectTimer' \in TimerIds \cup {None}
           /\ state' \in States /\ shown' = TRUE /\ expired' = FALSE
<1>1. CASE ShouldGiveUp(n)
  BY <1>1 DEF ScheduleAttempt, UpdateBanner, States
<1>2. CASE ~ShouldGiveUp(n)
  BY <1>2, SetTimerType DEF ScheduleAttempt, UpdateBanner, States
<1> QED
  BY <1>1, <1>2

LEMMA ReconnectorInitInv == ReconnectorInit => ReconnectorInv
<1> SUFFICES ASSUME ReconnectorInit PROVE ReconnectorInv
  OBVIOUS
<1>1. ReconnectorTypeOK
  <2>1. events \in 0..MaxEvents /\ attempt \in Nat /\ removals \in Nat /\ unsubscribe \in Nat
    BY ReconnectorAssumption DEF ReconnectorAssumption, ReconnectorInit, None
  <2> QED
    BY <2>1 DEF ReconnectorInit, ReconnectorTypeOK, States
<1>2. BannerIsCounted /\ NoOrphanedSubscription
  BY Zenon DEF ReconnectorInit, BannerIsCounted, NoOrphanedSubscription
<1> QED
  BY <1>1, <1>2 DEF ReconnectorInv

\* A handler that schedules an attempt leaves the subscription alone.
LEMMA ScheduleInv ==
    ASSUME ReconnectorInv,
           NEW rest, rest \subseteq TimerIds,
           NEW handle \in TimerIds \cup {None},
           NEW n, ScheduleAttempt(rest, handle, n),
           attempt' \in Nat, started' \in BOOLEAN, events' \in 0..MaxEvents,
           UNCHANGED <<removals, clearTimer, unsubscribe, live, online, destroyed>>
    PROVE  ReconnectorInv'
BY ScheduleAttemptType
   DEF ReconnectorInv, ReconnectorTypeOK, BannerIsCounted, NoOrphanedSubscription

\* One that reports the end of the authentication ends it.
LEMMA AuthErrorInv ==
    ASSUME ReconnectorInv,
           NEW rest, rest \subseteq TimerIds, AuthError(rest), events' \in 0..MaxEvents
    PROVE  ReconnectorInv'
BY DEF ReconnectorInv, ReconnectorTypeOK, BannerIsCounted, NoOrphanedSubscription, AuthError,
       NotifyAuthExpired, States, None

LEMMA ReconnectorNextInv == ReconnectorInv /\ [ReconnectorNext]_reconnectorVars => ReconnectorInv'
<1> SUFFICES ASSUME ReconnectorInv, [ReconnectorNext]_reconnectorVars PROVE ReconnectorInv'
  OBVIOUS
<1>0. /\ ReconnectorTypeOK /\ Uncancelled \subseteq TimerIds
      /\ Event => events' \in 0..MaxEvents
  <2>1. events \in 0..MaxEvents /\ MaxEvents \in Nat
    BY ReconnectorAssumption DEF ReconnectorAssumption, ReconnectorInv, ReconnectorTypeOK
  <2>2. Event => events' \in 0..MaxEvents
    BY <2>1 DEF Event
  <2> QED
    BY <2>2 DEF ReconnectorInv, ReconnectorTypeOK, Uncancelled
<1>1. CASE ListError
  BY <1>0, <1>1, ScheduleInv DEF ListError, StartReconnectLoop, ReconnectorTypeOK
<1>2. CASE ListAuthError
  BY <1>0, <1>2, AuthErrorInv DEF ListAuthError
<1>3. CASE ReconnectManually
  BY <1>0, <1>3, ScheduleInv DEF ReconnectManually, StartReconnectLoop, ReconnectorTypeOK
<1>4. ASSUME NEW s \in live, SubscriptionError(s) PROVE ReconnectorInv'
  BY <1>0, <1>4, ScheduleInv DEF SubscriptionError, ReconnectorTypeOK
<1>5. ASSUME NEW s \in live, SubscriptionAuthError(s) PROVE ReconnectorInv'
  BY <1>0, <1>5, AuthErrorInv DEF SubscriptionAuthError
<1>6. ASSUME NEW t \in timers, AttemptSucceeds(t) PROVE ReconnectorInv'
  <2> DEFINE s == CHOOSE n \in 1..(Cardinality(live) + 1) : n \notin live
  <2>1. s \in Nat \ {None} /\ s \notin live
    BY FreshSubscription DEF ReconnectorInv, ReconnectorTypeOK
  <2>2. live' = (live \ {unsubscribe}) \cup {s} /\ unsubscribe' = s
    BY <1>6 DEF AttemptSucceeds
  <2> HIDE DEF s
  <2>3. live' = {s}
    BY <2>2 DEF ReconnectorInv, NoOrphanedSubscription
  <2>4. NoOrphanedSubscription'
    BY <2>1, <2>2, <2>3 DEF NoOrphanedSubscription
  <2>5. ReconnectorTypeOK'
    <3>1. /\ state' = "connected" /\ shown' = TRUE /\ expired' = FALSE
          /\ removals' = removals + 1 /\ clearTimer' = TRUE
          /\ timers' = timers \ {t} /\ reconnectTimer' = None /\ attempt' = 0
          /\ UNCHANGED <<started, online, destroyed, events>>
      BY <1>6, Zenon DEF AttemptSucceeds, UpdateBanner
    <3>2. removals' \in Nat /\ attempt' \in Nat /\ unsubscribe' \in Nat /\ live' \subseteq Nat \ {None}
      BY <1>0, <2>1, <2>2, <2>3, <3>1 DEF ReconnectorTypeOK
    <3>3. timers' \subseteq TimerIds /\ reconnectTimer' \in TimerIds \cup {None}
      BY <1>0, <3>1 DEF ReconnectorTypeOK
    <3> QED
      BY <1>0, <3>1, <3>2, <3>3 DEF ReconnectorTypeOK, States
  <2>6. removals' > 0
    BY <1>0, <1>6 DEF AttemptSucceeds, ReconnectorTypeOK
  <2> QED
    BY <2>4, <2>5, <2>6 DEF ReconnectorInv, BannerIsCounted
<1>7. ASSUME NEW t \in timers, AttemptThrows(t) PROVE ReconnectorInv'
  <2>1. timers \ {t} \subseteq TimerIds
    BY <1>0 DEF ReconnectorTypeOK
  <2> QED
    BY <1>0, <1>7, <2>1, ScheduleInv DEF AttemptThrows, ReconnectorTypeOK
<1>8. ASSUME NEW t \in timers, AttemptThrowsAuth(t) PROVE ReconnectorInv'
  <2>1. timers \ {t} \subseteq TimerIds
    BY <1>0 DEF ReconnectorTypeOK
  <2> QED
    BY <1>0, <1>8, <2>1, AuthErrorInv DEF AttemptThrowsAuth, ReconnectorTypeOK
<1>9. ASSUME NEW t \in timers, AttemptIgnored(t) PROVE ReconnectorInv'
  BY <1>9 DEF AttemptIgnored, ReconnectorInv, ReconnectorTypeOK, BannerIsCounted,
              NoOrphanedSubscription, None
<1>10. CASE Offline
  BY <1>0, <1>10 DEF Offline, UpdateBanner, ReconnectorInv, ReconnectorTypeOK, BannerIsCounted,
               NoOrphanedSubscription, States
<1>11. CASE Online
  <2>1. timers' \subseteq TimerIds /\ reconnectTimer' \in TimerIds \cup {None}
    BY <1>0, <1>11, SetTimerType DEF Online, ReconnectorTypeOK
  <2>2. ReconnectorTypeOK'
    <3>1. /\ online' = TRUE
          /\ UNCHANGED <<state, shown, removals, clearTimer, attempt, started, unsubscribe,
                         live, expired, destroyed>>
          /\ events' \in 0..MaxEvents
      BY <1>0, <1>11, Zenon DEF Online
    <3> QED
      BY <1>0, <2>1, <3>1 DEF ReconnectorTypeOK
  <2>3. BannerIsCounted' /\ NoOrphanedSubscription'
    BY <1>11, Zenon DEF Online, ReconnectorInv, BannerIsCounted, NoOrphanedSubscription
  <2> QED
    BY <2>2, <2>3 DEF ReconnectorInv
<1>12. CASE BannerTimeout
  <2>1. ReconnectorTypeOK'
    <3>1. /\ removals' \in Nat /\ clearTimer' = FALSE /\ shown' = FALSE
          /\ UNCHANGED <<state, timers, reconnectTimer, attempt, started, unsubscribe, live,
                         online, expired, destroyed, events>>
      BY <1>0, <1>12 DEF BannerTimeout, ReconnectorTypeOK
    <3> QED
      BY <1>0, <3>1 DEF ReconnectorTypeOK
  <2>2. BannerIsCounted' /\ NoOrphanedSubscription'
    BY <1>12, Zenon DEF BannerTimeout, ReconnectorInv, BannerIsCounted, NoOrphanedSubscription
  <2> QED
    BY <2>1, <2>2 DEF ReconnectorInv
<1>13. CASE DestroyReconnector
  <2>1. removals' \in Nat
    BY <1>0, <1>13 DEF DestroyReconnector, ReconnectorInv, ReconnectorTypeOK, BannerIsCounted
  <2>2. ReconnectorTypeOK'
    BY <1>0, <1>13, <2>1 DEF DestroyReconnector, ReconnectorTypeOK, States, None
  <2>3. BannerIsCounted' /\ NoOrphanedSubscription'
    BY <1>13, Zenon DEF DestroyReconnector, ReconnectorInv, BannerIsCounted,
                        NoOrphanedSubscription
  <2> QED
    BY <2>2, <2>3 DEF ReconnectorInv
<1>14. CASE UNCHANGED reconnectorVars
  <2>1. ReconnectorTypeOK'
    BY <1>0, <1>14 DEF reconnectorVars, ReconnectorTypeOK
  <2>2. BannerIsCounted' /\ NoOrphanedSubscription'
    BY <1>14, Zenon DEF reconnectorVars, ReconnectorInv, BannerIsCounted,
                        NoOrphanedSubscription
  <2> QED
    BY <2>1, <2>2 DEF ReconnectorInv
<1> QED
  BY <1>1, <1>2, <1>3, <1>4, <1>5, <1>6, <1>7, <1>8, <1>9, <1>10, <1>11, <1>12, <1>13, <1>14
     DEF ReconnectorNext, Attempt

LEMMA AlwaysReconnectorInv == ReconnectorSpec => []ReconnectorInv
BY ReconnectorInitInv, ReconnectorNextInv, PTL DEF ReconnectorSpec

\* The loop's state keeps its types: in particular, no more timeouts of the
\* banner are cleared than were set (notifyReconnected(), destroy()).
THEOREM ReconnectorTypeCorrect == ReconnectorSpec => []ReconnectorTypeOK
BY AlwaysReconnectorInv, PTL DEF ReconnectorInv

\* However errors, window events, overwritten timers and the end of the widget
\* meet, no subscription of the loop is dropped on the floor
\* (#replaceSubscription(), stopReconnectLoop(), destroy()).
THEOREM LoopIsOwned == ReconnectorSpec => []NoOrphanedSubscription
BY AlwaysReconnectorInv, PTL DEF ReconnectorInv

-----------------------------------------------------------------------------
(***************************************************************************)
(* VoicePlayback, for any number of loads.                                 *)
(***************************************************************************)

PlaybackSpec == PlaybackInit /\ [][PlaybackNext]_playbackVars

\* What the promise rests on: an object URL in use is the element's source, a
\* play() that has not settled is one of an element that sounds, and nothing
\* sounds before its load has arrived.
PlaybackInv ==
    /\ PlaybackTypeOK
    /\ PlayerLeavesNothing
    /\ objectUrl = "live" => source = "object"
    /\ playsPending > 0 => sounding
    /\ loading = "pending" => ~sounding

LEMMA PlaybackInitInv == PlaybackInit => PlaybackInv
<1> SUFFICES ASSUME PlaybackInit PROVE PlaybackInv
  OBVIOUS
<1>1. PlaybackTypeOK
  <2>1. {aborted, sounding, playerGone} \subseteq BOOLEAN
    BY DEF PlaybackInit
  <2>2. playsWaiting \in 0..MaxPlays /\ playsPending \in Nat
    BY PlaybackAssumption DEF PlaybackInit
  <2>3. /\ voiceSource \in {"url", "blob", "load"} /\ loading \in {"pending", "ok", "failed"}
        /\ source \in {"none", "plain", "object"} /\ objectUrl \in {"none", "live", "revoked"}
        /\ playerPhase = "idle"
    BY DEF PlaybackInit
  <2> QED
    BY <2>1, <2>2, <2>3 DEF PlaybackTypeOK
<1>2. PlayerLeavesNothing
  BY DEF PlaybackInit, PlayerLeavesNothing
<1>3. /\ objectUrl = "live" => source = "object"
      /\ playsPending > 0 => sounding
      /\ loading = "pending" => ~sounding
  BY DEF PlaybackInit
<1> QED
  BY <1>1, <1>2, <1>3 DEF PlaybackInv

LEMMA PlaybackNextInv == PlaybackInv /\ [PlaybackNext]_playbackVars => PlaybackInv'
<1> SUFFICES ASSUME PlaybackInv, [PlaybackNext]_playbackVars PROVE PlaybackInv'
  OBVIOUS
<1>0. /\ MaxPlays \in Nat /\ playsWaiting \in 0..MaxPlays /\ playsPending \in Nat
      /\ aborted \in BOOLEAN /\ sounding \in BOOLEAN /\ playerGone \in BOOLEAN
      /\ voiceSource \in {"url", "blob", "load"} /\ loading \in {"pending", "ok", "failed"}
      /\ source \in {"none", "plain", "object"} /\ objectUrl \in {"none", "live", "revoked"}
      /\ playerPhase \in {"idle", "playing", "paused", "ended", "error"}
  BY PlaybackAssumption DEF PlaybackInv, PlaybackTypeOK
<1>1. /\ playsWaiting' \in 0..MaxPlays /\ playsPending' \in Nat
      /\ aborted' \in BOOLEAN /\ sounding' \in BOOLEAN /\ playerGone' \in BOOLEAN
  <2> USE DEF PlaybackNext, playbackVars, LoadArrives, LoadFails, Toggle, PlayGoesOn, PlaysSettle,
              AudioEnds, AbortBubble, DestroyPlayer
  <2>1. playsWaiting' \in 0..MaxPlays
    BY <1>0
  <2>2. playsPending' \in Nat
    BY <1>0
  <2>3. aborted' \in BOOLEAN /\ playerGone' \in BOOLEAN
    BY <1>0
  <2>4. sounding' \in BOOLEAN
    BY <1>0
  <2> QED
    BY <2>1, <2>2, <2>3, <2>4
<1>2. /\ voiceSource' \in {"url", "blob", "load"} /\ loading' \in {"pending", "ok", "failed"}
      /\ source' \in {"none", "plain", "object"} /\ objectUrl' \in {"none", "live", "revoked"}
      /\ playerPhase' \in {"idle", "playing", "paused", "ended", "error"}
  BY <1>0 DEF PlaybackNext, playbackVars, LoadArrives, LoadFails, Toggle, PlayGoesOn, PlaysSettle,
              AudioEnds, AbortBubble, DestroyPlayer, Show
<1>3. PlaybackTypeOK'
  BY <1>1, <1>2 DEF PlaybackTypeOK
<1>4. PlayerLeavesNothing'
      /\ (objectUrl' = "live" => source' = "object")
      /\ (playsPending' > 0 => sounding') /\ (loading' = "pending" => ~sounding')
  <2> USE DEF PlaybackInv, PlayerLeavesNothing, Show
  <2>1. CASE LoadArrives
    BY <1>0, <2>1 DEF LoadArrives
  <2>2. CASE LoadFails
    BY <1>0, <2>2 DEF LoadFails
  <2>3. CASE Toggle
    BY <1>0, <2>3 DEF Toggle
  <2>4. CASE PlayGoesOn
    BY <1>0, <2>4 DEF PlayGoesOn
  <2>5. CASE PlaysSettle
    <3>1. /\ playsPending' = 0 /\ loading' = loading /\ source' = source /\ objectUrl' = objectUrl
          /\ playerGone' = playerGone
      BY <2>5 DEF PlaysSettle
    <3>2. CASE sounding' = sounding /\ playerPhase' = playerPhase
      BY <1>0, <3>1, <3>2
    <3>3. CASE sounding' = FALSE
      BY <1>0, <3>1, <3>3
    <3> QED
      BY <2>5, <3>2, <3>3 DEF PlaysSettle
  <2>6. CASE AudioEnds
    BY <1>0, <2>6 DEF AudioEnds
  <2>7. CASE AbortBubble
    BY <1>0, <2>7 DEF AbortBubble
  <2>8. CASE DestroyPlayer
    BY <1>0, <2>8 DEF DestroyPlayer
  <2>9. CASE UNCHANGED playbackVars
    BY <1>0, <2>9 DEF playbackVars
  <2> QED
    BY <2>1, <2>2, <2>3, <2>4, <2>5, <2>6, <2>7, <2>8, <2>9 DEF PlaybackNext
<1> QED
  BY <1>3, <1>4 DEF PlaybackInv

\* A destroyed player is silent and holds no object URL, and one that sounds
\* says so, however many plays are under way and whenever the load answers
\* (createVoicePlayer()'s play(), load continuation and destroy()).
THEOREM PlayerIsQuiet == PlaybackSpec => []PlayerLeavesNothing
<1>1. PlaybackInv => PlayerLeavesNothing
  BY DEF PlaybackInv
<1> QED
  BY <1>1, PlaybackInitInv, PlaybackNextInv, PTL DEF PlaybackSpec

-----------------------------------------------------------------------------
(***************************************************************************)
(* The overlays of the widget, all of them at once.                        *)
(***************************************************************************)

OverlaysNext == TypingNext \/ PresenceNext \/ ReceiptsNext \/ ThreadNext

\* A user who is shown as typing has the one timeout that the handle names.
TypingInv ==
    /\ typing \subseteq Others
    /\ typingTimers \subseteq [user : Others, id : 1..2]
    /\ typingHandle \in [Others -> 0..2]
    /\ \A t \in typingTimers : t.user \in typing /\ typingHandle[t.user] = t.id
    /\ \A u \in Others : u \in typing => [user |-> u, id |-> typingHandle[u]] \in typingTimers

\* maxReadSeq is how far anyone has read, and what the bubbles show.
ReceiptsInv ==
    /\ reads \in [Others -> 0..MaxOwnSeq] /\ maxReadSeq \in 0..MaxOwnSeq
    /\ receipts \in [OwnSeqs -> {"unregistered", "delivered", "read"}]
    /\ overlaysGone \in BOOLEAN
    /\ overlaysGone => \A s \in OwnSeqs : receipts[s] = "unregistered"
    /\ ~overlaysGone =>
        /\ \A u \in Others : reads[u] <= maxReadSeq
        /\ maxReadSeq = 0 \/ \E u \in Others : reads[u] = maxReadSeq
        /\ \A s \in OwnSeqs : receipts[s] # "unregistered" => receipts[s] = Status(s, maxReadSeq)

LEMMA TypingStays ==
    ASSUME TypingInv, UNCHANGED typingVars
    PROVE  TypingInv'
  BY DEF TypingInv, typingVars

LEMMA ReceiptsStay ==
    ASSUME ReceiptsInv, UNCHANGED <<receiptVars, overlaysGone>>
    PROVE  ReceiptsInv'
  BY DEF ReceiptsInv, receiptVars, Status

\* A timeout is set for a user who has none.
LEMMA Armed ==
    ASSUME NEW u \in Others, NEW pending, \A t \in pending : t.user # u, Arm(u, pending)
    PROVE  \E id \in 1..2 : /\ typingTimers' = pending \cup {[user |-> u, id |-> id]}
                            /\ typingHandle' = [typingHandle EXCEPT ![u] = id]
<1> DEFINE t == CHOOSE t \in [user : {u}, id : 1..2] : t \notin pending
<1>1. [user |-> u, id |-> 1] \in [user : {u}, id : 1..2] /\ [user |-> u, id |-> 1] \notin pending
  OBVIOUS
<1>2. t \in [user : {u}, id : 1..2]
  BY <1>1
<1>3. typingTimers' = pending \cup {t} /\ typingHandle' = [typingHandle EXCEPT ![u] = t.id]
  BY DEF Arm
<1> HIDE DEF t
<1>4. t = [user |-> u, id |-> t.id] /\ t.id \in 1..2
  BY <1>2
<1> QED
  BY <1>3, <1>4

LEMMA AddTypingTimed ==
    ASSUME TypingInv, NEW u \in Others, AddTyping(u)
    PROVE  TypingInv'
<1> DEFINE pending == typingTimers \ [user : {u}, id : {typingHandle[u]}]
<1>1. \A t \in pending : t.user # u /\ t \in typingTimers
  BY DEF TypingInv
<1>2. \A t \in typingTimers : t.user # u => t \in pending
  OBVIOUS
<1>3. typing' = typing \cup {u} /\ Arm(u, pending)
  BY DEF AddTyping
<1> HIDE DEF pending
<1>4. PICK id \in 1..2 : /\ typingTimers' = pending \cup {[user |-> u, id |-> id]}
                         /\ typingHandle' = [typingHandle EXCEPT ![u] = id]
  BY <1>1, <1>3, Armed
<1>5. /\ typingHandle' \in [Others -> 0..2] /\ typingHandle'[u] = id
      /\ \A v \in Others : v # u => typingHandle'[v] = typingHandle[v]
  BY <1>4 DEF TypingInv
<1>6. typing' \subseteq Others /\ typingTimers' \subseteq [user : Others, id : 1..2]
  BY <1>1, <1>3, <1>4 DEF TypingInv
<1>7. \A t \in typingTimers' : t.user \in typing' /\ typingHandle'[t.user] = t.id
  <2> SUFFICES ASSUME NEW t \in typingTimers' PROVE t.user \in typing' /\ typingHandle'[t.user] = t.id
    OBVIOUS
  <2>1. CASE t \in pending
    BY <1>1, <1>3, <1>5, <2>1 DEF TypingInv
  <2>2. CASE t = [user |-> u, id |-> id]
    BY <1>3, <1>5, <2>2
  <2> QED
    BY <1>4, <2>1, <2>2
<1>8. \A v \in Others : v \in typing' => [user |-> v, id |-> typingHandle'[v]] \in typingTimers'
  BY <1>2, <1>3, <1>4, <1>5 DEF TypingInv
<1> QED
  BY <1>5, <1>6, <1>7, <1>8 DEF TypingInv

LEMMA TimeoutTimed ==
    ASSUME TypingInv, NEW t \in typingTimers, TypingTimeout(t)
    PROVE  TypingInv'
<1>1. t.user \in Others /\ typingHandle[t.user] = t.id /\ t = [user |-> t.user, id |-> t.id]
  BY DEF TypingInv
<1>2. PICK u \in Others : u = t.user
  BY <1>1
<1>3. /\ typingTimers' = typingTimers \ {t} /\ typing' = typing \ {u}
      /\ typingHandle' = [typingHandle EXCEPT ![u] = 0]
  BY <1>2 DEF TypingTimeout, NoTimeout
<1>4. /\ typingHandle' \in [Others -> 0..2]
      /\ \A v \in Others : v # u => typingHandle'[v] = typingHandle[v]
  BY <1>3 DEF TypingInv
<1>5. \A s \in typingTimers' : s.user # u
  <2> SUFFICES ASSUME NEW s \in typingTimers', s.user = u PROVE FALSE
    OBVIOUS
  <2>1. s \in typingTimers /\ s.id = t.id /\ s = [user |-> s.user, id |-> s.id]
    BY <1>1, <1>2, <1>3 DEF TypingInv
  <2> QED
    BY <1>1, <1>2, <1>3, <2>1
<1>6. \A s \in typingTimers' : s.user \in typing' /\ typingHandle'[s.user] = s.id
  BY <1>3, <1>4, <1>5 DEF TypingInv
<1>7. \A v \in Others : v \in typing' => [user |-> v, id |-> typingHandle'[v]] \in typingTimers'
  BY <1>2, <1>3, <1>4 DEF TypingInv
<1> QED
  BY <1>3, <1>4, <1>6, <1>7 DEF TypingInv

LEMMA RegisterMatches ==
    ASSUME ReceiptsInv, NEW s \in OwnSeqs, RegisterBubble(s)
    PROVE  ReceiptsInv'
<1>1. /\ receipts' = [receipts EXCEPT ![s] = Status(s, maxReadSeq)] /\ ~overlaysGone
      /\ UNCHANGED <<reads, maxReadSeq, overlaysGone>>
  BY DEF RegisterBubble
<1>2. Status(s, maxReadSeq) \in {"delivered", "read"}
  BY DEF Status
<1>3. /\ receipts' \in [OwnSeqs -> {"unregistered", "delivered", "read"}]
      /\ receipts'[s] = Status(s, maxReadSeq) /\ \A q \in OwnSeqs : q # s => receipts'[q] = receipts[q]
  BY <1>1, <1>2 DEF ReceiptsInv
<1>4. \A q \in OwnSeqs : receipts'[q] # "unregistered" => receipts'[q] = Status(q, maxReadSeq)
  BY <1>1, <1>3 DEF ReceiptsInv
<1> QED
  BY <1>1, <1>3, <1>4 DEF ReceiptsInv, Status

LEMMA ReadsMatch ==
    ASSUME ReceiptsInv, NEW u \in Others, NEW seq \in OwnSeqs, OnReadReceipt(u, seq)
    PROVE  ReceiptsInv'
<1>0. MaxOwnSeq \in Nat /\ seq \in 1..MaxOwnSeq
  BY EphemeraAssumption DEF OwnSeqs
<1> DEFINE max == IF seq > maxReadSeq THEN seq ELSE maxReadSeq
<1>1. /\ reads' = [reads EXCEPT ![u] = seq] /\ maxReadSeq' = max /\ ~overlaysGone
      /\ overlaysGone' = overlaysGone
      /\ receipts' = [s \in OwnSeqs |-> IF receipts[s] = "unregistered" THEN receipts[s] ELSE Status(s, max)]
  BY DEF OnReadReceipt
<1>2. /\ reads' \in [Others -> 0..MaxOwnSeq] /\ reads'[u] = seq
      /\ \A v \in Others : v # u => reads'[v] = reads[v]
  BY <1>0, <1>1 DEF ReceiptsInv
<1>3. max \in 0..MaxOwnSeq /\ maxReadSeq <= max /\ seq <= max /\ (max = maxReadSeq \/ max = seq)
  BY <1>0 DEF ReceiptsInv
<1>4. \A v \in Others : reads'[v] <= max
  <2> SUFFICES ASSUME NEW v \in Others PROVE reads'[v] <= max
    OBVIOUS
  <2>1. CASE v = u
    BY <1>2, <1>3, <2>1
  <2>2. CASE v # u
    <3>1. reads'[v] = reads[v] /\ reads[v] <= maxReadSeq /\ reads[v] \in 0..MaxOwnSeq
          /\ maxReadSeq \in 0..MaxOwnSeq
      BY <1>1, <1>2, <2>2 DEF ReceiptsInv
    <3> QED
      BY <1>0, <1>3, <3>1
  <2> QED
    BY <2>1, <2>2
<1>5. max = 0 \/ \E v \in Others : reads'[v] = max
  <2>1. CASE max = seq
    BY <1>2, <2>1
  <2>2. CASE max # seq
    <3>1. max = maxReadSeq /\ seq < max
      BY <1>0, <1>3, <2>2
    <3>2. PICK v \in Others : reads[v] = maxReadSeq
      BY <1>0, <1>1, <3>1 DEF ReceiptsInv
    <3>3. v # u
      BY <1>0, <3>1, <3>2 DEF OnReadReceipt
    <3> QED
      BY <1>2, <3>1, <3>2, <3>3
  <2> QED
    BY <2>1, <2>2
<1> HIDE DEF max
<1>6. /\ receipts' \in [OwnSeqs -> {"unregistered", "delivered", "read"}]
      /\ \A s \in OwnSeqs : receipts'[s] # "unregistered" => receipts'[s] = Status(s, max)
  BY <1>1 DEF ReceiptsInv, Status
<1> QED
  BY <1>1, <1>2, <1>3, <1>4, <1>5, <1>6 DEF ReceiptsInv, Status

LEMMA OverlaysInit == EphemeraInit => TypingInv /\ ReceiptsInv
<1> SUFFICES ASSUME EphemeraInit PROVE TypingInv /\ ReceiptsInv
  OBVIOUS
<1>1. TypingInv
  BY DEF EphemeraInit, TypingInv, NoTimeout
<1>2. /\ 0 \in 0..MaxOwnSeq /\ maxReadSeq = 0 /\ overlaysGone = FALSE
      /\ \A u \in Others : reads[u] = 0
      /\ \A s \in OwnSeqs : receipts[s] = "unregistered"
  BY EphemeraAssumption DEF EphemeraInit
<1>3. reads \in [Others -> 0..MaxOwnSeq]
  BY <1>2 DEF EphemeraInit
<1>4. receipts \in [OwnSeqs -> {"unregistered", "delivered", "read"}]
  BY DEF EphemeraInit
<1>5. overlaysGone \in BOOLEAN
  BY DEF EphemeraInit
<1>6. maxReadSeq \in 0..MaxOwnSeq
  BY <1>2
<1>7. \A u \in Others : reads[u] <= maxReadSeq
  BY <1>2
<1>8. ReceiptsInv
  BY <1>2, <1>3, <1>4, <1>5, <1>6, <1>7 DEF ReceiptsInv
<1> QED
  BY <1>1, <1>8

LEMMA OverlaysStep ==
    ASSUME TypingInv, ReceiptsInv, [OverlaysNext]_ephemeraVars
    PROVE  TypingInv' /\ ReceiptsInv'
<1>1. ASSUME NEW u \in Others, AddTyping(u) PROVE TypingInv' /\ ReceiptsInv'
  BY <1>1, AddTypingTimed, ReceiptsStay DEF AddTyping
<1>2. ASSUME NEW t \in typingTimers, TypingTimeout(t) PROVE TypingInv' /\ ReceiptsInv'
  BY <1>2, TimeoutTimed, ReceiptsStay DEF TypingTimeout
<1>3. ASSUME NEW s \in OwnSeqs, RegisterBubble(s) PROVE TypingInv' /\ ReceiptsInv'
  BY <1>3, RegisterMatches, TypingStays DEF RegisterBubble
<1>4. ASSUME NEW u \in Others, NEW s \in OwnSeqs, OnReadReceipt(u, s) PROVE TypingInv' /\ ReceiptsInv'
  BY <1>4, ReadsMatch, TypingStays DEF OnReadReceipt
<1>5. CASE DestroyOverlays
  <2>1. MaxOwnSeq \in Nat
    BY EphemeraAssumption
  <2> QED
    BY <1>5, <2>1 DEF DestroyOverlays, TypingInv, ReceiptsInv, NoTimeout
<1>6. CASE \/ \E u \in Others : UpdatePresence(u) \/ RegisterAvatar(u)
           \/ Tick \/ SnapshotArrives
  <2>1. UNCHANGED typingVars /\ UNCHANGED <<receiptVars, overlaysGone>>
    BY <1>6 DEF UpdatePresence, RegisterAvatar, Tick, SnapshotArrives
  <2> QED
    BY <2>1, TypingStays, ReceiptsStay
<1>7. CASE \/ \E r \in Threads : OpenThread(r)
           \/ \E l \in loads : RepliesArrive(l) \/ RepliesFail(l)
           \/ CloseThread \/ TypeReply \/ SendReply \/ ReplySettles
  <2>1. UNCHANGED typingVars /\ UNCHANGED <<receiptVars, overlaysGone>>
    BY <1>7 DEF OpenThread, CloseThread, RepliesArrive, RepliesFail, TypeReply, SendReply, ReplySettles
  <2> QED
    BY <2>1, TypingStays, ReceiptsStay
<1>8. CASE UNCHANGED ephemeraVars
  BY <1>8, TypingStays, ReceiptsStay DEF ephemeraVars
<1> QED
  BY <1>1, <1>2, <1>3, <1>4, <1>5, <1>6, <1>7, <1>8
     DEF OverlaysNext, TypingNext, PresenceNext, ReceiptsNext, ThreadNext

LEMMA TimedOnce ==
    ASSUME TypingInv
    PROVE  TypingIsTimed
<1> SUFFICES ASSUME NEW u \in Others
             PROVE  LET mine == {t \in typingTimers : t.user = u} IN
                        /\ u \in typing => Cardinality(mine) = 1
                        /\ u \notin typing => mine = {}
  BY DEF TypingIsTimed
<1>1. CASE u \in typing
  <2> DEFINE t == [user |-> u, id |-> typingHandle[u]]
  <2>1. \A s \in typingTimers : s.user = u => s = t
    BY DEF TypingInv
  <2>2. t \in typingTimers /\ t.user = u
    BY <1>1 DEF TypingInv
  <2>3. {s \in typingTimers : s.user = u} = {t}
    BY <2>1, <2>2
  <2> QED
    BY <1>1, <2>3, FS_Singleton
<1>2. CASE u \notin typing
  BY <1>2 DEF TypingInv
<1> QED
  BY <1>1, <1>2

LEMMA ReceiptsShowReads ==
    ASSUME ReceiptsInv
    PROVE  ReceiptsMatch
<1> SUFFICES ASSUME NEW s \in OwnSeqs, receipts[s] # "unregistered"
             PROVE  receipts[s] = "read" <=> \E u \in Others : reads[u] >= s
  BY DEF ReceiptsMatch
<1>1. /\ ~overlaysGone /\ receipts[s] = Status(s, maxReadSeq)
      /\ \A u \in Others : reads[u] <= maxReadSeq /\ reads[u] \in 0..MaxOwnSeq
      /\ maxReadSeq = 0 \/ \E u \in Others : reads[u] = maxReadSeq
      /\ maxReadSeq \in 0..MaxOwnSeq /\ s \in 1..MaxOwnSeq /\ MaxOwnSeq \in Nat
  BY EphemeraAssumption DEF ReceiptsInv, OwnSeqs
<1>2. receipts[s] = "read" <=> s <= maxReadSeq
  BY <1>1 DEF Status
<1>3. s <= maxReadSeq <=> \E u \in Others : reads[u] >= s
  BY <1>1
<1> QED
  BY <1>2, <1>3

\* OverlaysAreCurrent: a user shown as typing has one timeout ahead, and a
\* bubble says "read" exactly when someone has read that far; whatever the other
\* overlays do meanwhile.
THEOREM OverlaysCurrent == EphemeraInit /\ [][OverlaysNext]_ephemeraVars => []OverlaysAreCurrent
<1>1. TypingInv /\ ReceiptsInv => OverlaysAreCurrent
  BY TimedOnce, ReceiptsShowReads DEF OverlaysAreCurrent
<1> QED
  BY <1>1, OverlaysInit, OverlaysStep, PTL

-----------------------------------------------------------------------------
(***************************************************************************)
(* WidgetLifecycle, for any number of rooms, tokens, bootstraps and abort  *)
(* controllers.                                                            *)
(***************************************************************************)

LifecycleSpec == WidgetInit /\ [][WidgetNext]_widgetVars

Started(b) == boots[b].at # "unused"

LifeTypes ==
    /\ setup \in [mode : {"inline", "iframe"}, anonRead : BOOLEAN, writeMint : BOOLEAN]
    /\ attrs \in Attributes
    /\ initialized \in BOOLEAN /\ scheduled \in BOOLEAN
    /\ controllers \in 0..MaxControllers /\ microtasks \in Nat
    /\ boots \in [Boots -> [at : Stages, controller : 0..MaxControllers, attrs : Attributes]]

\* A controller is that of the bootstraps that were given it, and of no element
\* that was removed.
Controllers ==
    /\ controller = Nobody <=> ~initialized
    /\ initialized => controller \in 0..controllers
    /\ \A b \in Boots : boots[b].controller <= controllers
    /\ scheduled => microtasks > 0

\* The two modes: an iframe is mounted before any mint, and never a chat.
Modes ==
    /\ setup.mode = "inline" => frame = NoFrame
    /\ setup.mode = "iframe" =>
        /\ screen # "chat"
        /\ \A b \in Boots : boots[b].at \in {"unused", "checking", "over"}

\* In an inline widget the bootstraps of the controller have the attributes, and
\* one of them made the list, unless a bootstrap is queued or the attributes are
\* none to show a room with.
ListIsCurrent ==
    setup.mode = "inline" /\ initialized =>
        /\ \A b \in Boots : Started(b) /\ boots[b].controller = controller => boots[b].attrs = attrs
        /\ Configured(attrs) /\ microtasks = 0 /\ screen = "chat" =>
            list \in Boots /\ Started(list) /\ boots[list].controller = controller

LifeInv == LifeTypes /\ Controllers /\ Modes /\ ListIsCurrent /\ TornDownIsBare

LEMMA LifeInit == WidgetInit => LifeInv
<1> SUFFICES ASSUME WidgetInit PROVE LifeInv
  OBVIOUS
<1> USE LifecycleAssumption
<1>1. LifeTypes
  <2>1. boots \in [Boots -> [at : Stages, controller : 0..MaxControllers, attrs : Attributes]]
    BY DEF WidgetInit, Stages, Attributes
  <2>2. /\ setup \in [mode : {"inline", "iframe"}, anonRead : BOOLEAN, writeMint : BOOLEAN]
        /\ attrs \in Attributes
    BY DEF WidgetInit
  <2>3. initialized = FALSE /\ scheduled = FALSE /\ controllers \in 0..MaxControllers /\ microtasks \in Nat
    BY DEF WidgetInit
  <2> QED
    BY <2>1, <2>2, <2>3 DEF LifeTypes
<1>2. initialized = FALSE /\ controller = Nobody /\ scheduled = FALSE /\ controllers = 0
      /\ screen = "bare" /\ frame = NoFrame
      /\ list = Nobody /\ composer = Nobody /\ renewTimer = Nobody
  BY DEF WidgetInit
<1>3. \A b \in Boots : boots[b].controller = 0 /\ boots[b].at = "unused"
  BY DEF WidgetInit
<1> QED
  BY <1>1, <1>2, <1>3 DEF LifeInv, Controllers, Modes, ListIsCurrent, TornDownIsBare

\* What a bootstrap that begins leaves behind.
Begun(b, c, stage) ==
    /\ ~Started(b)
    /\ stage \in Stages \ {"unused"}
    /\ boots' = [boots EXCEPT ![b] = [at |-> stage, controller |-> c, attrs |-> attrs]]
    /\ setup.mode = "inline" => frame' = NoFrame
    /\ setup.mode = "iframe" => stage \in {"checking", "over"} /\ screen' # "chat"
    /\ Configured(attrs) /\ screen' = "chat" => list' = b

LEMMA BeginsSo ==
    ASSUME LifeInv, NEW b \in Boots, NEW c, NEW timer, Begin(b, c, timer)
    PROVE  \E stage : Begun(b, c, stage)
<1>1. CASE ~Configured(attrs)
  <2>1. Begun(b, c, "over")
    BY <1>1 DEF Begin, Begun, LifeInv, LifeTypes, Modes, Started, Stages
  <2> QED
    BY <2>1
<1>2. CASE Configured(attrs)
  <2> DEFINE built   == setup.anonRead /\ setup.mode = "inline" /\ attrs.jwt # Nobody
                        /\ ~setup.writeMint
             mounted == setup.anonRead /\ setup.mode = "iframe"
             stage == CASE built -> "listing"
                        [] mounted -> "over"
                        [] ~setup.anonRead -> "checking"
                        [] setup.anonRead /\ ~mounted /\ attrs.jwt = Nobody -> "minting"
                        [] OTHER -> "writeMinting"
  <2>1. /\ boots' = [boots EXCEPT ![b] = [at |-> stage, controller |-> c, attrs |-> attrs]]
        /\ frame' = IF mounted THEN [NoFrame EXCEPT !.by = b] ELSE NoFrame
        /\ list' = IF built THEN b ELSE Nobody
        /\ screen' = CASE built -> "chat" [] mounted -> "iframe" [] OTHER -> "loading"
        /\ ~Started(b)
    BY <1>2 DEF Begin, Started
  <2>0. setup.mode \in {"inline", "iframe"} /\ setup.anonRead \in BOOLEAN /\ setup.writeMint \in BOOLEAN
    BY DEF LifeInv, LifeTypes
  <2>2. /\ stage \in {"listing", "over", "checking", "minting", "writeMinting"}
        /\ setup.mode = "iframe" => stage \in {"checking", "over"}
    <3>1. CASE built
      <4>1. stage = "listing" /\ setup.mode = "inline"
        BY <3>1
      <4> QED
        BY <4>1
    <3>2. CASE ~built /\ mounted
      <4>1. stage = "over"
        BY <3>2
      <4> QED
        BY <4>1
    <3>3. CASE ~built /\ ~mounted /\ ~setup.anonRead
      <4>1. stage = "checking"
        BY <3>3
      <4> QED
        BY <4>1
    <3>4. CASE ~built /\ ~mounted /\ setup.anonRead
      <4>1. setup.mode # "iframe"
        BY <2>0, <3>4
      <4>2. stage \in {"minting", "writeMinting"}
        BY <3>4
      <4> QED
        BY <4>1, <4>2
    <3> QED
      BY <3>1, <3>2, <3>3, <3>4
  <2>3. screen' = "chat" => built
    BY <2>1
  <2>4. setup.mode = "inline" => ~mounted
    OBVIOUS
  <2> HIDE DEF stage
  <2>5. Begun(b, c, stage)
    BY <2>1, <2>2, <2>3, <2>4 DEF Begun, Stages
  <2> QED
    BY <2>5
<1> QED
  BY <1>1, <1>2

\* A bootstrap begins, with a controller of its own or with the one there is.
LEMMA BeginKeeps ==
    ASSUME LifeInv, NEW b \in Boots, NEW c \in 0..MaxControllers, NEW timer, Begin(b, c, timer),
           c = controller' /\ initialized' = TRUE,
           \/ c = controllers + 1 /\ controllers' = c
           \/ c = controller /\ c <= controllers /\ controllers' = controllers /\ initialized,
           UNCHANGED <<setup, attrs>>, scheduled' \in BOOLEAN, microtasks' \in Nat,
           scheduled' => microtasks' > 0
    PROVE  LifeInv'
<1> USE LifecycleAssumption
<1>1. PICK stage : Begun(b, c, stage)
  BY BeginsSo
<1>2. /\ boots'[b] = [at |-> stage, controller |-> c, attrs |-> attrs]
      /\ \A x \in Boots : x # b => boots'[x] = boots[x]
      /\ boots' \in [Boots -> [at : Stages, controller : 0..MaxControllers, attrs : Attributes]]
  BY <1>1 DEF Begun, LifeInv, LifeTypes
<1>3. controllers' \in 0..MaxControllers /\ controllers <= controllers' /\ c <= controllers'
  BY DEF LifeInv, LifeTypes
<1>4. LifeTypes'
  BY <1>2, <1>3 DEF LifeInv, LifeTypes
<1>5. Controllers'
  <2>1. \A x \in Boots : boots'[x].controller <= controllers'
    <3> TAKE x \in Boots
    <3>1. boots[x].controller <= controllers /\ boots[x].controller \in 0..MaxControllers
          /\ controllers \in 0..MaxControllers
      BY DEF LifeInv, LifeTypes, Controllers
    <3> QED
      BY <1>2, <1>3, <3>1
  <2> QED
    BY <2>1 DEF Controllers
<1>6. Modes'
  BY <1>1, <1>2 DEF Begun, LifeInv, Modes, LifeTypes
<1>7. ListIsCurrent'
  <2>1. ASSUME NEW x \in Boots, boots'[x].at # "unused", boots'[x].controller = controller', x # b,
               setup.mode = "inline"
        PROVE  boots'[x].attrs = attrs'
    <3>1. boots[x].controller <= controllers /\ boots[x].controller \in 0..MaxControllers
          /\ controllers \in 0..MaxControllers
      BY DEF LifeInv, LifeTypes, Controllers
    <3>2. c = controller /\ initialized
      BY <1>2, <2>1, <3>1
    <3> QED
      BY <1>2, <2>1, <3>2 DEF LifeInv, ListIsCurrent, Started
  <2>2. boots'[b].at # "unused" /\ boots'[b].controller = controller' /\ boots'[b].attrs = attrs'
    BY <1>1, <1>2 DEF Begun
  <2>3. Configured(attrs)' = Configured(attrs)
    BY DEF Configured
  <2>4. Configured(attrs) /\ screen' = "chat" => list' = b
    BY <1>1 DEF Begun
  <2> QED
    BY <2>1, <2>2, <2>3, <2>4 DEF ListIsCurrent, Started
<1>8. TornDownIsBare'
  BY DEF TornDownIsBare
<1> QED
  BY <1>4, <1>5, <1>6, <1>7, <1>8 DEF LifeInv

\* A bootstrap goes on, shows what it has got, or ends.
LEMMA MoveKeeps ==
    ASSUME LifeInv, NEW b \in Boots, Started(b), NEW stage \in Stages \ {"unused"}, MoveTo(b, stage),
           OutsideUnchanged,
           setup.mode = "iframe" => stage = "over",
           setup.mode = "inline" => UNCHANGED frame,
           \/ UNCHANGED <<screen, list>>
           \/ screen' \in {"error", "iframe"}
           \/ screen' = "chat" /\ list' = b /\ ~Aborted(b) /\ setup.mode = "inline",
           initialized \/ UNCHANGED <<screen, list, composer, renewTimer, frame>>
    PROVE  LifeInv'
<1>1. /\ boots' \in [Boots -> [at : Stages, controller : 0..MaxControllers, attrs : Attributes]]
      /\ boots'[b].at = stage
      /\ \A x \in Boots : x # b => boots'[x] = boots[x]
      /\ \A x \in Boots : /\ boots'[x].controller = boots[x].controller
                          /\ boots'[x].attrs = boots[x].attrs
                          /\ boots'[x].at # "unused" <=> Started(x)
  BY DEF MoveTo, LifeInv, LifeTypes, Started
<1>2. UNCHANGED <<setup, attrs, attached, initialized, controller, controllers, scheduled, microtasks>>
  BY DEF OutsideUnchanged
<1>3. LifeTypes'
  BY <1>1, <1>2 DEF LifeInv, LifeTypes
<1>4. Controllers'
  BY <1>1, <1>2 DEF LifeInv, Controllers
<1>5. Modes'
  BY <1>1, <1>2 DEF LifeInv, LifeTypes, Modes
<1>6. ListIsCurrent'
  <2>1. Configured(attrs)' = Configured(attrs)
    BY <1>2 DEF Configured
  <2> QED
    BY <1>1, <1>2, <2>1 DEF LifeInv, ListIsCurrent, Started, Aborted
<1>7. TornDownIsBare'
  BY <1>2 DEF LifeInv, TornDownIsBare
<1> QED
  BY <1>3, <1>4, <1>5, <1>6, <1>7 DEF LifeInv

\* Only a bootstrap of a live element goes on.
LEMMA LiveOnly ==
    ASSUME LifeInv, NEW b \in Boots
    PROVE  ~Aborted(b) => initialized
  BY LifecycleAssumption DEF LifeInv, LifeTypes, Controllers, Aborted

LEMMA ModeIs ==
    ASSUME LifeInv
    PROVE  /\ setup.mode \in {"inline", "iframe"}
           /\ \A b \in Boots : boots[b].at \in {"minting", "writeMinting", "listing", "outbox"}
                => setup.mode = "inline"
  BY DEF LifeInv, LifeTypes, Modes

LEMMA DropKeeps ==
    ASSUME LifeInv, NEW b \in Boots, Started(b), Drop(b), OutsideUnchanged
    PROVE  LifeInv'
<1>1. MoveTo(b, "over") /\ UNCHANGED uiVars /\ "over" \in Stages \ {"unused"}
  BY DEF Drop, Stages
<1>2. /\ UNCHANGED <<screen, list>> /\ UNCHANGED frame
      /\ UNCHANGED <<screen, list, composer, renewTimer, frame>>
  BY <1>1 DEF uiVars
<1> QED
  BY <1>1, <1>2, MoveKeeps

LEMMA ErrorKeeps ==
    ASSUME LifeInv, NEW b \in Boots, Started(b), ~Aborted(b), ShowError(b), OutsideUnchanged
    PROVE  LifeInv'
<1>1. MoveTo(b, "over") /\ UNCHANGED frame /\ screen' \in {"error", "iframe"}
      /\ "over" \in Stages \ {"unused"}
  BY DEF ShowError, Stages
<1>2. initialized
  BY LiveOnly
<1> QED
  BY <1>1, <1>2, MoveKeeps

LEMMA BuildKeeps ==
    ASSUME LifeInv, NEW b \in Boots, Started(b), ~Aborted(b), Build(b), OutsideUnchanged,
           setup.mode = "inline"
    PROVE  LifeInv'
<1>1. MoveTo(b, "listing") /\ UNCHANGED frame /\ screen' = "chat" /\ list' = b
      /\ "listing" \in Stages \ {"unused"}
  BY DEF Build, Stages
<1>2. initialized
  BY LiveOnly
<1> QED
  BY <1>1, <1>2, MoveKeeps

LEMMA ReadTokenKeeps ==
    ASSUME LifeInv, NEW b \in Boots, Started(b), ~Aborted(b), AfterReadToken(b), OutsideUnchanged,
           setup.mode = "inline"
    PROVE  LifeInv'
<1>1. CASE setup.writeMint
  <2>1. MoveTo(b, "writeMinting") /\ UNCHANGED frame /\ UNCHANGED <<screen, list>>
        /\ "writeMinting" \in Stages \ {"unused"}
    BY <1>1 DEF AfterReadToken, Stages
  <2>2. initialized
    BY LiveOnly
  <2> QED
    BY <2>1, <2>2, MoveKeeps
<1>2. CASE ~setup.writeMint
  BY <1>2, BuildKeeps DEF AfterReadToken
<1> QED
  BY <1>1, <1>2

LEMMA BootKeeps ==
    ASSUME LifeInv, NEW b \in Boots,
           OriginChecked(b) \/ ReadTokenMinted(b) \/ WriteTokenMinted(b) \/ ListMounted(b) \/ OutboxRead(b)
    PROVE  LifeInv'
<1>1. CASE OriginChecked(b)
  <2>1. Started(b) /\ OutsideUnchanged
    BY <1>1 DEF OriginChecked, Started
  <2>2. CASE Aborted(b)
    BY <1>1, <2>1, <2>2, DropKeeps DEF OriginChecked
  <2>3. CASE ~Aborted(b) /\ ShowError(b)
    BY <2>1, <2>3, ErrorKeeps
  <2>4. CASE ~Aborted(b) /\ setup.mode = "iframe" /\ MountIframe(b)
    <3>1. MoveTo(b, "over") /\ screen' \in {"error", "iframe"} /\ "over" \in Stages \ {"unused"}
      BY <2>4 DEF MountIframe, Stages
    <3>2. initialized
      BY <2>4, LiveOnly
    <3> QED
      BY <2>1, <2>4, <3>1, <3>2, MoveKeeps
  <2>5. CASE ~Aborted(b) /\ setup.mode = "inline" /\ AfterReadToken(b)
    BY <2>1, <2>5, ReadTokenKeeps
  <2> QED
    BY <1>1, <2>2, <2>3, <2>4, <2>5 DEF OriginChecked
<1>2. CASE ReadTokenMinted(b)
  <2>1. Started(b) /\ OutsideUnchanged /\ setup.mode = "inline"
    BY <1>2, ModeIs DEF ReadTokenMinted, Started
  <2> QED
    BY <1>2, <2>1, DropKeeps, ErrorKeeps, ReadTokenKeeps DEF ReadTokenMinted
<1>3. CASE WriteTokenMinted(b)
  <2>1. Started(b) /\ OutsideUnchanged /\ setup.mode = "inline"
    BY <1>3, ModeIs DEF WriteTokenMinted, Started
  <2> QED
    BY <1>3, <2>1, DropKeeps, ErrorKeeps, BuildKeeps DEF WriteTokenMinted
<1>4. CASE ListMounted(b)
  <2>1. Started(b) /\ OutsideUnchanged /\ setup.mode = "inline"
    BY <1>4, ModeIs DEF ListMounted, Started
  <2>2. CASE Aborted(b)
    BY <1>4, <2>1, <2>2, DropKeeps DEF ListMounted
  <2>3. CASE ~Aborted(b)
    <3>1. UNCHANGED <<screen, list>> /\ UNCHANGED frame /\ initialized
      BY <1>4, <2>3, LiveOnly DEF ListMounted
    <3>2. MoveTo(b, "outbox") \/ MoveTo(b, "over")
      BY <1>4, <2>3 DEF ListMounted
    <3>3. "outbox" \in Stages \ {"unused"} /\ "over" \in Stages \ {"unused"}
      BY DEF Stages
    <3> QED
      BY <2>1, <3>1, <3>2, <3>3, MoveKeeps
  <2> QED
    BY <2>2, <2>3
<1>5. CASE OutboxRead(b)
  <2>1. Started(b) /\ OutsideUnchanged /\ setup.mode = "inline"
    BY <1>5, ModeIs DEF OutboxRead, Started
  <2>2. /\ UNCHANGED <<screen, list>> /\ UNCHANGED frame /\ MoveTo(b, "over")
        /\ UNCHANGED <<screen, list, composer, renewTimer, frame>>
    BY <1>5 DEF OutboxRead
  <2>3. "over" \in Stages \ {"unused"}
    BY DEF Stages
  <2> QED
    BY <2>1, <2>2, <2>3, MoveKeeps
<1> QED
  BY <1>1, <1>2, <1>3, <1>4, <1>5

LEMMA TearDownKeeps ==
    ASSUME LifeInv, TearDown
    PROVE  LifeInv'
<1>1. LifeTypes'
  BY DEF TearDown, LifeInv, LifeTypes
<1>2. Controllers'
  BY DEF TearDown, LifeInv, Controllers
<1>3. Modes' /\ ListIsCurrent' /\ TornDownIsBare'
  BY DEF TearDown, LifeInv, Modes, ListIsCurrent, TornDownIsBare
<1> QED
  BY <1>1, <1>2, <1>3 DEF LifeInv

\* New attributes, and a bootstrap queued for them if the element is live.
LEMMA RescheduleKeeps ==
    ASSUME LifeInv, attrs' \in Attributes,
           IF initialized THEN Reschedule
           ELSE UNCHANGED <<initialized, controller, controllers, scheduled, microtasks>>,
           UNCHANGED <<setup, boots, uiVars>>
    PROVE  LifeInv'
<1> USE LifecycleAssumption
<1>1. CASE ~initialized
  BY <1>1 DEF LifeInv, LifeTypes, Controllers, Modes, ListIsCurrent, TornDownIsBare, uiVars
<1>2. CASE initialized
  <2>1. /\ controllers' = controllers + 1 /\ controller' = controllers + 1
        /\ controllers \in 0..MaxControllers /\ controllers' \in 0..MaxControllers
        /\ initialized' = TRUE /\ scheduled' = TRUE
        /\ microtasks' = (IF scheduled THEN microtasks ELSE microtasks + 1) /\ microtasks \in Nat
    BY <1>2 DEF Reschedule, NewController, LifeInv, LifeTypes
  <2>2. microtasks' \in Nat /\ microtasks' > 0
    BY <2>1 DEF LifeInv, Controllers
  <2>3. LifeTypes'
    BY <2>1, <2>2 DEF LifeInv, LifeTypes
  <2>4. \A b \in Boots : boots[b].controller \in 0..MaxControllers /\ boots[b].controller <= controllers
    BY DEF LifeInv, LifeTypes, Controllers
  <2>5. \A b \in Boots : boots'[b].controller <= controllers' /\ boots'[b].controller # controller'
    BY <2>1, <2>4
  <2>6. Controllers'
    BY <2>1, <2>2, <2>5 DEF Controllers
  <2>7. Modes' /\ TornDownIsBare'
    BY <2>1 DEF LifeInv, Modes, TornDownIsBare, uiVars
  <2>8. ListIsCurrent'
    BY <2>2, <2>5 DEF ListIsCurrent
  <2> QED
    BY <2>3, <2>6, <2>7, <2>8 DEF LifeInv
<1> QED
  BY <1>1, <1>2

\* A bootstrap that begins with a controller of its own.
LEMMA FreshKeeps ==
    ASSUME LifeInv, NewController, NEW b \in Boots, NEW timer, Begin(b, controllers + 1, timer),
           initialized' = TRUE, UNCHANGED <<setup, attrs, scheduled, microtasks>>
    PROVE  LifeInv'
<1>1. controllers + 1 \in 0..MaxControllers
  BY LifecycleAssumption DEF NewController, LifeInv, LifeTypes
<1>2. scheduled' \in BOOLEAN /\ microtasks' \in Nat /\ (scheduled' => microtasks' > 0)
  BY DEF LifeInv, LifeTypes, Controllers
<1> QED
  BY <1>1, <1>2, BeginKeeps DEF NewController

LEMMA RefreshKeeps ==
    ASSUME LifeInv, NEW t \in Tokens, RefreshToken(t)
    PROVE  LifeInv'
<1> DEFINE new == [attrs EXCEPT !.jwt = t]
<1>1. new \in Attributes
  BY DEF LifeInv, LifeTypes, Attributes
<1> HIDE DEF new
<1>2. CASE frame.by # Nobody /\ ~scheduled /\ Configured(attrs)
  <2>1. setup.mode = "iframe"
    BY <1>2, ModeIs DEF LifeInv, Modes, NoFrame
  <2>2. initialized
    BY <1>2 DEF LifeInv, TornDownIsBare, NoFrame
  <2>3. /\ attrs' = new
        /\ UNCHANGED <<setup, initialized, controller, controllers, scheduled, microtasks, boots, screen, list>>
    BY <1>2 DEF RefreshToken, new
  <2> QED
    BY <1>1, <2>1, <2>2, <2>3 DEF LifeInv, LifeTypes, Controllers, Modes, ListIsCurrent, TornDownIsBare
<1>3. CASE ~(frame.by # Nobody /\ ~scheduled /\ Configured(attrs)) /\ attrs.jwt # t
  BY <1>1, <1>3, RescheduleKeeps DEF RefreshToken, new
<1>4. CASE ~(frame.by # Nobody /\ ~scheduled /\ Configured(attrs)) /\ attrs.jwt = t
  BY <1>4, FreshKeeps DEF RefreshToken
<1> QED
  BY <1>2, <1>3, <1>4

LEMMA FrameKeeps ==
    ASSUME LifeInv, FrameLoads
    PROVE  LifeInv'
<1>1. setup.mode = "iframe"
  BY ModeIs DEF FrameLoads, LifeInv, Modes, NoFrame
<1>2. initialized
  BY DEF FrameLoads, LifeInv, TornDownIsBare, NoFrame
<1>3. UNCHANGED <<setup, attrs, initialized, controller, controllers, scheduled, microtasks, boots, screen, list>>
  BY DEF FrameLoads, OutsideUnchanged
<1> QED
  BY <1>1, <1>2, <1>3 DEF LifeInv, LifeTypes, Controllers, Modes, ListIsCurrent, TornDownIsBare

LEMMA LifeStep ==
    ASSUME LifeInv, [WidgetNext]_widgetVars
    PROVE  LifeInv'
<1>1. ASSUME NEW b \in Boots,
             OriginChecked(b) \/ ReadTokenMinted(b) \/ WriteTokenMinted(b) \/ ListMounted(b) \/ OutboxRead(b)
      PROVE  LifeInv'
  BY <1>1, BootKeeps
<1>2. CASE ConnectedCallback
  <2>1. CASE initialized
    <3>1. UNCHANGED <<setup, attrs, initialized, controller, controllers, scheduled, microtasks, boots, uiVars>>
      BY <1>2, <2>1 DEF ConnectedCallback
    <3> QED
      BY <3>1 DEF LifeInv, LifeTypes, Controllers, Modes, ListIsCurrent, TornDownIsBare, Started,
                  Configured, uiVars
  <2>2. CASE ~initialized
    BY <1>2, <2>2, FreshKeeps DEF ConnectedCallback
  <2> QED
    BY <2>1, <2>2
<1>3. CASE DisconnectedCallback \/ DestroyElement
  BY <1>3, TearDownKeeps DEF DisconnectedCallback, DestroyElement
<1>4. CASE AttributeChanged
  BY <1>4, RescheduleKeeps DEF AttributeChanged
<1>5. CASE RunMicrotask
  <2>1. microtasks' \in Nat /\ scheduled' = FALSE /\ scheduled' \in BOOLEAN
    <3>1. microtasks \in Nat /\ microtasks > 0 /\ microtasks' = microtasks - 1 /\ scheduled' = FALSE
      BY <1>5 DEF RunMicrotask, LifeInv, LifeTypes
    <3>2. microtasks' \in Nat
      BY <3>1
    <3>3. scheduled' \in BOOLEAN
      BY <3>1
    <3> QED
      BY <3>1, <3>2, <3>3
  <2>2. CASE controller = Nobody
    BY <1>5, <2>1, <2>2
       DEF RunMicrotask, LifeInv, LifeTypes, Controllers, Modes, ListIsCurrent, TornDownIsBare, uiVars
  <2>3. CASE controller # Nobody
    <3>1. PICK b \in Boots : Begin(b, controller, renewTimer)
      BY <1>5, <2>3 DEF RunMicrotask
    <3>2. initialized /\ controller \in 0..controllers /\ controllers \in 0..MaxControllers
      BY <2>3 DEF LifeInv, Controllers, LifeTypes
    <3>3. UNCHANGED <<setup, attrs, initialized, controller, controllers>>
      BY <1>5 DEF RunMicrotask
    <3>4. controller <= controllers /\ controller \in 0..MaxControllers
      BY <3>2, LifecycleAssumption
    <3> QED
      BY <2>1, <3>1, <3>2, <3>3, <3>4, BeginKeeps
  <2> QED
    BY <2>2, <2>3
<1>6. CASE RenewTimerFires
  BY <1>6, FreshKeeps DEF RenewTimerFires
<1>7. ASSUME NEW t \in Tokens, RefreshToken(t)
      PROVE  LifeInv'
  BY <1>7, RefreshKeeps
<1>8. CASE FrameLoads
  BY <1>8, FrameKeeps
<1>9. CASE UNCHANGED widgetVars
  BY <1>9 DEF LifeInv, LifeTypes, Controllers, Modes, ListIsCurrent, TornDownIsBare, Started,
              Configured, widgetVars, uiVars
<1> QED
  BY <1>1, <1>2, <1>3, <1>4, <1>5, <1>6, <1>7, <1>8, <1>9 DEF WidgetNext

LEMMA AlwaysLifeInv == LifecycleSpec => []LifeInv
<1>1. WidgetInit => LifeInv
  BY LifeInit
<1>2. LifeInv /\ [WidgetNext]_widgetVars => LifeInv'
  BY LifeStep
<1> QED
  BY <1>1, <1>2, PTL DEF LifecycleSpec

LEMMA CurrentIsShown ==
    ASSUME LifeInv
    PROVE  ScreenFollowsElement
<1> SUFFICES ASSUME initialized, Quiet, Configured(attrs), screen = "chat"
             PROVE  list # Nobody /\ boots[list].attrs = attrs
  BY DEF ScreenFollowsElement, ShowsWhatIsAsked, LifeInv
<1>1. setup.mode = "inline"
  BY ModeIs DEF LifeInv, Modes
<1>2. list \in Boots /\ Started(list) /\ boots[list].controller = controller
  BY <1>1 DEF LifeInv, ListIsCurrent, Quiet
<1>3. list # Nobody
  BY <1>2, LifecycleAssumption
<1> QED
  BY <1>1, <1>2, <1>3 DEF LifeInv, ListIsCurrent

\* What the element shows and holds is what it has last been told
\* (ScreenFollowsElement): a bootstrap that has a controller of its own was
\* given the attributes of the moment, and whatever changes them takes its
\* controller away in the same step, or finds an iframe, which is never a chat.
THEOREM ScreenIsCurrent == LifecycleSpec => []ScreenFollowsElement
<1>1. LifeInv => ScreenFollowsElement
  BY CurrentIsShown
<1> QED
  BY <1>1, AlwaysLifeInv, PTL

\* A step that moves a started bootstrap is a step of that bootstrap.
LEMMA MovesOwn ==
    ASSUME LifeInv, WidgetNext, NEW b \in Boots, Started(b), boots'[b].at # boots[b].at
    PROVE  OriginChecked(b) \/ ReadTokenMinted(b) \/ WriteTokenMinted(b) \/ ListMounted(b) \/ OutboxRead(b)
<1>1. ASSUME NEW x \in Boots, NEW c, NEW timer, Begin(x, c, timer)
      PROVE  FALSE
  <2>1. PICK stage : Begun(x, c, stage)
    BY <1>1, BeginsSo
  <2> QED
    BY <2>1 DEF Begun, LifeInv, LifeTypes
<1>2. boots' # boots
  OBVIOUS
<1>3. ASSUME NEW x \in Boots, NEW stage, MoveTo(x, stage)
      PROVE  x = b
  BY <1>3 DEF MoveTo, LifeInv, LifeTypes
<1>4. ASSUME NEW x \in Boots,
             OriginChecked(x) \/ ReadTokenMinted(x) \/ WriteTokenMinted(x) \/ ListMounted(x) \/ OutboxRead(x)
      PROVE  \E stage : MoveTo(x, stage)
  BY <1>4 DEF OriginChecked, ReadTokenMinted, WriteTokenMinted, ListMounted, OutboxRead, Drop,
              ShowError, MountIframe, AfterReadToken, Build
<1>5. ~ConnectedCallback
  BY <1>1, <1>2 DEF ConnectedCallback
<1>6. ~DisconnectedCallback /\ ~DestroyElement
  BY <1>2 DEF DisconnectedCallback, DestroyElement, TearDown
<1>7. ~AttributeChanged
  BY <1>2 DEF AttributeChanged
<1>8. ~RunMicrotask
  BY <1>1, <1>2 DEF RunMicrotask
<1>9. ~RenewTimerFires
  BY <1>1 DEF RenewTimerFires
<1>10. \A t \in Tokens : ~RefreshToken(t)
  BY <1>1, <1>2 DEF RefreshToken
<1>11. ~FrameLoads
  BY <1>2 DEF FrameLoads
<1> QED
  BY <1>3, <1>4, <1>5, <1>6, <1>7, <1>8, <1>9, <1>10, <1>11 DEF WidgetNext

\* An aborted bootstrap ends without a trace, but for its last request
\* (AbortedIsMute): no step of the element moves a bootstrap under way, and each
\* of a bootstrap's own steps looks at its signal first.
THEOREM AbortedStayMute == LifecycleSpec => AbortedIsMute
<1>1. LifeInv /\ [WidgetNext]_widgetVars => [Mute(Stages \ {"unused", "outbox"})]_widgetVars
  <2> SUFFICES ASSUME LifeInv, WidgetNext, NEW b \in Boots, boots[b].at \in Stages \ {"unused", "outbox"},
                      boots'[b].at # boots[b].at, Aborted(b)
               PROVE  UNCHANGED uiVars
    BY DEF Mute
  <2>1. OriginChecked(b) \/ ReadTokenMinted(b) \/ WriteTokenMinted(b) \/ ListMounted(b) \/ OutboxRead(b)
    BY MovesOwn DEF Started
  <2> QED
    BY <2>1 DEF OriginChecked, ReadTokenMinted, WriteTokenMinted, ListMounted, OutboxRead, Drop
<1> QED
  BY <1>1, AlwaysLifeInv, PTL DEF LifecycleSpec, AbortedIsMute

-----------------------------------------------------------------------------
(***************************************************************************)
(* MessagePins, for any number of messages and events on their way.        *)
(***************************************************************************)

PinsSpec == PinsInit /\ [][PinsNext]_pinVars

Server(m) == m \in ToSet(pins)
OnItsWay(m) == \E i \in DOMAIN pinEvents : pinEvents[i].msg = m

\* What the last event of a message says is what the server has.
EventsFollow ==
    \A i \in DOMAIN pinEvents :
        (\A j \in DOMAIN pinEvents : i < j => pinEvents[j].msg # pinEvents[i].msg)
            => (pinEvents[i].op = "pin" <=> Server(pinEvents[i].msg))

\* Before the first list is in, whatever is shown is shown by both.
Early(m) ==
    LET t == toggles[m] IN
    /\ t.stage = "idle" \/ t.touched => (m \in pressed => Server(m))
    /\ t.stage = "asked" /\ ~t.touched => (t.was => Server(m))
    /\ t.stage = "applied" /\ ~t.touched => ~t.was /\ Server(m)

Late(m) ==
    LET t == toggles[m] IN
    /\ t.stage = "asked" /\ ~t.touched => (t.was <=> Server(m))
    /\ t.stage = "applied" => t.touched
    /\ t.stage = "idle" \/ t.touched => (Pinned(m) <=> Server(m))
    /\ t.stage = "idle" \/ t.touched =>
        (m \in pressed <=> Server(m)) \/ (t.stage = "asked" /\ ~t.was /\ m \in pressed)

Follows(m) ==
    /\ listing.stage = "taken" => (m \in ToSet(listing.taken) <=> Server(m))
    /\ listing.stage # "done" => Early(m)
    /\ listing.stage = "done" => Late(m)

Carousel ==
    /\ IsInjective(banner) /\ IsInjective(listing.taken)
    /\ IF banner = <<>> THEN pinIndex = 0 ELSE pinIndex < Len(banner)

PinsInv ==
    /\ PinsTypeOK
    /\ Carousel
    /\ EventsFollow
    /\ listing.stage # "done" => \A m \in Pinnable : Pinned(m) <=> m \in pressed
    /\ ~bannerGone => \A m \in Pinnable \ unsure : ~OnItsWay(m) => Follows(m)

-----------------------------------------------------------------------------
(* Lists of messages *)

LEMMA WithoutIt ==
    ASSUME NEW s \in Seq(Pinnable), NEW m
    PROVE  /\ Without(s, m) \in Seq(Pinnable)
           /\ ToSet(Without(s, m)) = ToSet(s) \ {m}
           /\ IsInjective(s) => IsInjective(Without(s, m))
           /\ m \notin ToSet(s) => Len(Without(s, m)) = Len(s)
<1> DEFINE keep == {i \in DOMAIN s : s[i] # m}
           n == Cardinality(keep)
           w == Kept(s, keep)
<1>0. keep \subseteq DOMAIN s /\ Without(s, m) = w
  BY DEF Without
<1>4. \A j \in keep : j \in DOMAIN s /\ s[j] # m
  OBVIOUS
<1>5. \A j \in DOMAIN s : s[j] # m => j \in keep
  OBVIOUS
<1>6. m \notin ToSet(s) => keep = 1..Len(s)
  BY DEF ToSet
<1> HIDE DEF keep
<1>1. /\ w \in Seq(Pinnable)
      /\ \A i \in DOMAIN w : \E j \in keep : w[i] = s[j]
      /\ \A j \in keep : \E i \in DOMAIN w : w[i] = s[j]
  BY <1>0, KeptElements
<1>2. PICK at \in [1..n -> keep] :
            /\ w = [i \in 1..n |-> s[at[i]]]
            /\ \A i, j \in 1..n : i < j => at[i] < at[j]
  BY <1>0, KeptPositions
<1>3. n \in Nat
  BY <1>0, FinitePositions
<1> HIDE DEF w
<1>7. ToSet(w) = ToSet(s) \ {m}
  <2>1. ASSUME NEW x \in ToSet(w) PROVE x \in ToSet(s) \ {m}
    BY <1>1, <1>4, <2>1 DEF ToSet
  <2>2. ASSUME NEW x \in ToSet(s) \ {m} PROVE x \in ToSet(w)
    <3>1. PICK j \in DOMAIN s : x = s[j]
      BY <2>2 DEF ToSet
    <3>2. j \in keep
      BY <1>5, <2>2, <3>1
    <3> QED
      BY <1>1, <3>1, <3>2 DEF ToSet
  <2> QED
    BY <2>1, <2>2
<1>8. ASSUME IsInjective(s) PROVE IsInjective(w)
  <2> HIDE DEF n
  <2>1. DOMAIN w = 1..n
    BY <1>2
  <2>2. ASSUME NEW a \in 1..n, NEW b \in 1..n, w[a] = w[b] PROVE a = b
    <3>1. s[at[a]] = s[at[b]] /\ at[a] \in DOMAIN s /\ at[b] \in DOMAIN s
      BY <1>2, <1>4, <2>2
    <3>2. at[a] = at[b]
      BY <1>8, <3>1 DEF IsInjective
    <3>3. at[a] \in Nat /\ a \in Nat /\ b \in Nat
      BY <1>3, <3>1
    <3> QED
      BY <1>2, <3>2, <3>3
  <2> QED
    BY <2>1, <2>2 DEF IsInjective
<1>9. ASSUME m \notin ToSet(s) PROVE Len(w) = Len(s)
  <2>1. n = Len(s)
    BY <1>6, <1>9, UpToIsFinite
  <2> HIDE DEF n
  <2>2. DOMAIN w = 1..n /\ w \in Seq(Pinnable)
    BY <1>1, <1>2
  <2> QED
    BY <2>1, <2>2
<1> QED
  BY <1>0, <1>1, <1>7, <1>8, <1>9

LEMMA InFront ==
    ASSUME NEW s \in Seq(Pinnable), NEW m \in Pinnable
    PROVE  /\ <<m>> \o s \in Seq(Pinnable)
           /\ ToSet(<<m>> \o s) = ToSet(s) \cup {m}
           /\ Len(<<m>> \o s) = Len(s) + 1 /\ <<m>> \o s # <<>>
           /\ IsInjective(s) /\ m \notin ToSet(s) => IsInjective(<<m>> \o s)
<1> DEFINE w == <<m>> \o s
<1>1. /\ w \in Seq(Pinnable) /\ Len(w) = 1 + Len(s) /\ DOMAIN w = 1..(1 + Len(s)) /\ w[1] = m
      /\ \A i \in 1..Len(s) : w[i + 1] = s[i]
      /\ Len(s) \in Nat /\ DOMAIN s = 1..Len(s)
  OBVIOUS
<1> HIDE DEF w
<1>2. ToSet(w) = ToSet(s) \cup {m}
  <2>1. ASSUME NEW i \in DOMAIN w PROVE w[i] \in ToSet(s) \cup {m}
    <3>1. CASE i = 1
      BY <1>1, <3>1
    <3>2. CASE i # 1
      <4>1. i - 1 \in DOMAIN s /\ w[i] = s[i - 1]
        BY <1>1, <3>2
      <4> QED
        BY <4>1 DEF ToSet
    <3> QED
      BY <3>1, <3>2
  <2>2. ASSUME NEW i \in DOMAIN s PROVE \E k \in DOMAIN w : w[k] = s[i]
    <3>1. i + 1 \in DOMAIN w /\ w[i + 1] = s[i]
      BY <1>1
    <3> QED
      BY <3>1
  <2>3. 1 \in DOMAIN w
    BY <1>1
  <2> QED
    BY <1>1, <2>1, <2>2, <2>3, SMTT(30) DEF ToSet
<1>3. ASSUME IsInjective(s), m \notin ToSet(s) PROVE IsInjective(w)
  <2>1. \A i \in 1..Len(s) : s[i] # m
    BY <1>1, <1>3 DEF ToSet
  <2>2. ASSUME NEW a \in DOMAIN w, NEW b \in DOMAIN w, w[a] = w[b] PROVE a = b
    <3>1. CASE a = 1 \/ b = 1
      <4>1. \A k \in DOMAIN w : k # 1 => k - 1 \in 1..Len(s) /\ w[k] = s[k - 1]
        BY <1>1
      <4> QED
        BY <1>1, <2>1, <2>2, <3>1, <4>1
    <3>2. CASE a # 1 /\ b # 1
      <4>1. a - 1 \in DOMAIN s /\ b - 1 \in DOMAIN s /\ s[a - 1] = s[b - 1]
        BY <1>1, <2>2, <3>2
      <4>2. a - 1 = b - 1
        BY <1>3, <4>1 DEF IsInjective
      <4> QED
        BY <1>1, <4>2
    <3> QED
      BY <3>1, <3>2
  <2> QED
    BY <2>2 DEF IsInjective
<1> QED
  BY <1>1, <1>2, <1>3 DEF w

-----------------------------------------------------------------------------
(* What a step does to the banner, to the server and to the events *)

BannerOK ==
    /\ banner \in Seq(Pinnable) /\ pinIndex \in Nat /\ pressed \subseteq Pinnable
    /\ IsInjective(banner)
    /\ IF banner = <<>> THEN pinIndex = 0 ELSE pinIndex < Len(banner)

Shows(m, on) ==
    /\ BannerOK'
    /\ \A x \in Pinnable : Pinned(x)' <=> IF x = m THEN on ELSE Pinned(x)
    /\ \A x \in Pinnable : x \in pressed' <=> IF x = m THEN on ELSE x \in pressed

LEMMA AddShows ==
    ASSUME BannerOK, NEW m \in Pinnable, AddPin(m)
    PROVE  Shows(m, TRUE)
<1>1. CASE Pinned(m)
  BY <1>1 DEF AddPin, Shows, BannerOK, Pinned
<1>2. CASE ~Pinned(m)
  <2>1. /\ banner' \in Seq(Pinnable) /\ ToSet(banner') = ToSet(banner) \cup {m}
        /\ Len(banner') = Len(banner) + 1 /\ banner' # <<>> /\ IsInjective(banner')
    BY <1>2, InFront DEF AddPin, BannerOK, Pinned
  <2>2. pinIndex < Len(banner')
    <3>1. Len(banner) \in Nat /\ (banner = <<>> => Len(banner) = 0)
      BY DEF BannerOK
    <3> QED
      BY <2>1, <3>1 DEF AddPin, BannerOK
  <2>3. pressed' = pressed \cup {m} /\ pinIndex' = pinIndex
    BY DEF AddPin
  <2> QED
    BY <2>1, <2>2, <2>3 DEF Shows, BannerOK, Pinned
<1> QED
  BY <1>1, <1>2

LEMMA RemoveShows ==
    ASSUME BannerOK, NEW m \in Pinnable, RemovePin(m)
    PROVE  Shows(m, FALSE)
<1>1. /\ banner' \in Seq(Pinnable) /\ ToSet(banner') = ToSet(banner) \ {m} /\ IsInjective(banner')
      /\ m \notin ToSet(banner) => Len(banner') = Len(banner)
  BY WithoutIt DEF RemovePin, BannerOK
<1>2. Len(banner') \in Nat /\ (banner' = <<>> <=> Len(banner') = 0)
  BY <1>1
<1>3. Len(banner) \in Nat /\ (banner = <<>> <=> Len(banner) = 0)
  BY DEF BannerOK
<1>4. pinIndex' \in Nat /\ IF banner' = <<>> THEN pinIndex' = 0 ELSE pinIndex' < Len(banner')
  <2>1. pinIndex' = IF Pinned(m) /\ pinIndex >= Len(banner')
                    THEN IF banner' = <<>> THEN 0 ELSE Len(banner') - 1
                    ELSE pinIndex
    BY DEF RemovePin
  <2>2. pinIndex \in Nat /\ IF banner = <<>> THEN pinIndex = 0 ELSE pinIndex < Len(banner)
    BY DEF BannerOK
  <2>3. CASE Pinned(m) /\ pinIndex >= Len(banner')
    BY <1>2, <2>1, <2>3
  <2>4. CASE Pinned(m) /\ ~(pinIndex >= Len(banner'))
    BY <1>2, <2>1, <2>2, <2>4
  <2>5. CASE ~Pinned(m)
    BY <1>1, <1>2, <1>3, <2>1, <2>2, <2>5 DEF Pinned
  <2> QED
    BY <2>3, <2>4, <2>5
<1>5. pressed' = pressed \ {m}
  BY DEF RemovePin
<1> QED
  BY <1>1, <1>4, <1>5 DEF Shows, BannerOK, Pinned

EventsOK ==
    /\ pins \in Seq(Pinnable) /\ IsInjective(pins)
    /\ pinEvents \in Seq([op : {"pin", "unpin"}, msg : Pinnable])
    /\ EventsFollow

LEMMA ServerDoes ==
    ASSUME EventsOK, NEW m \in Pinnable, NEW op \in {"pin", "unpin"}, ServerPins(m, op)
    PROVE  /\ EventsOK'
           /\ \A x \in Pinnable : Server(x)' <=> IF x = m THEN op = "pin" ELSE Server(x)
           /\ \A x \in Pinnable : OnItsWay(x) => OnItsWay(x)'
           /\ \A x \in Pinnable : OnItsWay(x)' /\ ~OnItsWay(x) => x = m
           /\ OnItsWay(m)' \/ (Server(m)' <=> Server(m))
<1>1. CASE (op = "pin") = (m \in ToSet(pins))
  <2>1. UNCHANGED <<pins, pinEvents>>
    BY <1>1 DEF ServerPins
  <2> QED
    BY <1>1, <2>1 DEF EventsOK, EventsFollow, Server, OnItsWay
<1>2. CASE (op = "pin") # (m \in ToSet(pins))
  <2> DEFINE e == [op |-> op, msg |-> m]
             n == Len(pinEvents) + 1
  <2>1. e \in [op : {"pin", "unpin"}, msg : Pinnable] /\ e.msg = m /\ e.op = op
    OBVIOUS
  <2>2. /\ pins' = IF op = "pin" THEN <<m>> \o pins ELSE Without(pins, m)
        /\ pinEvents' = Append(pinEvents, e)
    BY <1>2 DEF ServerPins
  <2> HIDE DEF e
  <2>3. /\ pinEvents' \in Seq([op : {"pin", "unpin"}, msg : Pinnable])
        /\ DOMAIN pinEvents' = 1..n /\ DOMAIN pinEvents = 1..Len(pinEvents) /\ Len(pinEvents) \in Nat
        /\ \A i \in 1..Len(pinEvents) : pinEvents'[i] = pinEvents[i]
        /\ pinEvents'[n] = e
    BY <2>1, <2>2, Appended DEF EventsOK
  <2>4. /\ pins' \in Seq(Pinnable) /\ IsInjective(pins')
        /\ ToSet(pins') = IF op = "pin" THEN ToSet(pins) \cup {m} ELSE ToSet(pins) \ {m}
    <3>1. CASE op = "pin"
      BY <1>2, <2>2, <3>1, InFront DEF EventsOK
    <3>2. CASE op # "pin"
      BY <2>2, <3>2, WithoutIt DEF EventsOK
    <3> QED
      BY <3>1, <3>2
  <2>5. \A x \in Pinnable : Server(x)' <=> IF x = m THEN op = "pin" ELSE Server(x)
    BY <2>4 DEF Server
  <2>6. EventsFollow'
    <3>1. n \in DOMAIN pinEvents' /\ \A i \in 1..Len(pinEvents) : i < n
      BY <2>3
    <3>2. ASSUME NEW i \in DOMAIN pinEvents',
                 \A j \in DOMAIN pinEvents' : i < j => pinEvents'[j].msg # pinEvents'[i].msg
          PROVE  pinEvents'[i].op = "pin" <=> pinEvents'[i].msg \in ToSet(pins')
      <4>1. CASE i = n
        <5>1. pinEvents'[i] = e
          BY <2>3, <4>1
        <5> QED
          BY <2>1, <2>4, <5>1 DEF Server
      <4>2. CASE i # n
        <5>1. i \in 1..Len(pinEvents) /\ i \in DOMAIN pinEvents
          BY <2>3, <3>2, <4>2
        <5>2. pinEvents'[i] = pinEvents[i] /\ pinEvents[i].msg \in Pinnable
          <6> DEFINE E == [op : {"pin", "unpin"}, msg : Pinnable]
          <6>1. \A x \in E : x.msg \in Pinnable
            OBVIOUS
          <6>2. pinEvents \in Seq(E)
            BY DEF EventsOK
          <6> HIDE DEF E
          <6>3. pinEvents[i] \in E
            BY <5>1, <6>2
          <6> QED
            BY <2>3, <5>1, <6>1, <6>3
        <5>3. pinEvents[i].msg # m
          BY <2>1, <2>3, <3>1, <3>2, <5>1, <5>2
        <5>4. \A j \in DOMAIN pinEvents : i < j => pinEvents[j].msg # pinEvents[i].msg
          <6> TAKE j \in DOMAIN pinEvents
          <6>1. j \in DOMAIN pinEvents' /\ pinEvents'[j] = pinEvents[j]
            BY <2>3
          <6> QED
            BY <3>2, <5>2, <6>1
        <5>5. pinEvents[i].op = "pin" <=> Server(pinEvents[i].msg)
          BY <5>1, <5>4 DEF EventsOK, EventsFollow
        <5> QED
          BY <2>4, <5>2, <5>3, <5>5 DEF Server
      <4> QED
        BY <4>1, <4>2
    <3> QED
      BY <3>2 DEF EventsFollow, Server
  <2>7. OnItsWay(m)'
    BY <2>1, <2>3 DEF OnItsWay
  <2>8. \A x \in Pinnable : OnItsWay(x) => OnItsWay(x)'
    BY <2>3 DEF OnItsWay
  <2>9. ASSUME NEW x \in Pinnable, OnItsWay(x)', ~OnItsWay(x) PROVE x = m
    <3>1. PICK i \in DOMAIN pinEvents' : pinEvents'[i].msg = x
      BY <2>9 DEF OnItsWay
    <3>2. i = n
      BY <2>3, <2>9, <3>1 DEF OnItsWay
    <3> QED
      BY <2>1, <2>3, <3>1, <3>2
  <2> QED
    BY <2>3, <2>4, <2>5, <2>6, <2>7, <2>8, <2>9 DEF EventsOK
<1> QED
  BY <1>1, <1>2

\* The first event is taken off.
LEMMA EventTaken ==
    ASSUME EventsOK, pinEvents # <<>>, pinEvents' = Tail(pinEvents), pins' = pins,
           NEW e, e = Head(pinEvents)
    PROVE  /\ e.op \in {"pin", "unpin"} /\ e.msg \in Pinnable
           /\ EventsOK'
           /\ \A x \in Pinnable : Server(x)' <=> Server(x)
           /\ \A x \in Pinnable : x # e.msg => (OnItsWay(x)' <=> OnItsWay(x))
           /\ OnItsWay(e.msg)' \/ (Server(e.msg) <=> e.op = "pin")
<1> DEFINE n == Len(pinEvents)
           E == [op : {"pin", "unpin"}, msg : Pinnable]
<1>0. pinEvents \in Seq(E)
  BY DEF EventsOK
<1> HIDE DEF E
<1>a. /\ pinEvents' \in Seq(E)
      /\ DOMAIN pinEvents' = 1..(n - 1) /\ DOMAIN pinEvents = 1..n /\ n \in Nat \ {0}
      /\ \A i \in 1..(n - 1) : pinEvents'[i] = pinEvents[i + 1]
      /\ e = pinEvents[1] /\ e \in E
  BY <1>0, TailOf
<1>1. /\ pinEvents' \in Seq([op : {"pin", "unpin"}, msg : Pinnable])
      /\ DOMAIN pinEvents' = 1..(n - 1) /\ DOMAIN pinEvents = 1..n /\ n \in Nat \ {0}
      /\ \A i \in 1..(n - 1) : pinEvents'[i] = pinEvents[i + 1]
      /\ e = pinEvents[1] /\ e \in [op : {"pin", "unpin"}, msg : Pinnable]
  BY <1>a DEF E
<1> HIDE DEF n
<1>2. \A j \in DOMAIN pinEvents : j # 1 => j - 1 \in DOMAIN pinEvents' /\ pinEvents'[j - 1] = pinEvents[j]
  BY <1>1
<1>3. \A x : Server(x)' <=> Server(x)
  BY DEF Server
<1>4. \A x : OnItsWay(x)' => OnItsWay(x)
  <2>1. \A i \in DOMAIN pinEvents' : i + 1 \in DOMAIN pinEvents /\ pinEvents'[i] = pinEvents[i + 1]
    BY <1>1
  <2> QED
    BY <2>1 DEF OnItsWay
<1>5. \A x : x # e.msg /\ OnItsWay(x) => OnItsWay(x)'
  <2> SUFFICES ASSUME NEW x, x # e.msg, NEW j \in DOMAIN pinEvents, pinEvents[j].msg = x
               PROVE  OnItsWay(x)'
    BY DEF OnItsWay
  <2>1. j # 1
    BY <1>1
  <2>2. j - 1 \in DOMAIN pinEvents' /\ pinEvents'[j - 1].msg = x
    BY <1>2, <2>1
  <2> QED
    BY <2>2 DEF OnItsWay
<1>6. ~OnItsWay(e.msg)' => (Server(e.msg) <=> e.op = "pin")
  <2> SUFFICES ASSUME ~OnItsWay(e.msg)' PROVE Server(e.msg) <=> e.op = "pin"
    OBVIOUS
  <2>1. \A j \in DOMAIN pinEvents : 1 < j => pinEvents[j].msg # e.msg
    <3> SUFFICES ASSUME NEW j \in DOMAIN pinEvents, 1 < j, pinEvents[j].msg = e.msg PROVE FALSE
      OBVIOUS
    <3>1. j - 1 \in DOMAIN pinEvents' /\ pinEvents'[j - 1].msg = e.msg
      BY <1>2
    <3> QED
      BY <3>1 DEF OnItsWay
  <2>2. 1 \in DOMAIN pinEvents
    BY <1>1
  <2> QED
    BY <1>1, <2>1, <2>2 DEF EventsOK, EventsFollow
<1>7. EventsFollow'
  <2> SUFFICES ASSUME NEW i \in DOMAIN pinEvents',
                      \A j \in DOMAIN pinEvents' : i < j => pinEvents'[j].msg # pinEvents'[i].msg
               PROVE  pinEvents'[i].op = "pin" <=> Server(pinEvents'[i].msg)
    BY <1>3 DEF EventsFollow
  <2>1. i + 1 \in DOMAIN pinEvents /\ pinEvents'[i] = pinEvents[i + 1]
    BY <1>1
  <2>2. \A j \in DOMAIN pinEvents : i + 1 < j => pinEvents[j].msg # pinEvents[i + 1].msg
    <3> TAKE j \in DOMAIN pinEvents
    <3>1. CASE i + 1 < j
      <4>1. j # 1 /\ i < j - 1
        BY <1>1, <3>1
      <4>2. j - 1 \in DOMAIN pinEvents' /\ pinEvents'[j - 1] = pinEvents[j]
        BY <1>2, <4>1
      <4> QED
        BY <2>1, <4>1, <4>2
    <3> QED
      BY <3>1
  <2> QED
    BY <2>1, <2>2 DEF EventsOK, EventsFollow
<1> QED
  BY <1>1, <1>3, <1>4, <1>5, <1>6, <1>7 DEF EventsOK

-----------------------------------------------------------------------------
(* The invariant *)

LEMMA InvParts ==
    ASSUME PinsInv
    PROVE  /\ BannerOK /\ EventsOK
           /\ toggles \in [Pinnable -> Toggles]
           /\ listing \in [stage : {"asked", "taken", "done"}, taken : Seq(Pinnable)]
           /\ IsInjective(listing.taken) /\ bannerGone \in BOOLEAN /\ unsure \subseteq Pinnable
  BY DEF PinsInv, PinsTypeOK, Carousel, BannerOK, EventsOK

LEMMA PartsMake ==
    ASSUME BannerOK, EventsOK,
           toggles \in [Pinnable -> Toggles],
           listing \in [stage : {"asked", "taken", "done"}, taken : Seq(Pinnable)],
           IsInjective(listing.taken), bannerGone \in BOOLEAN, unsure \subseteq Pinnable,
           listing.stage # "done" => \A m \in Pinnable : Pinned(m) <=> m \in pressed,
           ~bannerGone => \A m \in Pinnable \ unsure : ~OnItsWay(m) => Follows(m)
    PROVE  PinsInv
  BY DEF PinsInv, PinsTypeOK, Carousel, BannerOK, EventsOK

LEMMA PartsKept ==
    ASSUME BannerOK', EventsOK',
           toggles' \in [Pinnable -> Toggles],
           listing' \in [stage : {"asked", "taken", "done"}, taken : Seq(Pinnable)],
           IsInjective(listing'.taken), bannerGone' \in BOOLEAN, unsure' \subseteq Pinnable,
           listing'.stage # "done" => \A m \in Pinnable : Pinned(m)' <=> m \in pressed',
           ~bannerGone' => \A m \in Pinnable \ unsure' : ~OnItsWay(m)' => Follows(m)'
    PROVE  PinsInv'
  BY DEF PinsInv, PinsTypeOK, Carousel, BannerOK, EventsOK

LEMMA PinsStart == PinsInit => PinsInv
<1> SUFFICES ASSUME PinsInit PROVE PinsInv
  OBVIOUS
<1>1. BannerOK
  BY DEF PinsInit, BannerOK, IsInjective
<1>2. EventsOK
  <2>1. pins \in Seq(Pinnable) /\ IsInjective(pins)
    <3>1. CASE pins = <<>>
      BY <3>1 DEF IsInjective
    <3>2. ASSUME NEW m \in Pinnable, pins = <<m>> PROVE pins \in Seq(Pinnable) /\ IsInjective(pins)
      BY <3>2 DEF IsInjective
    <3> QED
      BY <3>1, <3>2 DEF PinsInit
  <2> QED
    BY <2>1 DEF PinsInit, EventsOK, EventsFollow
<1>3. toggles \in [Pinnable -> Toggles] /\ \A m \in Pinnable : toggles[m] = Idle
  BY DEF PinsInit, Toggles, Idle
<1>4. /\ listing \in [stage : {"asked", "taken", "done"}, taken : Seq(Pinnable)]
      /\ IsInjective(listing.taken) /\ listing.stage = "asked"
  BY DEF PinsInit, IsInjective
<1>5. \A m \in Pinnable : ~Pinned(m) /\ m \notin pressed
  BY DEF PinsInit, Pinned, ToSet
<1>6. bannerGone \in BOOLEAN /\ unsure \subseteq Pinnable
  BY DEF PinsInit
<1>7. \A m \in Pinnable : Follows(m)
  BY <1>3, <1>4, <1>5 DEF Follows, Early, Idle
<1> QED
  BY <1>1, <1>2, <1>3, <1>4, <1>5, <1>6, <1>7, PartsMake

\* A message of which a step changes nothing.
LEMMA FollowsStays ==
    ASSUME NEW m, Follows(m), toggles'[m] = toggles[m], listing' = listing,
           Server(m)' <=> Server(m), Pinned(m)' <=> Pinned(m), m \in pressed' <=> m \in pressed
    PROVE  Follows(m)'
  BY DEF Follows, Early, Late

LEMMA BannerStays ==
    ASSUME UNCHANGED <<banner, pinIndex, pressed>>
    PROVE  /\ BannerOK => BannerOK'
           /\ \A x : Pinned(x)' <=> Pinned(x)
  BY DEF BannerOK, Pinned

LEMMA EventsStay ==
    ASSUME UNCHANGED <<pins, pinEvents>>
    PROVE  /\ EventsOK => EventsOK'
           /\ \A x : Server(x)' <=> Server(x)
           /\ \A x : OnItsWay(x)' <=> OnItsWay(x)
  BY DEF EventsOK, EventsFollow, Server, OnItsWay

\* The server changes, by a toggle of this user's or by another's.
LEMMA ServerKeeps ==
    ASSUME PinsInv, NEW m \in Pinnable, NEW op \in {"pin", "unpin"}, ServerPins(m, op),
           UNCHANGED <<listing, banner, pinIndex, pressed, bannerGone, unsure>>,
           toggles' \in [Pinnable -> Toggles], \A x \in Pinnable : x # m => toggles'[x] = toggles[x],
           Follows(m) /\ (Server(m)' <=> Server(m)) /\ (Server(m) <=> op = "pin") => Follows(m)'
    PROVE  PinsInv'
<1>1. BannerOK' /\ \A x : Pinned(x)' <=> Pinned(x)
  BY InvParts, BannerStays
<1>2. /\ EventsOK'
      /\ \A x \in Pinnable : Server(x)' <=> IF x = m THEN op = "pin" ELSE Server(x)
      /\ \A x \in Pinnable : OnItsWay(x) => OnItsWay(x)'
      /\ OnItsWay(m)' \/ (Server(m)' <=> Server(m))
  BY InvParts, ServerDoes
<1>3. ASSUME ~bannerGone, NEW x \in Pinnable \ unsure, ~OnItsWay(x)' PROVE Follows(x)'
  <2>1. Follows(x)
    BY <1>2, <1>3 DEF PinsInv
  <2>2. CASE x = m
    <3>1. (Server(m)' <=> Server(m)) /\ (Server(m) <=> op = "pin") /\ Follows(m)
      BY <1>2, <1>3, <2>1, <2>2
    <3> QED
      BY <2>2, <3>1
  <2>3. CASE x # m
    BY <1>1, <1>2, <2>1, <2>3, FollowsStays
  <2> QED
    BY <2>2, <2>3
<1>4. /\ listing' \in [stage : {"asked", "taken", "done"}, taken : Seq(Pinnable)]
      /\ IsInjective(listing'.taken) /\ bannerGone' \in BOOLEAN /\ unsure' \subseteq Pinnable
  BY InvParts
<1>5. listing'.stage # "done" => \A x \in Pinnable : Pinned(x)' <=> x \in pressed'
  BY <1>1 DEF PinsInv
<1>6. ~bannerGone' => \A x \in Pinnable \ unsure' : ~OnItsWay(x)' => Follows(x)'
  BY <1>3
<1> QED
  BY <1>1, <1>2, <1>4, <1>5, <1>6, PartsKept

LEMMA ToggleFields ==
    ASSUME PinsInv, NEW m \in Pinnable
    PROVE  /\ toggles \in [Pinnable -> Toggles] /\ toggles[m] \in Toggles
           /\ toggles[m].stage \in {"idle", "asked", "applied"}
           /\ toggles[m].was \in BOOLEAN /\ toggles[m].touched \in BOOLEAN
  BY InvParts DEF Toggles

LEMMA OthersPinKeeps ==
    ASSUME PinsInv, NEW m \in Pinnable, OtherPins(m)
    PROVE  PinsInv'
<1>1. PICK op \in {"pin", "unpin"} : ServerPins(m, op)
  BY DEF OtherPins
<1>2. UNCHANGED <<listing, banner, pinIndex, pressed, toggles, bannerGone, unsure>>
  BY DEF OtherPins
<1>3. toggles' \in [Pinnable -> Toggles]
  BY <1>2, InvParts
<1>4. Follows(m) /\ (Server(m)' <=> Server(m)) => Follows(m)'
  BY <1>2, BannerStays, FollowsStays
<1> QED
  BY <1>1, <1>2, <1>3, <1>4, ServerKeeps

LEMMA AppliedKeeps ==
    ASSUME PinsInv, NEW m \in Pinnable, ToggleIsApplied(m)
    PROVE  PinsInv'
<1> DEFINE op == IF toggles[m].was THEN "unpin" ELSE "pin"
           t == [toggles[m] EXCEPT !.stage = "applied"]
<1>1. /\ ServerPins(m, op) /\ toggles[m].stage = "asked"
      /\ UNCHANGED <<listing, banner, pinIndex, pressed, bannerGone, unsure>>
      /\ toggles' = [toggles EXCEPT ![m] = t]
  BY DEF ToggleIsApplied
<1>2. op \in {"pin", "unpin"} /\ (op = "pin" <=> ~toggles[m].was)
  BY ToggleFields
<1>3. t \in Toggles /\ t.stage = "applied" /\ t.was = toggles[m].was /\ t.touched = toggles[m].touched
  BY ToggleFields DEF Toggles
<1> HIDE DEF t
<1>4. toggles' \in [Pinnable -> Toggles] /\ toggles'[m] = t
      /\ \A x \in Pinnable : x # m => toggles'[x] = toggles[x]
  BY <1>1, <1>3, ToggleFields
<1>5. ASSUME Follows(m), Server(m)' <=> Server(m), Server(m) <=> op = "pin"
      PROVE  Follows(m)'
  <2>1. /\ Pinned(m)' <=> Pinned(m)
        /\ listing' = listing /\ pressed' = pressed
    BY <1>1, BannerStays
  <2>2. Server(m) <=> ~toggles[m].was
    BY <1>2, <1>5
  <2>3. Early(m) => Early(m)'
    BY <1>1, <1>3, <1>4, <1>5, <2>1, <2>2, ToggleFields DEF Early
  <2>4. Late(m) => Late(m)'
    BY <1>1, <1>3, <1>4, <1>5, <2>1, <2>2, ToggleFields DEF Late
  <2> QED
    BY <1>5, <2>1, <2>3, <2>4 DEF Follows
<1> HIDE DEF op
<1> QED
  BY <1>1, <1>2, <1>4, <1>5, ServerKeeps

LEMMA LostKeeps ==
    ASSUME PinsInv, PinEventIsLost
    PROVE  PinsInv'
<1>0. PICK e : e = Head(pinEvents)
  OBVIOUS
<1>1. /\ pinEvents # <<>> /\ pinEvents' = Tail(pinEvents) /\ unsure' = unsure \cup {e.msg}
      /\ UNCHANGED <<pins, listing, banner, pinIndex, pressed, toggles, bannerGone>>
  BY <1>0 DEF PinEventIsLost
<1>2. /\ EventsOK' /\ e.msg \in Pinnable
      /\ \A x \in Pinnable : Server(x)' <=> Server(x)
      /\ \A x \in Pinnable : x # e.msg => (OnItsWay(x)' <=> OnItsWay(x))
  BY <1>0, <1>1, InvParts, EventTaken
<1>3. BannerOK' /\ \A x : Pinned(x)' <=> Pinned(x)
  BY <1>1, InvParts, BannerStays
<1>4. ASSUME ~bannerGone, NEW x \in Pinnable \ unsure', ~OnItsWay(x)' PROVE Follows(x)'
  <2>1. x \in Pinnable \ unsure /\ x # e.msg /\ ~OnItsWay(x)
    BY <1>1, <1>2, <1>4
  <2>2. Follows(x)
    BY <1>4, <2>1 DEF PinsInv
  <2> QED
    BY <1>1, <1>2, <1>3, <2>1, <2>2, FollowsStays
<1>5. /\ toggles' \in [Pinnable -> Toggles]
      /\ listing' \in [stage : {"asked", "taken", "done"}, taken : Seq(Pinnable)]
      /\ IsInjective(listing'.taken) /\ bannerGone' \in BOOLEAN /\ unsure' \subseteq Pinnable
  BY <1>1, <1>2, InvParts
<1>6. listing'.stage # "done" => \A x \in Pinnable : Pinned(x)' <=> x \in pressed'
  BY <1>1, <1>3 DEF PinsInv
<1>7. ~bannerGone' => \A x \in Pinnable \ unsure' : ~OnItsWay(x)' => Follows(x)'
  BY <1>1, <1>4
<1> QED
  BY <1>2, <1>3, <1>5, <1>6, <1>7, PartsKept

\* listPins() is answered from what the server has.
LEMMA TakenKeeps ==
    ASSUME PinsInv, PinsAreTaken
    PROVE  PinsInv'
<1>1. /\ listing.stage = "asked" /\ listing' = [stage |-> "taken", taken |-> pins]
      /\ UNCHANGED <<pins, pinEvents, banner, pinIndex, pressed, toggles, bannerGone, unsure>>
  BY DEF PinsAreTaken
<1>2. BannerOK' /\ \A x : Pinned(x)' <=> Pinned(x)
  BY <1>1, InvParts, BannerStays
<1>3. /\ EventsOK' /\ \A x : Server(x)' <=> Server(x)
      /\ \A x : OnItsWay(x)' <=> OnItsWay(x)
  BY <1>1, InvParts, EventsStay
<1>4. listing'.stage = "taken" /\ listing'.taken = pins
  BY <1>1
<1>5. /\ toggles' \in [Pinnable -> Toggles]
      /\ listing' \in [stage : {"asked", "taken", "done"}, taken : Seq(Pinnable)]
      /\ IsInjective(listing'.taken) /\ bannerGone' \in BOOLEAN /\ unsure' \subseteq Pinnable
  BY <1>1, InvParts DEF EventsOK
<1>6. \A x \in Pinnable : Pinned(x)' <=> x \in pressed'
  BY <1>1, <1>2 DEF PinsInv
<1>7. ASSUME ~bannerGone, NEW x \in Pinnable \ unsure, ~OnItsWay(x)' PROVE Follows(x)'
  <2>1. Early(x)
    BY <1>1, <1>3, <1>7 DEF PinsInv, Follows
  <2>2. Early(x)'
    BY <1>1, <1>3, <2>1 DEF Early
  <2> QED
    BY <1>3, <1>4, <2>2 DEF Follows, Server
<1>8. ~bannerGone' => \A x \in Pinnable \ unsure' : ~OnItsWay(x)' => Follows(x)'
  BY <1>1, <1>7
<1> QED
  BY <1>2, <1>3, <1>5, <1>6, <1>8, PartsKept

LEMMA ArriveKeeps ==
    ASSUME PinsInv, PinsArrive
    PROVE  PinsInv'
<1>1. /\ listing.stage = "taken" /\ listing' = [stage |-> "done", taken |-> <<>>]
      /\ toggles' = [m \in Pinnable |-> [toggles[m] EXCEPT !.touched = toggles[m].stage # "idle"]]
      /\ UNCHANGED <<pins, pinEvents, bannerGone, unsure>>
  BY DEF PinsArrive
<1>2. /\ EventsOK' /\ \A x : Server(x)' <=> Server(x)
      /\ \A x : OnItsWay(x)' <=> OnItsWay(x)
  BY <1>1, InvParts, EventsStay
<1>3. ASSUME NEW x \in Pinnable
      PROVE  /\ toggles'[x] \in Toggles /\ toggles'[x].stage = toggles[x].stage
             /\ toggles'[x].was = toggles[x].was
             /\ toggles'[x].touched <=> toggles[x].stage # "idle"
  BY <1>1, ToggleFields DEF Toggles
<1>4. toggles' \in [Pinnable -> Toggles]
  BY <1>1, <1>3
<1>5. /\ listing' \in [stage : {"asked", "taken", "done"}, taken : Seq(Pinnable)]
      /\ IsInjective(listing'.taken) /\ listing'.stage = "done"
  BY <1>1 DEF IsInjective
<1>6. BannerOK'
  <2>1. CASE bannerGone
    BY <1>1, <2>1, InvParts, BannerStays DEF PinsArrive
  <2>2. CASE ~bannerGone
    <3>1. banner' = listing.taken /\ pinIndex' = 0 /\ pressed' = pressed \cup ToSet(listing.taken)
      BY <2>2 DEF PinsArrive
    <3>2. listing.taken \in Seq(Pinnable) /\ IsInjective(listing.taken) /\ pressed \subseteq Pinnable
      BY InvParts DEF BannerOK
    <3> HIDE <1>1
    <3>3. ToSet(listing.taken) \subseteq Pinnable
      BY <3>2 DEF ToSet
    <3>4. listing.taken # <<>> => 0 < Len(listing.taken)
      BY <3>2
    <3> QED
      BY <3>1, <3>2, <3>3, <3>4 DEF BannerOK
  <2> QED
    BY <2>1, <2>2
<1>7. ASSUME ~bannerGone, NEW x \in Pinnable \ unsure, ~OnItsWay(x)' PROVE Follows(x)'
  <2>1. /\ banner' = listing.taken /\ pressed' = pressed \cup ToSet(listing.taken)
    BY <1>7 DEF PinsArrive
  <2>2. Early(x) /\ (x \in ToSet(listing.taken) <=> Server(x))
    BY <1>1, <1>2, <1>7 DEF PinsInv, Follows
  <2>3. Pinned(x)' <=> Server(x)'
    BY <1>2, <2>1, <2>2 DEF Pinned
  <2>4. Late(x)'
    BY <1>2, <1>3, <2>1, <2>2, <2>3, ToggleFields DEF Early, Late
  <2> QED
    BY <1>5, <2>4 DEF Follows
<1>8. ~bannerGone' => \A x \in Pinnable \ unsure' : ~OnItsWay(x)' => Follows(x)'
  BY <1>1, <1>7
<1>9. bannerGone' \in BOOLEAN /\ unsure' \subseteq Pinnable
  BY <1>1, InvParts
<1> QED
  BY <1>2, <1>4, <1>5, <1>6, <1>8, <1>9, PartsKept

LEMMA FailKeeps ==
    ASSUME PinsInv, PinsFail
    PROVE  PinsInv'
<1>1. /\ listing' = [stage |-> "done", taken |-> <<>>] /\ unsure' = Pinnable
      /\ UNCHANGED <<pins, pinEvents, banner, pinIndex, pressed, toggles, bannerGone>>
  BY DEF PinsFail
<1>2. BannerOK' /\ EventsOK'
  BY <1>1, InvParts, BannerStays, EventsStay
<1>3. /\ toggles' \in [Pinnable -> Toggles]
      /\ listing' \in [stage : {"asked", "taken", "done"}, taken : Seq(Pinnable)]
      /\ IsInjective(listing'.taken) /\ listing'.stage = "done"
      /\ bannerGone' \in BOOLEAN /\ unsure' \subseteq Pinnable
  BY <1>1, InvParts DEF IsInjective
<1>4. ~bannerGone' => \A x \in Pinnable \ unsure' : ~OnItsWay(x)' => Follows(x)'
  BY <1>1
<1> QED
  BY <1>2, <1>3, <1>4, PartsKept

LEMMA EventKeeps ==
    ASSUME PinsInv, PinEventArrives
    PROVE  PinsInv'
<1>0. PICK e : e = Head(pinEvents)
  OBVIOUS
<1>1. /\ pinEvents # <<>> /\ pinEvents' = Tail(pinEvents) /\ ~bannerGone
      /\ IF e.op = "pin" THEN AddPin(e.msg) ELSE RemovePin(e.msg)
      /\ toggles' = [toggles EXCEPT ![e.msg].touched = toggles[e.msg].stage # "idle"]
      /\ unsure' = IF listing.stage = "taken" THEN unsure \cup {e.msg} ELSE unsure
      /\ UNCHANGED <<pins, listing, bannerGone>>
  BY <1>0 DEF PinEventArrives
<1>2. /\ EventsOK' /\ e.msg \in Pinnable
      /\ \A x \in Pinnable : Server(x)' <=> Server(x)
      /\ \A x \in Pinnable : x # e.msg => (OnItsWay(x)' <=> OnItsWay(x))
      /\ OnItsWay(e.msg)' \/ (Server(e.msg) <=> e.op = "pin")
  BY <1>0, <1>1, InvParts, EventTaken
<1>3. Shows(e.msg, e.op = "pin")
  BY <1>1, <1>2, InvParts, AddShows, RemoveShows
<1>4. PICK t : t = [toggles[e.msg] EXCEPT !.touched = toggles[e.msg].stage # "idle"]
  OBVIOUS
<1>5. /\ t \in Toggles /\ t.stage = toggles[e.msg].stage /\ t.was = toggles[e.msg].was
      /\ t.touched <=> t.stage # "idle"
  BY <1>2, <1>4, ToggleFields DEF Toggles
<1>6. toggles' = [toggles EXCEPT ![e.msg] = t]
  BY <1>1, <1>4
<1>7. toggles' \in [Pinnable -> Toggles] /\ toggles'[e.msg] = t
      /\ \A x \in Pinnable : x # e.msg => toggles'[x] = toggles[x]
  BY <1>2, <1>5, <1>6, InvParts
<1>8. ASSUME NEW x \in Pinnable \ unsure', ~OnItsWay(x)' PROVE Follows(x)'
  <2>1. CASE x = e.msg
    <3>1. Server(e.msg)' <=> e.op = "pin"
      BY <1>2, <1>8, <2>1
    <3>2. (Pinned(e.msg)' <=> e.op = "pin") /\ (e.msg \in pressed' <=> e.op = "pin")
      BY <1>2, <1>3 DEF Shows
    <3>3. listing'.stage # "taken"
      BY <1>1, <1>8, <2>1
    <3>4. Early(e.msg)' /\ Late(e.msg)'
      BY <1>5, <1>7, <3>1, <3>2 DEF Early, Late, Toggles
    <3> QED
      BY <2>1, <3>3, <3>4 DEF Follows
  <2>2. CASE x # e.msg
    <3>1. Follows(x) /\ listing' = listing /\ toggles'[x] = toggles[x] /\ (Server(x)' <=> Server(x))
      BY <1>1, <1>2, <1>7, <1>8, <2>2 DEF PinsInv
    <3>2. (Pinned(x)' <=> Pinned(x)) /\ (x \in pressed' <=> x \in pressed)
      BY <1>3, <1>8, <2>2 DEF Shows
    <3> QED
      BY <3>1, <3>2, FollowsStays
  <2> QED
    BY <2>1, <2>2
<1>9. listing'.stage # "done" => \A x \in Pinnable : Pinned(x)' <=> x \in pressed'
  BY <1>1, <1>3 DEF PinsInv, Shows
<1>10. /\ listing' \in [stage : {"asked", "taken", "done"}, taken : Seq(Pinnable)]
       /\ IsInjective(listing'.taken) /\ bannerGone' \in BOOLEAN /\ unsure' \subseteq Pinnable
       /\ BannerOK'
  BY <1>1, <1>2, <1>3, InvParts DEF Shows
<1> QED
  BY <1>2, <1>7, <1>8, <1>9, <1>10, PartsKept

\* A click shows, or a failed toggle takes back, what t says of m.
LEMMA ShownKeeps ==
    ASSUME PinsInv, NEW m \in Pinnable, NEW t \in Toggles, toggles' = [toggles EXCEPT ![m] = t],
           UNCHANGED <<pins, pinEvents, listing, bannerGone>>,
           unsure \subseteq unsure', unsure' \subseteq Pinnable,
           bannerGone => UNCHANGED <<banner, pinIndex, pressed>>,
           ~bannerGone => \E on \in BOOLEAN : Shows(m, on),
           ~bannerGone /\ m \notin unsure' /\ ~OnItsWay(m) => Follows(m)'
    PROVE  PinsInv'
<1>1. /\ EventsOK' /\ \A x : Server(x)' <=> Server(x)
      /\ \A x : OnItsWay(x)' <=> OnItsWay(x)
  BY InvParts, EventsStay
<1>2. toggles' \in [Pinnable -> Toggles] /\ \A x \in Pinnable : x # m => toggles'[x] = toggles[x]
  BY InvParts
<1>3. BannerOK' /\ (listing'.stage # "done" => \A x \in Pinnable : Pinned(x)' <=> x \in pressed')
  <2>1. CASE bannerGone
    BY <2>1, InvParts, BannerStays DEF PinsInv
  <2>2. CASE ~bannerGone
    BY <2>2 DEF PinsInv, Shows
  <2> QED
    BY <2>1, <2>2
<1>4. ASSUME ~bannerGone, NEW x \in Pinnable \ unsure', ~OnItsWay(x)' PROVE Follows(x)'
  <2>1. CASE x = m
    BY <1>1, <1>4, <2>1
  <2>2. CASE x # m
    <3>1. Follows(x)
      BY <1>1, <1>4 DEF PinsInv
    <3>2. (Pinned(x)' <=> Pinned(x)) /\ (x \in pressed' <=> x \in pressed)
      BY <1>4, <2>2 DEF Shows
    <3> QED
      BY <1>1, <1>2, <1>4, <2>2, <3>1, <3>2, FollowsStays
  <2> QED
    BY <2>1, <2>2
<1>5. ~bannerGone' => \A x \in Pinnable \ unsure' : ~OnItsWay(x)' => Follows(x)'
  BY <1>4
<1>6. /\ listing' \in [stage : {"asked", "taken", "done"}, taken : Seq(Pinnable)]
      /\ IsInjective(listing'.taken) /\ bannerGone' \in BOOLEAN
  BY InvParts
<1> QED
  BY <1>1, <1>2, <1>3, <1>5, <1>6, PartsKept

LEMMA ClickKeeps ==
    ASSUME PinsInv, NEW m \in Pinnable, TogglePin(m)
    PROVE  PinsInv'
<1>0. PICK t : t = [stage |-> "asked", was |-> Pinned(m), touched |-> FALSE]
  OBVIOUS
<1>1. /\ ~bannerGone /\ toggles[m].stage = "idle"
      /\ IF Pinned(m) THEN RemovePin(m) ELSE AddPin(m)
      /\ toggles' = [toggles EXCEPT ![m] = t]
      /\ unsure' = IF listing.stage = "taken" THEN unsure \cup {m} ELSE unsure
      /\ UNCHANGED <<pins, pinEvents, listing, bannerGone>>
  BY <1>0 DEF TogglePin
<1>2. t \in Toggles /\ t.stage = "asked" /\ (t.was <=> Pinned(m)) /\ ~t.touched
  <2>1. CASE Pinned(m)
    <3>1. t = [stage |-> "asked", was |-> TRUE, touched |-> FALSE]
      BY <1>0, <2>1
    <3> QED
      BY <2>1, <3>1 DEF Toggles
  <2>2. CASE ~Pinned(m)
    <3>1. t = [stage |-> "asked", was |-> FALSE, touched |-> FALSE]
      <4>1. Pinned(m) = FALSE
        BY <2>2 DEF Pinned
      <4> QED
        BY <1>0, <4>1
    <3> QED
      BY <2>2, <3>1 DEF Toggles
  <2> QED
    BY <2>1, <2>2
<1>3. \E on \in BOOLEAN : Shows(m, on)
  <2>1. Shows(m, TRUE) \/ Shows(m, FALSE)
    BY <1>1, InvParts, AddShows, RemoveShows
  <2> QED
    BY <2>1
<1>5. toggles'[m] = t
  BY <1>1, InvParts
<1>6. unsure \subseteq unsure' /\ unsure' \subseteq Pinnable
  BY <1>1, InvParts
<1>7. ASSUME m \notin unsure', ~OnItsWay(m) PROVE Follows(m)'
  <2>1. Follows(m) /\ listing.stage # "taken" /\ listing' = listing
    BY <1>1, <1>7 DEF PinsInv
  <2>2. Server(m)' <=> Server(m)
    BY <1>1, EventsStay
  <2>3. listing.stage # "done" => Early(m)'
    <3>1. listing.stage # "done" => (Pinned(m) => Server(m))
      BY <1>1, <2>1 DEF PinsInv, Follows, Early
    <3> QED
      BY <1>2, <1>5, <2>2, <3>1 DEF Early
  <2>4. listing.stage = "done" => Late(m)'
    <3>1. listing.stage = "done" => (Pinned(m) <=> Server(m))
      BY <1>1, <2>1 DEF Follows, Late
    <3> QED
      BY <1>2, <1>5, <2>2, <3>1 DEF Late
  <2> QED
    BY <2>1, <2>3, <2>4 DEF Follows
<1> QED
  BY <1>1, <1>2, <1>3, <1>6, <1>7, ShownKeeps

LEMMA SucceedsKeeps ==
    ASSUME PinsInv, NEW m \in Pinnable, ToggleSucceeds(m)
    PROVE  PinsInv'
<1>1. /\ toggles[m].stage = "applied" /\ toggles' = [toggles EXCEPT ![m] = Idle]
      /\ UNCHANGED <<pins, pinEvents, listing, banner, pinIndex, pressed, bannerGone, unsure>>
  BY DEF ToggleSucceeds
<1>2. Idle \in Toggles /\ Idle.stage = "idle"
  BY DEF Idle, Toggles
<1>3. /\ BannerOK' /\ EventsOK' /\ \A x : Pinned(x)' <=> Pinned(x)
      /\ \A x : Server(x)' <=> Server(x)
      /\ \A x : OnItsWay(x)' <=> OnItsWay(x)
  BY <1>1, InvParts, BannerStays, EventsStay
<1>4. /\ toggles' \in [Pinnable -> Toggles] /\ toggles'[m] = Idle
      /\ \A x \in Pinnable : x # m => toggles'[x] = toggles[x]
  BY <1>1, <1>2, InvParts
<1>5. ASSUME ~bannerGone, NEW x \in Pinnable \ unsure, ~OnItsWay(x)' PROVE Follows(x)'
  <2>1. Follows(x)
    BY <1>3, <1>5 DEF PinsInv
  <2>2. CASE x = m
    <3>1. Early(m) => Early(m)'
      BY <1>1, <1>2, <1>3, <1>4, ToggleFields DEF Early
    <3>2. Late(m) => Late(m)'
      BY <1>1, <1>2, <1>3, <1>4, ToggleFields DEF Late
    <3> QED
      BY <1>1, <1>3, <2>1, <2>2, <3>1, <3>2 DEF Follows
  <2>3. CASE x # m
    BY <1>1, <1>3, <1>4, <1>5, <2>1, <2>3, FollowsStays
  <2> QED
    BY <2>2, <2>3
<1>6. /\ listing' \in [stage : {"asked", "taken", "done"}, taken : Seq(Pinnable)]
      /\ IsInjective(listing'.taken) /\ bannerGone' \in BOOLEAN /\ unsure' \subseteq Pinnable
  BY <1>1, InvParts
<1>7. listing'.stage # "done" => \A x \in Pinnable : Pinned(x)' <=> x \in pressed'
  BY <1>1, <1>3 DEF PinsInv
<1>8. ~bannerGone' => \A x \in Pinnable \ unsure' : ~OnItsWay(x)' => Follows(x)'
  BY <1>1, <1>5
<1> QED
  BY <1>3, <1>4, <1>6, <1>7, <1>8, PartsKept

LEMMA RollbackKeeps ==
    ASSUME PinsInv, NEW m \in Pinnable, ToggleFails(m)
    PROVE  PinsInv'
<1>1. /\ toggles[m].stage # "idle" /\ toggles' = [toggles EXCEPT ![m] = Idle]
      /\ IF bannerGone THEN UNCHANGED <<banner, pinIndex, pressed>>
         ELSE IF toggles[m].was THEN AddPin(m) ELSE RemovePin(m)
      /\ unsure' = IF toggles[m].touched \/ listing.stage = "taken" THEN unsure \cup {m} ELSE unsure
      /\ UNCHANGED <<pins, pinEvents, listing, bannerGone>>
  BY DEF ToggleFails
<1>2. Idle \in Toggles /\ Idle.stage = "idle"
  BY DEF Idle, Toggles
<1>3. ~bannerGone => \E on \in BOOLEAN : Shows(m, on)
  <2>1. ~bannerGone => Shows(m, TRUE) \/ Shows(m, FALSE)
    BY <1>1, InvParts, AddShows, RemoveShows
  <2> QED
    BY <2>1
<1>4. toggles'[m] = Idle
  BY <1>1, InvParts
<1>5. unsure \subseteq unsure' /\ unsure' \subseteq Pinnable
  BY <1>1, InvParts
<1>6. ASSUME ~bannerGone, m \notin unsure', ~OnItsWay(m) PROVE Follows(m)'
  <2>1. Follows(m) /\ listing.stage # "taken" /\ listing' = listing /\ ~toggles[m].touched
    BY <1>1, <1>6 DEF PinsInv
  <2>2. Server(m)' <=> Server(m)
    BY <1>1, EventsStay
  <2>3. IF toggles[m].was THEN Shows(m, TRUE) ELSE Shows(m, FALSE)
    BY <1>1, <1>6, InvParts, AddShows, RemoveShows
  <2>4. (Pinned(m)' <=> toggles[m].was) /\ (m \in pressed' <=> toggles[m].was)
    BY <2>3 DEF Shows
  <2>5. toggles[m].stage \in {"asked", "applied"}
    BY <1>1, ToggleFields
  <2>6. listing.stage # "done" => Early(m)'
    BY <1>2, <1>4, <2>1, <2>2, <2>4, <2>5 DEF Follows, Early
  <2>7. listing.stage = "done" => Late(m)'
    BY <1>2, <1>4, <2>1, <2>2, <2>4, <2>5 DEF Follows, Late
  <2> QED
    BY <2>1, <2>6, <2>7 DEF Follows
<1> QED
  BY <1>1, <1>2, <1>3, <1>5, <1>6, ShownKeeps

LEMMA PinsStep ==
    ASSUME PinsInv, [PinsNext]_pinVars
    PROVE  PinsInv'
<1>1. CASE Cycle
  <2>1. /\ ~bannerGone /\ Len(banner) > 1
        /\ UNCHANGED <<pins, pinEvents, listing, banner, pressed, toggles, bannerGone, unsure>>
    BY <1>1 DEF Cycle
  <2>2. PICK delta \in {1, Len(banner) - 1} : pinIndex' = (pinIndex + delta) % Len(banner)
    BY <1>1 DEF Cycle
  <2>3. Len(banner) \in Nat /\ pinIndex \in Nat /\ delta \in Nat
    BY <2>1, InvParts DEF BannerOK
  <2>4. pinIndex' \in Nat /\ pinIndex' < Len(banner)
    BY <2>1, <2>2, <2>3
  <2>5. BannerOK' /\ \A x : Pinned(x)' <=> Pinned(x)
    BY <2>1, <2>4, InvParts DEF BannerOK, Pinned
  <2> QED
    BY <2>1, <2>5 DEF PinsInv, PinsTypeOK, Carousel, EventsFollow, Server, OnItsWay, Follows, Early,
                      Late, BannerOK
<1>2. CASE DestroyPins
  BY <1>2 DEF DestroyPins, PinsInv, PinsTypeOK, Carousel, EventsFollow, Server, Pinned
<1>3. CASE UNCHANGED pinVars
  BY <1>3 DEF pinVars, PinsInv, PinsTypeOK, Carousel, EventsFollow, Server, OnItsWay, Follows, Early,
              Late, Pinned
<1>4. ASSUME NEW m \in Pinnable,
             OtherPins(m) \/ TogglePin(m) \/ ToggleIsApplied(m) \/ ToggleSucceeds(m) \/ ToggleFails(m)
      PROVE  PinsInv'
  BY <1>4, OthersPinKeeps, ClickKeeps, AppliedKeeps, SucceedsKeeps, RollbackKeeps
<1> QED
  BY <1>1, <1>2, <1>3, <1>4, LostKeeps, TakenKeeps, ArriveKeeps, FailKeeps, EventKeeps DEF PinsNext

LEMMA AlwaysPinsInv == PinsSpec => []PinsInv
<1>1. PinsInit => PinsInv
  BY PinsStart
<1>2. PinsInv /\ [PinsNext]_pinVars => PinsInv'
  BY PinsStep
<1> QED
  BY <1>1, <1>2, PTL DEF PinsSpec

\* Types of the pins of a room: each message is pinned once, on the server as in
\* the banner.
THEOREM PinsTypeCorrect == PinsSpec => []PinsTypeOK
<1>1. PinsInv => PinsTypeOK
  BY DEF PinsInv
<1> QED
  BY <1>1, AlwaysPinsInv, PTL

\* Whatever crosses what - own clicks, their answers and rollbacks, other users'
\* pins, their events and the first list - the banner and the buttons end at what
\* the server has pinned (PinsAgree): where a message's events are all in, the
\* last one to speak of it was right, or a click that nothing has overtaken
\* remembers what to go back to.
THEOREM PinsFollowTheServer == PinsSpec => []PinsAgree
<1>1. PinsInv => PinsAgree
  <2> SUFFICES ASSUME PinsInv PROVE PinsAgree
    OBVIOUS
  <2>1. IsInjective(banner) /\ (banner # <<>> => pinIndex < Len(banner))
    BY DEF PinsInv, Carousel
  <2>2. ASSUME ~bannerGone, listing.stage = "done", pinEvents = <<>>, NEW m \in Pinnable \ unsure,
               toggles[m].stage = "idle"
        PROVE  (Pinned(m) <=> m \in ToSet(pins)) /\ (m \in pressed <=> m \in ToSet(pins))
    <3>1. ~OnItsWay(m)
      BY <2>2 DEF OnItsWay
    <3>2. Late(m)
      BY <2>2, <3>1 DEF PinsInv, Follows
    <3> QED
      BY <2>2, <3>2 DEF Late, Server
  <2> QED
    BY <2>1, <2>2 DEF PinsAgree
<1> QED
  BY <1>1, AlwaysPinsInv, PTL

-----------------------------------------------------------------------------
(***************************************************************************)
(* Composer, for any texts, files and limits.                              *)
(***************************************************************************)

ComposerSpec == ComposerInit /\ [][ComposerNext]_composerVars

AnyText == Texts \cup {NoText}
PostStages == {"detached", "awaiting", "ready", "rejected", "posting", "sent", "failed", "void"}
SentMessages == [text : AnyText, files : SUBSET Files, stage : PostStages,
                 identified : SUBSET Files, blocking : BOOLEAN]
Uploads == [status : {"unpicked", "uploading", "done", "error"}, running : BOOLEAN,
            halted : BOOLEAN, settled : BOOLEAN, hasId : BOOLEAN]

ComposerTypes ==
    /\ optimistic \in BOOLEAN /\ sending \in BOOLEAN /\ discarded \in BOOLEAN
    /\ draft \in AnyText /\ lastText \in AnyText
    /\ riders \subseteq Riders
    /\ errorChip \in AnyText \cup {NoChip, LastText}
    /\ tray \in Seq(Files)
    /\ upload \in [Files -> Uploads]
    /\ posts \in Seq(SentMessages)
    /\ retryable \subseteq DOMAIN posts

Picked(f) == upload[f] # Unpicked

\* An upload under way is of a file that was picked.
UploadsAreOfPicked ==
    \A f \in Files : Picked(f) <=> upload[f].status # "unpicked"

\* With the optimistic client every file is where it ought to be.
FilesInPlace ==
    optimistic =>
        /\ \A i \in DOMAIN posts :
            ~posts[i].blocking /\ posts[i].stage \in {"detached", "posting", "sent", "failed"}
        /\ \A f \in InTray : Picked(f) /\ \A i \in DOMAIN posts : f \notin posts[i].files
        /\ \A i, j \in DOMAIN posts : i # j => posts[i].files \cap posts[j].files = {}
        /\ \A i \in DOMAIN posts : \A f \in posts[i].files : Picked(f)
        /\ \A f \in Files : Picked(f) /\ f \notin cancelledFiles /\ ~discarded =>
                f \in InTray \/ \E i \in DOMAIN posts : f \in posts[i].files

ComposerInv == ComposerTypes /\ UploadsAreOfPicked /\ FilesInPlace

-----------------------------------------------------------------------------
(* Messages and uploads *)

LEMMA PostFields ==
    ASSUME NEW ps \in Seq(SentMessages), NEW i \in DOMAIN ps
    PROVE  /\ ps[i] \in SentMessages
           /\ ps[i].text \in AnyText /\ ps[i].files \subseteq Files /\ ps[i].stage \in PostStages
           /\ ps[i].identified \subseteq Files /\ ps[i].blocking \in BOOLEAN
<1>1. ps[i] \in SentMessages
  OBVIOUS
<1> QED
  BY <1>1 DEF SentMessages

LEMMA PostReplaced ==
    ASSUME NEW ps \in Seq(SentMessages), NEW i \in DOMAIN ps, NEW e \in SentMessages
    PROVE  /\ [ps EXCEPT ![i] = e] \in Seq(SentMessages)
           /\ DOMAIN [ps EXCEPT ![i] = e] = DOMAIN ps
           /\ [ps EXCEPT ![i] = e][i] = e
           /\ \A j \in DOMAIN ps : j # i => [ps EXCEPT ![i] = e][j] = ps[j]
OBVIOUS

\* SentMessages that get another stage, all that are at one.
Restaged(ps, from, s) ==
    [i \in DOMAIN ps |-> IF ps[i].stage = from THEN [ps[i] EXCEPT !.stage = s] ELSE ps[i]]

LEMMA StagesChange ==
    ASSUME NEW ps \in Seq(SentMessages), NEW s \in PostStages, NEW from
    PROVE  /\ Restaged(ps, from, s) \in Seq(SentMessages) /\ DOMAIN Restaged(ps, from, s) = DOMAIN ps
           /\ \A i \in DOMAIN ps :
                /\ Restaged(ps, from, s)[i].files = ps[i].files
                /\ ps[i].stage # from => Restaged(ps, from, s)[i] = ps[i]
<1> DEFINE qs == [i \in DOMAIN ps |->
                        IF ps[i].stage = from THEN [ps[i] EXCEPT !.stage = s] ELSE ps[i]]
<1>1. DOMAIN ps = 1..Len(ps) /\ Len(ps) \in Nat
  OBVIOUS
<1>2. ASSUME NEW i \in DOMAIN ps PROVE qs[i] \in SentMessages /\ qs[i].files = ps[i].files
  <2>1. ps[i] \in SentMessages
    OBVIOUS
  <2> QED
    BY <2>1 DEF SentMessages
<1>3. qs \in [1..Len(ps) -> SentMessages]
  BY <1>1, <1>2
<1>4. DOMAIN qs = DOMAIN ps /\ \A i \in DOMAIN ps : ps[i].stage # from => qs[i] = ps[i]
  OBVIOUS
<1> HIDE DEF qs
<1>5. qs \in Seq(SentMessages)
  BY <1>1, <1>3, SequenceOf
<1>6. Restaged(ps, from, s) = qs
  BY DEF Restaged, qs
<1> QED
  BY <1>2, <1>4, <1>5, <1>6

LEMMA FlushedSo ==
    ASSUME NEW ps \in Seq(SentMessages), NEW files, NEW up
    PROVE  /\ Flushed(ps, files, up) \in Seq(SentMessages)
           /\ DOMAIN Flushed(ps, files, up) = DOMAIN ps
           /\ (\A i \in DOMAIN ps : ps[i].stage # "awaiting") =>
                \A i \in DOMAIN ps : Flushed(ps, files, up)[i] = ps[i]
<1>1. Flushed(ps, files, up) \in {Restaged(ps, "awaiting", "rejected"),
                                  Restaged(ps, "awaiting", "ready"), ps}
  BY DEF Flushed, Restaged
<1>2. "rejected" \in PostStages /\ "ready" \in PostStages
  BY DEF PostStages
<1> QED
  BY <1>1, <1>2, StagesChange

LEMMA UploadFields ==
    ASSUME ComposerTypes, NEW f \in Files
    PROVE  /\ upload \in [Files -> Uploads] /\ upload[f] \in Uploads
           /\ upload[f].status \in {"unpicked", "uploading", "done", "error"}
           /\ upload[f].running \in BOOLEAN /\ upload[f].halted \in BOOLEAN
           /\ upload[f].settled \in BOOLEAN /\ upload[f].hasId \in BOOLEAN
  BY DEF ComposerTypes, Uploads

\* Where files are does not change.
LEMMA FilesStay ==
    ASSUME ComposerTypes, FilesInPlace, UNCHANGED <<optimistic, tray>>,
           optimistic =>
            /\ DOMAIN posts' = DOMAIN posts
            /\ \A i \in DOMAIN posts :
                /\ posts'[i].files = posts[i].files
                /\ ~posts'[i].blocking /\ posts'[i].stage \in {"detached", "posting", "sent", "failed"},
           \A f \in Files : Picked(f)' <=> Picked(f),
           cancelledFiles \subseteq cancelledFiles', discarded => discarded'
    PROVE  FilesInPlace'
<1>1. InTray' = InTray /\ InTray \subseteq Files
  BY DEF InTray, ComposerTypes
<1>2. \A i \in DOMAIN posts : posts[i].files \subseteq Files
  BY PostFields DEF ComposerTypes
<1> QED
  BY <1>1, <1>2 DEF FilesInPlace

-----------------------------------------------------------------------------
(* Every step keeps the invariant *)

\* The composer's own variables change, the files' do not.
LEMMA DraftKeeps ==
    ASSUME ComposerInv, UNCHANGED <<optimistic, tray, upload, posts, cancelledFiles, discarded>>,
           draft' \in AnyText, lastText' \in AnyText, riders' \subseteq Riders,
           errorChip' \in AnyText \cup {NoChip, LastText}, sending' \in BOOLEAN,
           retryable' \subseteq retryable
    PROVE  ComposerInv'
<1>1. ComposerTypes' /\ UploadsAreOfPicked'
  BY DEF ComposerInv, ComposerTypes, UploadsAreOfPicked, Picked
<1>2. FilesInPlace'
  BY DEF ComposerInv, FilesInPlace, InTray, Picked
<1> QED
  BY <1>1, <1>2 DEF ComposerInv

\* One file's upload changes, and the messages' stages at most.
LEMMA UploadKeeps ==
    ASSUME ComposerInv, NEW f \in Files, NEW u \in Uploads, upload' = [upload EXCEPT ![f] = u],
           Picked(f) /\ u.status # "unpicked",
           UNCHANGED <<optimistic, draft, lastText, riders, errorChip, sending, tray, retryable,
                       cancelledFiles, discarded>>,
           posts' = posts \/ \E files, up : posts' = Flushed(posts, files, up)
    PROVE  ComposerInv'
<1>1. /\ posts' \in Seq(SentMessages) /\ DOMAIN posts' = DOMAIN posts
      /\ (\A i \in DOMAIN posts : posts[i].stage # "awaiting") =>
            \A i \in DOMAIN posts : posts'[i] = posts[i]
  BY FlushedSo DEF ComposerInv, ComposerTypes
<1>2. /\ upload' \in [Files -> Uploads] /\ upload'[f] = u
      /\ \A g \in Files : g # f => upload'[g] = upload[g]
  BY UploadFields DEF ComposerInv
<1>3. \A g \in Files : (Picked(g)' <=> Picked(g)) /\ (Picked(g)' <=> upload'[g].status # "unpicked")
  <2>1. u # Unpicked
    BY DEF Unpicked
  <2> QED
    BY <1>2, <2>1 DEF Picked, ComposerInv, UploadsAreOfPicked
<1>4. optimistic => \A i \in DOMAIN posts : posts[i].stage # "awaiting"
  BY DEF ComposerInv, FilesInPlace
<1>5. ComposerTypes'
  BY <1>1, <1>2 DEF ComposerInv, ComposerTypes
<1>6. FilesInPlace'
  <2>1. optimistic => \A i \in DOMAIN posts :
                /\ posts'[i].files = posts[i].files
                /\ ~posts'[i].blocking /\ posts'[i].stage \in {"detached", "posting", "sent", "failed"}
    BY <1>1, <1>4 DEF ComposerInv, FilesInPlace
  <2> QED
    BY <1>1, <1>3, <2>1, FilesStay DEF ComposerInv
<1>7. UploadsAreOfPicked'
  BY <1>3 DEF UploadsAreOfPicked
<1> QED
  BY <1>5, <1>6, <1>7 DEF ComposerInv

\* One message changes, not its files unless the client is the blocking one.
LEMMA PostKeeps ==
    ASSUME ComposerInv, NEW i \in DOMAIN posts, NEW e \in SentMessages, posts' = [posts EXCEPT ![i] = e],
           optimistic => /\ e.files = posts[i].files /\ ~e.blocking
                         /\ e.stage \in {"detached", "posting", "sent", "failed"},
           UNCHANGED <<optimistic, draft, lastText, riders, tray, upload, cancelledFiles, discarded>>,
           errorChip' \in AnyText \cup {NoChip, LastText}, sending' \in BOOLEAN,
           retryable' \subseteq retryable
    PROVE  ComposerInv'
<1>1. /\ posts' \in Seq(SentMessages) /\ DOMAIN posts' = DOMAIN posts /\ posts'[i] = e
      /\ \A j \in DOMAIN posts : j # i => posts'[j] = posts[j]
  BY PostReplaced DEF ComposerInv, ComposerTypes
<1>2. ComposerTypes'
  BY <1>1 DEF ComposerInv, ComposerTypes
<1>3. UploadsAreOfPicked' /\ \A f \in Files : Picked(f)' <=> Picked(f)
  BY DEF ComposerInv, UploadsAreOfPicked, Picked
<1>4. optimistic => \A j \in DOMAIN posts :
                /\ posts'[j].files = posts[j].files
                /\ ~posts'[j].blocking /\ posts'[j].stage \in {"detached", "posting", "sent", "failed"}
  BY <1>1 DEF ComposerInv, FilesInPlace
<1>5. FilesInPlace'
  BY <1>1, <1>3, <1>4, FilesStay DEF ComposerInv
<1> QED
  BY <1>2, <1>3, <1>5 DEF ComposerInv

LEMMA UploadEndKeeps ==
    ASSUME ComposerInv, NEW f \in Files, NEW status \in {"done", "error"}, UploadEnds(f, status)
    PROVE  ComposerInv'
<1>0. PICK u : u = [upload[f] EXCEPT !.running = FALSE, !.settled = TRUE, !.halted = FALSE,
                                     !.status = IF discarded THEN @ ELSE status,
                                     !.hasId = ~discarded /\ status = "done"]
  OBVIOUS
<1>1. upload[f] \in Uploads /\ upload \in [Files -> Uploads] /\ discarded \in BOOLEAN
  BY UploadFields DEF ComposerInv, ComposerTypes
<1>2. upload' = [upload EXCEPT ![f] = u]
  BY <1>0, <1>1 DEF UploadEnds
<1>3. Picked(f) /\ upload[f].status # "unpicked"
  BY DEF UploadEnds, Picked, Unpicked, ComposerInv, UploadsAreOfPicked
<1>4. u.status \in {upload[f].status, status}
  BY <1>0, <1>1 DEF Uploads
<1>5. u \in Uploads
  <2>1. (~discarded /\ status = "done") \in BOOLEAN
    OBVIOUS
  <2>2. (IF discarded THEN upload[f].status ELSE status) \in {"unpicked", "uploading", "done", "error"}
    BY <1>1 DEF Uploads
  <2> QED
    BY <1>0, <1>1, <2>1, <2>2 DEF Uploads
<1>6. posts' = posts \/ \E files, up : posts' = Flushed(posts, files, up)
  BY DEF UploadEnds
<1> QED
  BY <1>2, <1>3, <1>4, <1>5, <1>6, UploadKeeps DEF UploadEnds

LEMMA RetryKeeps ==
    ASSUME ComposerInv, NEW f \in Files, RetryUpload(f)
    PROVE  ComposerInv'
<1>0. PICK u : u = [upload[f] EXCEPT !.status = "uploading", !.running = TRUE, !.hasId = FALSE]
  OBVIOUS
<1>1. upload[f] \in Uploads /\ upload \in [Files -> Uploads]
  BY UploadFields DEF ComposerInv
<1>2. upload' = [upload EXCEPT ![f] = u]
  BY <1>0, <1>1 DEF RetryUpload
<1>3. Picked(f)
  BY DEF RetryUpload, ComposerInv, UploadsAreOfPicked
<1>4. u \in Uploads /\ u.status = "uploading"
  BY <1>0, <1>1 DEF Uploads
<1> QED
  BY <1>2, <1>3, <1>4, UploadKeeps DEF RetryUpload

LEMMA PickKeeps ==
    ASSUME ComposerInv, NEW f \in Files, Pick(f)
    PROVE  ComposerInv'
<1>0. PICK u : u = [upload[f] EXCEPT !.status = "uploading", !.running = TRUE]
  OBVIOUS
<1>1. upload[f] \in Uploads /\ upload \in [Files -> Uploads] /\ tray \in Seq(Files)
  BY UploadFields DEF ComposerInv, ComposerTypes
<1>2. upload' = [upload EXCEPT ![f] = u]
  BY <1>0, <1>1 DEF Pick
<1>3. u \in Uploads /\ u.status = "uploading" /\ u # Unpicked
  BY <1>0, <1>1 DEF Uploads, Unpicked
<1>4. /\ upload' \in [Files -> Uploads] /\ upload'[f] = u
      /\ \A g \in Files : g # f => upload'[g] = upload[g]
  BY <1>1, <1>2, <1>3
<1>5. tray' = Append(tray, f)
  BY DEF Pick
<1>6. tray' \in Seq(Files) /\ InTray' = InTray \cup {f} /\ InTray \subseteq Files
  <2>1. /\ tray' \in Seq(Files) /\ DOMAIN tray' = 1..(Len(tray) + 1) /\ DOMAIN tray = 1..Len(tray)
        /\ Len(tray) \in Nat
        /\ \A i \in 1..Len(tray) : tray'[i] = tray[i]
        /\ tray'[Len(tray) + 1] = f
    BY <1>1, <1>5, Appended
  <2>2. 1..(Len(tray) + 1) = (1..Len(tray)) \cup {Len(tray) + 1}
    BY <2>1
  <2>3. InTray' = InTray \cup {f}
    BY <2>1, <2>2 DEF InTray
  <2>4. InTray \subseteq Files
    BY <1>1 DEF InTray
  <2> QED
    BY <2>1, <2>3, <2>4
<1>7. ~Picked(f) /\ UNCHANGED <<optimistic, posts, cancelledFiles, discarded>>
  BY DEF Pick, Picked
<1>8. \A g \in Files : Picked(g)' <=> g = f \/ Picked(g)
  BY <1>3, <1>4 DEF Picked
<1>9. UploadsAreOfPicked'
  BY <1>3, <1>4, <1>8 DEF ComposerInv, UploadsAreOfPicked, Picked
<1>10. ComposerTypes'
  BY <1>4, <1>6 DEF ComposerInv, ComposerTypes, Pick
<1>11. FilesInPlace'
  <2>1. \A i \in DOMAIN posts : posts[i].files \subseteq Files
    BY PostFields DEF ComposerInv, ComposerTypes
  <2> QED
    BY <1>6, <1>7, <1>8, <2>1 DEF ComposerInv, FilesInPlace
<1> QED
  BY <1>9, <1>10, <1>11 DEF ComposerInv

LEMMA CancelKeeps ==
    ASSUME ComposerInv, NEW f \in Files, CancelUpload(f)
    PROVE  ComposerInv'
<1>0. PICK u : u = [upload[f] EXCEPT !.halted = upload[f].running]
  OBVIOUS
<1>1. upload[f] \in Uploads /\ upload \in [Files -> Uploads] /\ tray \in Seq(Files)
      /\ posts \in Seq(SentMessages)
  BY UploadFields DEF ComposerInv, ComposerTypes
<1>2. upload' = [upload EXCEPT ![f] = u]
  BY <1>0, <1>1 DEF CancelUpload
<1>3. u \in Uploads /\ u.status = upload[f].status
  BY <1>0, <1>1 DEF Uploads
<1>4. /\ upload' \in [Files -> Uploads] /\ upload'[f] = u
      /\ \A g \in Files : g # f => upload'[g] = upload[g]
  BY <1>1, <1>2, <1>3
<1>5. tray' \in Seq(Files) /\ InTray' = InTray \ {f} /\ InTray \subseteq Files
  <2> DEFINE keep == {i \in DOMAIN tray : tray[i] # f}
  <2>1. tray' = Kept(tray, keep) /\ keep \subseteq DOMAIN tray
    BY DEF CancelUpload
  <2>2. \A i \in DOMAIN tray : i \in keep <=> tray[i] # f
    OBVIOUS
  <2> HIDE DEF keep
  <2>3. /\ tray' \in Seq(Files)
        /\ \A i \in DOMAIN tray' : \E j \in keep : tray'[i] = tray[j]
        /\ \A j \in keep : \E i \in DOMAIN tray' : tray'[i] = tray[j]
    BY <1>1, <2>1, KeptElements
  <2>4. InTray' = InTray \ {f}
    <3>1. ASSUME NEW x \in InTray' PROVE x \in InTray \ {f}
      <4>1. PICK i \in DOMAIN tray' : x = tray'[i]
        BY <3>1 DEF InTray
      <4> QED
        BY <2>1, <2>2, <2>3, <4>1 DEF InTray
    <3>2. ASSUME NEW x \in InTray \ {f} PROVE x \in InTray'
      <4>1. PICK j \in DOMAIN tray : x = tray[j]
        BY <3>2 DEF InTray
      <4> QED
        BY <2>2, <2>3, <3>2, <4>1 DEF InTray
    <3> QED
      BY <3>1, <3>2
  <2>5. InTray \subseteq Files
    BY <1>1 DEF InTray
  <2> QED
    BY <2>3, <2>4, <2>5
<1>6. /\ f \in InTray /\ cancelledFiles' = cancelledFiles \cup {f}
      /\ posts' = Flushed(posts, InTray \ {f}, upload') /\ UNCHANGED <<optimistic, discarded>>
  BY DEF CancelUpload
<1>7. /\ posts' \in Seq(SentMessages) /\ DOMAIN posts' = DOMAIN posts
      /\ (\A i \in DOMAIN posts : posts[i].stage # "awaiting") =>
            \A i \in DOMAIN posts : posts'[i] = posts[i]
  BY <1>1, <1>6, FlushedSo
<1>8. \A g \in Files : (Picked(g)' <=> Picked(g)) /\ (Picked(g)' <=> upload'[g].status # "unpicked")
  <2>1. \A g \in Files : upload'[g].status = upload[g].status
    BY <1>3, <1>4
  <2>2. \A g \in Files : Picked(g) <=> upload[g].status # "unpicked"
    BY DEF ComposerInv, UploadsAreOfPicked
  <2>3. CASE Picked(f)
    <3>1. u # Unpicked
      BY <1>3, <2>2, <2>3 DEF Unpicked
    <3> QED
      BY <1>4, <2>1, <2>2, <2>3, <3>1 DEF Picked
  <2>4. CASE ~Picked(f)
    <3>1. u = Unpicked
      <4>1. upload[f] = Unpicked
        BY <2>4 DEF Picked
      <4>2. u.status = "unpicked" /\ u.running = FALSE /\ u.halted = FALSE /\ u.settled = FALSE
            /\ u.hasId = FALSE
        BY <1>0, <4>1 DEF Unpicked
      <4> QED
        BY <1>3, <4>2 DEF Uploads, Unpicked
    <3> QED
      BY <1>4, <2>1, <2>2, <2>4, <3>1 DEF Picked
  <2> QED
    BY <2>3, <2>4
<1>9. ComposerTypes'
  BY <1>4, <1>5, <1>7 DEF ComposerInv, ComposerTypes, CancelUpload
<1>10. UploadsAreOfPicked'
  BY <1>8 DEF UploadsAreOfPicked
<1>11. FilesInPlace'
  <2> SUFFICES ASSUME optimistic PROVE FilesInPlace'
    BY <1>6 DEF FilesInPlace
  <2>1. \A i \in DOMAIN posts : posts'[i] = posts[i]
    BY <1>7 DEF ComposerInv, FilesInPlace
  <2>2. \A i \in DOMAIN posts : posts[i].files \subseteq Files
    BY PostFields DEF ComposerInv, ComposerTypes
  <2> QED
    BY <1>5, <1>6, <1>7, <1>8, <2>1, <2>2 DEF ComposerInv, FilesInPlace
<1> QED
  BY <1>9, <1>10, <1>11 DEF ComposerInv

\* A message is appended, and the tray kept or given to it.
LEMMA SendKeeps ==
    ASSUME ComposerInv, NEW e \in SentMessages, posts' = Append(posts, e),
           UNCHANGED <<optimistic, upload, cancelledFiles, discarded>>,
           \/ tray' = tray /\ e.files = {}
           \/ tray' = <<>> /\ e.files = InTray
           \/ tray' = tray /\ ~optimistic,
           optimistic => ~e.blocking /\ e.stage \in {"detached", "posting"},
           draft' \in AnyText, lastText' \in AnyText, riders' \subseteq Riders, errorChip' = NoChip,
           sending' \in BOOLEAN, retryable' \subseteq retryable \cup {Len(posts) + 1}
    PROVE  ComposerInv'
<1> DEFINE n == Len(posts) + 1
<1>1. posts \in Seq(SentMessages) /\ tray \in Seq(Files)
  BY DEF ComposerInv, ComposerTypes
<1>2. /\ posts' \in Seq(SentMessages) /\ DOMAIN posts' = 1..n /\ DOMAIN posts = 1..Len(posts)
      /\ Len(posts) \in Nat
      /\ \A i \in 1..Len(posts) : posts'[i] = posts[i]
      /\ posts'[n] = e
  BY <1>1, Appended
<1>3. DOMAIN posts' = DOMAIN posts \cup {n} /\ n \notin DOMAIN posts
  BY <1>2
<1> HIDE DEF n
<1>4. tray' \in Seq(Files) /\ InTray \subseteq Files
  <2>1. tray' = tray \/ tray' = <<>>
    OBVIOUS
  <2>2. <<>> \in Seq(Files)
    OBVIOUS
  <2>3. InTray \subseteq Files
    BY <1>1 DEF InTray
  <2> QED
    BY <1>1, <2>1, <2>2, <2>3
<1>5. ComposerTypes'
  <2>1. retryable' \subseteq DOMAIN posts'
    BY <1>3 DEF ComposerInv, ComposerTypes, n
  <2> QED
    BY <1>2, <1>4, <2>1 DEF ComposerInv, ComposerTypes
<1>6. UploadsAreOfPicked' /\ \A f \in Files : Picked(f)' <=> Picked(f)
  BY DEF ComposerInv, UploadsAreOfPicked, Picked
<1>7. FilesInPlace'
  <2> SUFFICES ASSUME optimistic PROVE FilesInPlace'
    BY DEF FilesInPlace
  <2>1. (InTray' = InTray /\ e.files = {}) \/ (InTray' = {} /\ e.files = InTray)
    <3>1. tray' = tray => InTray' = InTray
      BY DEF InTray
    <3>2. tray' = <<>> => InTray' = {}
      BY DEF InTray
    <3> QED
      BY <3>1, <3>2
  <2>2. \A i \in DOMAIN posts : posts[i].files \subseteq Files /\ posts'[i] = posts[i]
    BY <1>1, <1>2, PostFields
  <2>3. FilesInPlace
    BY DEF ComposerInv
  <2>4. \A i \in DOMAIN posts' : ~posts'[i].blocking /\ posts'[i].stage \in {"detached", "posting", "sent", "failed"}
    BY <1>2, <1>3, <2>2, <2>3 DEF FilesInPlace
  <2>5. \A f \in InTray' : Picked(f)' /\ \A i \in DOMAIN posts' : f \notin posts'[i].files
    BY <1>2, <1>3, <1>4, <1>6, <2>1, <2>2, <2>3 DEF FilesInPlace
  <2>6. \A i, j \in DOMAIN posts' : i # j => posts'[i].files \cap posts'[j].files = {}
    <3>1. \A i \in DOMAIN posts : posts[i].files \cap e.files = {}
      BY <2>1, <2>3 DEF FilesInPlace
    <3> QED
      BY <1>2, <1>3, <2>2, <2>3, <3>1 DEF FilesInPlace
  <2>7. \A i \in DOMAIN posts' : \A f \in posts'[i].files : Picked(f)'
    BY <1>2, <1>3, <1>4, <1>6, <2>1, <2>2, <2>3 DEF FilesInPlace
  <2>8. ASSUME NEW f \in Files, Picked(f)', f \notin cancelledFiles', ~discarded'
        PROVE  f \in InTray' \/ \E i \in DOMAIN posts' : f \in posts'[i].files
    <3>1. f \in InTray \/ \E i \in DOMAIN posts : f \in posts[i].files
      BY <1>6, <2>3, <2>8 DEF FilesInPlace
    <3> QED
      BY <1>2, <1>3, <2>1, <2>2, <3>1
  <2> QED
    BY <2>4, <2>5, <2>6, <2>7, <2>8 DEF FilesInPlace
<1> QED
  BY <1>5, <1>6, <1>7 DEF ComposerInv

LEMMA PostIs ==
    ASSUME ComposerTypes, NEW text \in AnyText, NEW files \in SUBSET Files, NEW stage \in PostStages
    PROVE  /\ Post(text, files, stage) \in SentMessages
           /\ Post(text, files, stage).files = files /\ Post(text, files, stage).stage = stage
           /\ optimistic => ~Post(text, files, stage).blocking
<1>1. Identified(files) \subseteq Files /\ (~optimistic) \in BOOLEAN
  BY DEF Identified
<1> QED
  BY <1>1 DEF Post, SentMessages

LEMMA SendsKeep ==
    ASSUME ComposerInv, NEW text \in AnyText, Send(text)
    PROVE  ComposerInv'
<1>1. /\ ComposerTypes /\ InTray \subseteq Files /\ InTray \in SUBSET Files /\ {} \in SUBSET Files
      /\ {"detached", "posting", "rejected", "ready", "awaiting"} \subseteq PostStages
      /\ errorChip' = NoChip /\ UNCHANGED <<optimistic, upload, cancelledFiles, discarded>>
  BY DEF Send, ComposerInv, ComposerTypes, InTray, PostStages
<1>2. ASSUME ComposerCleared
      PROVE  draft' \in AnyText /\ lastText' \in AnyText /\ riders' \subseteq Riders
  BY <1>2 DEF ComposerCleared, AnyText
<1>3. CASE SendDetached(text)
  <2> DEFINE e == Post(text, InTray, "detached")
  <2>1. e \in SentMessages /\ e.files = InTray /\ e.stage = "detached" /\ (optimistic => ~e.blocking)
    BY <1>1, PostIs
  <2> HIDE DEF e
  <2>2. /\ posts' = Append(posts, e) /\ tray' = <<>> /\ ComposerCleared /\ sending' = sending
        /\ retryable' \subseteq retryable \cup {Len(posts) + 1}
    BY <1>3 DEF SendDetached, e
  <2>3. sending' \in BOOLEAN
    BY <1>1, <2>2 DEF ComposerTypes
  <2> QED
    BY <1>1, <1>2, <2>1, <2>2, <2>3, SendKeeps
<1>4. CASE SendOptimistic(text)
  <2> DEFINE e == Post(text, {}, "posting")
  <2>1. e \in SentMessages /\ e.files = {} /\ e.stage = "posting" /\ (optimistic => ~e.blocking)
    BY <1>1, PostIs
  <2> HIDE DEF e
  <2>2. /\ posts' = Append(posts, e) /\ tray' = tray /\ ComposerCleared /\ sending' = sending
        /\ retryable' \subseteq retryable \cup {Len(posts) + 1}
    BY <1>4 DEF SendOptimistic, e
  <2>3. sending' \in BOOLEAN
    BY <1>1, <2>2 DEF ComposerTypes
  <2> QED
    BY <1>1, <1>2, <2>1, <2>2, <2>3, SendKeeps
<1>5. CASE SendBlocking(text)
  <2> DEFINE e == IF tray = <<>> THEN Post(text, {}, "posting") ELSE Post(text, InTray, Awaited)
  <2>1. Awaited \in {"rejected", "ready", "awaiting"}
    BY DEF Awaited
  <2>2. e \in SentMessages
    BY <1>1, <2>1, PostIs
  <2> HIDE DEF e
  <2>3. /\ posts' = Append(posts, e) /\ tray' = tray /\ sending' = TRUE /\ ~optimistic
        /\ lastText' = text /\ UNCHANGED <<draft, riders, retryable>>
    BY <1>5 DEF SendBlocking, e
  <2>4. draft' \in AnyText /\ lastText' \in AnyText /\ riders' \subseteq Riders /\ sending' \in BOOLEAN
    BY <1>1, <2>3 DEF ComposerTypes
  <2> QED
    BY <1>1, <2>2, <2>3, <2>4, SendKeeps
<1> QED
  BY <1>3, <1>4, <1>5 DEF Send

LEMMA PostSteps ==
    ASSUME ComposerInv, NEW i \in DOMAIN posts,
           DetachedReady(i) \/ BlockingGoesOn(i) \/ BlockingRejected(i) \/ PostFails(i)
    PROVE  ComposerInv'
<1>1. /\ posts \in Seq(SentMessages) /\ posts[i] \in SentMessages /\ posts[i].text \in AnyText
      /\ posts[i].files \subseteq Files /\ posts[i].blocking \in BOOLEAN
  BY PostFields DEF ComposerInv, ComposerTypes
<1>2. /\ {"failed", "posting", "void", "sent"} \subseteq PostStages /\ InTray \subseteq Files
      /\ \A files : Identified(files) \subseteq files
  BY DEF PostStages, ComposerInv, ComposerTypes, InTray, Identified
<1>3. \A s \in PostStages : /\ [posts[i] EXCEPT !.stage = s] \in SentMessages
                            /\ [posts[i] EXCEPT !.stage = s].files = posts[i].files
                            /\ [posts[i] EXCEPT !.stage = s].stage = s
                            /\ [posts[i] EXCEPT !.stage = s].blocking = posts[i].blocking
  BY <1>1 DEF SentMessages
<1>4. optimistic => ~posts[i].blocking /\ posts[i].stage \in {"detached", "posting", "sent", "failed"}
  BY DEF ComposerInv, FilesInPlace
<1>5. sending \in BOOLEAN /\ errorChip \in AnyText \cup {NoChip, LastText}
  BY DEF ComposerInv, ComposerTypes
<1>6. CASE DetachedReady(i)
  <2> DEFINE s == IF \E f \in posts[i].files : upload[f].status = "error" THEN "failed" ELSE "posting"
  <2>1. PICK e : e = [posts[i] EXCEPT !.stage = s, !.identified = Identified(posts[i].files)]
    OBVIOUS
  <2>2. posts' = [posts EXCEPT ![i] = e]
    BY <1>1, <1>6, <2>1 DEF DetachedReady
  <2>3. s \in {"failed", "posting"}
    OBVIOUS
  <2> HIDE DEF s
  <2>4. e \in SentMessages /\ e.files = posts[i].files /\ e.stage = s /\ e.blocking = posts[i].blocking
    BY <1>1, <1>2, <2>1, <2>3 DEF SentMessages
  <2>5. UNCHANGED <<optimistic, draft, lastText, riders, errorChip, sending, tray, upload, retryable,
                    cancelledFiles, discarded>>
    BY <1>6 DEF DetachedReady
  <2> QED
    BY <1>4, <1>5, <2>2, <2>3, <2>4, <2>5, PostKeeps
<1>7. CASE BlockingGoesOn(i)
  <2>1. ~optimistic
    BY <1>4, <1>7 DEF BlockingGoesOn
  <2>2. UNCHANGED <<optimistic, draft, lastText, riders, errorChip, tray, upload, retryable,
                    cancelledFiles, discarded>>
    BY <1>7 DEF BlockingGoesOn
  <2>3. CASE tray = <<>> /\ posts[i].text = NoText
    <3>1. posts' = [posts EXCEPT ![i] = [posts[i] EXCEPT !.stage = "void"]] /\ sending' = FALSE
      BY <1>1, <1>7, <2>3 DEF BlockingGoesOn
    <3>2. [posts[i] EXCEPT !.stage = "void"] \in SentMessages
      BY <1>2, <1>3
    <3>3. sending' \in BOOLEAN
      BY <3>1
    <3> QED
      BY <1>5, <2>1, <2>2, <3>1, <3>2, <3>3, PostKeeps
  <2>4. CASE ~(tray = <<>> /\ posts[i].text = NoText)
    <3>1. PICK e : e = [posts[i] EXCEPT !.stage = "posting", !.files = InTray,
                                        !.identified = Identified(InTray)]
      OBVIOUS
    <3>2. posts' = [posts EXCEPT ![i] = e] /\ sending' = sending
      BY <1>1, <1>7, <2>4, <3>1 DEF BlockingGoesOn
    <3>3. e \in SentMessages
      BY <1>1, <1>2, <3>1 DEF SentMessages
    <3> QED
      BY <1>5, <2>1, <2>2, <3>2, <3>3, PostKeeps
  <2> QED
    BY <2>3, <2>4
<1>8. CASE BlockingRejected(i) \/ PostFails(i)
  <2> DEFINE e == [posts[i] EXCEPT !.stage = "failed"]
  <2>1. e \in SentMessages /\ e.files = posts[i].files /\ e.stage = "failed" /\ e.blocking = posts[i].blocking
    BY <1>2, <1>3
  <2>2. posts' = [posts EXCEPT ![i] = e]
    BY <1>1, <1>8 DEF BlockingRejected, PostFails
  <2> HIDE DEF e
  <2>3. errorChip' = errorChip \/ errorChip' = posts[i].text
    BY <1>8 DEF BlockingRejected, PostFails, ChipAfter
  <2>4. errorChip' \in AnyText \cup {NoChip, LastText}
    BY <1>1, <1>5, <2>3
  <2>5. sending' \in BOOLEAN
    <3>1. sending' = FALSE \/ sending' = (sending /\ ~posts[i].blocking)
      BY <1>8 DEF BlockingRejected, PostFails
    <3> QED
      BY <3>1
  <2>6. UNCHANGED <<optimistic, draft, lastText, riders, tray, upload, retryable, cancelledFiles,
                    discarded>>
    BY <1>8 DEF BlockingRejected, PostFails
  <2> QED
    BY <1>4, <2>1, <2>2, <2>4, <2>5, <2>6, PostKeeps
<1> QED
  BY <1>6, <1>7, <1>8

\* The tray is emptied and its uploads halted.
LEMMA TrayEmptied ==
    ASSUME ComposerInv, tray' = <<>>,
           upload' = [f \in Files |->
                        IF f \in InTray /\ upload[f].status = "uploading"
                        THEN [upload[f] EXCEPT !.halted = TRUE] ELSE upload[f]],
           posts' \in Seq(SentMessages), DOMAIN posts' = DOMAIN posts,
           optimistic => discarded' /\ \A i \in DOMAIN posts : posts'[i] = posts[i],
           optimistic' = optimistic, draft' \in AnyText, lastText' \in AnyText,
           riders' \subseteq Riders, errorChip' \in AnyText \cup {NoChip, LastText},
           sending' \in BOOLEAN, discarded' \in BOOLEAN, retryable' \subseteq retryable
    PROVE  ComposerInv'
<1>1. upload \in [Files -> Uploads] /\ tray' \in Seq(Files) /\ InTray' = {}
  BY DEF ComposerInv, ComposerTypes, InTray
<1>2. ASSUME NEW f \in Files
      PROVE  /\ upload'[f] \in Uploads /\ upload'[f].status = upload[f].status
             /\ Picked(f)' <=> Picked(f)
  <2> DEFINE u == [upload[f] EXCEPT !.halted = TRUE]
  <2>1. upload[f] \in Uploads
    BY <1>1
  <2>2. u \in Uploads /\ u.status = upload[f].status
    BY <2>1 DEF Uploads
  <2> HIDE DEF u
  <2>3. upload'[f] = IF f \in InTray /\ upload[f].status = "uploading" THEN u ELSE upload[f]
    BY DEF u
  <2>4. upload[f].status = "uploading" => upload[f] # Unpicked /\ u # Unpicked
    BY <2>2 DEF Unpicked
  <2> QED
    BY <2>1, <2>2, <2>3, <2>4 DEF Picked
<1>3. upload' \in [Files -> Uploads]
  BY <1>2
<1>4. ComposerTypes'
  BY <1>1, <1>3 DEF ComposerInv, ComposerTypes
<1>5. UploadsAreOfPicked'
  BY <1>2 DEF ComposerInv, UploadsAreOfPicked
<1>6. FilesInPlace'
  <2>1. \A i \in DOMAIN posts : posts[i].files \subseteq Files
    BY PostFields DEF ComposerInv, ComposerTypes
  <2> QED
    BY <1>1, <1>2, <2>1 DEF ComposerInv, FilesInPlace
<1> QED
  BY <1>4, <1>5, <1>6 DEF ComposerInv

LEMMA SuccessKeeps ==
    ASSUME ComposerInv, NEW i \in DOMAIN posts, PostSucceeds(i)
    PROVE  ComposerInv'
<1> DEFINE e == [posts[i] EXCEPT !.stage = "sent"]
           sent == [posts EXCEPT ![i] = e]
<1>1. /\ posts \in Seq(SentMessages) /\ posts[i] \in SentMessages /\ posts[i].blocking \in BOOLEAN
      /\ "sent" \in PostStages
  BY PostFields DEF ComposerInv, ComposerTypes, PostStages
<1>2. e \in SentMessages /\ e.files = posts[i].files /\ e.stage = "sent" /\ e.blocking = posts[i].blocking
  BY <1>1 DEF SentMessages
<1>3. [posts EXCEPT ![i].stage = "sent"] = sent
  BY <1>1
<1> HIDE DEF e
<1>4. sent \in Seq(SentMessages) /\ DOMAIN sent = DOMAIN posts
  BY <1>1, <1>2, PostReplaced
<1>5. optimistic => ~posts[i].blocking
  BY DEF ComposerInv, FilesInPlace
<1>6. /\ optimistic' = optimistic /\ errorChip' = errorChip /\ cancelledFiles' = cancelledFiles
      /\ discarded' = discarded /\ retryable' \subseteq retryable
  BY DEF PostSucceeds
<1>7. /\ errorChip \in AnyText \cup {NoChip, LastText} /\ sending \in BOOLEAN /\ discarded \in BOOLEAN
      /\ draft \in AnyText /\ lastText \in AnyText /\ riders \subseteq Riders
  BY DEF ComposerInv, ComposerTypes
<1>8. CASE posts[i].blocking /\ ~discarded
  <2>1. /\ sending' = FALSE /\ ComposerCleared /\ tray' = <<>>
        /\ upload' = [f \in Files |->
                            IF f \in InTray /\ upload[f].status = "uploading"
                            THEN [upload[f] EXCEPT !.halted = TRUE] ELSE upload[f]]
        /\ posts' = Flushed(sent, {}, upload)
    BY <1>3, <1>8 DEF PostSucceeds
  <2> HIDE DEF sent
  <2>2. posts' \in Seq(SentMessages) /\ DOMAIN posts' = DOMAIN posts
    BY <1>4, <2>1, FlushedSo
  <2>3. draft' \in AnyText /\ lastText' \in AnyText /\ riders' \subseteq Riders
    BY <2>1 DEF ComposerCleared, AnyText
  <2>4. sending' \in BOOLEAN
    BY <2>1
  <2> QED
    BY <1>5, <1>6, <1>7, <1>8, <2>1, <2>2, <2>3, <2>4, TrayEmptied
<1>9. CASE ~(posts[i].blocking /\ ~discarded)
  <2>1. posts' = sent /\ UNCHANGED <<draft, lastText, riders, tray, upload>>
    BY <1>3, <1>9 DEF PostSucceeds
  <2>2. sending' = FALSE \/ sending' = sending
    BY <1>9 DEF PostSucceeds
  <2>3. sending' \in BOOLEAN
    BY <1>7, <2>2
  <2> QED
    BY <1>2, <1>5, <1>6, <1>7, <2>1, <2>3, PostKeeps
<1> QED
  BY <1>8, <1>9

LEMMA DiscardKeeps ==
    ASSUME ComposerInv, Discard
    PROVE  ComposerInv'
<1>1. posts \in Seq(SentMessages) /\ "void" \in PostStages
  BY DEF ComposerInv, ComposerTypes, PostStages
<1>2. posts' = Restaged(posts, "awaiting", "void")
  BY DEF Discard, Restaged
<1>3. /\ posts' \in Seq(SentMessages) /\ DOMAIN posts' = DOMAIN posts
      /\ \A i \in DOMAIN posts : posts[i].stage # "awaiting" => posts'[i] = posts[i]
  BY <1>1, <1>2, StagesChange
<1>4. optimistic => \A i \in DOMAIN posts : posts'[i] = posts[i]
  BY <1>3 DEF ComposerInv, FilesInPlace
<1>5. /\ tray' = <<>> /\ discarded' = TRUE /\ errorChip' = NoChip /\ retryable' = {}
      /\ upload' = [f \in Files |->
                        IF f \in InTray /\ upload[f].status = "uploading"
                        THEN [upload[f] EXCEPT !.halted = TRUE] ELSE upload[f]]
      /\ UNCHANGED <<optimistic, draft, lastText, riders, sending>>
  BY DEF Discard
<1>6. /\ draft' \in AnyText /\ lastText' \in AnyText /\ riders' \subseteq Riders
      /\ sending' \in BOOLEAN /\ discarded' \in BOOLEAN
  BY <1>5 DEF ComposerInv, ComposerTypes
<1> QED
  BY <1>3, <1>4, <1>5, <1>6, TrayEmptied

LEMMA ComposerStarts ==
    ComposerInit => ComposerInv
<1> SUFFICES ASSUME ComposerInit PROVE ComposerInv
  OBVIOUS
<1>1. Unpicked \in Uploads /\ Unpicked.status = "unpicked"
  BY DEF Unpicked, Uploads
<1>2. upload = [f \in Files |-> Unpicked] /\ tray = <<>> /\ posts = <<>> /\ retryable = {}
  BY DEF ComposerInit
<1>3. upload \in [Files -> Uploads]
  BY <1>1, <1>2
<1>4. tray \in Seq(Files) /\ posts \in Seq(SentMessages) /\ DOMAIN posts = {} /\ InTray = {}
  BY <1>2 DEF InTray
<1>5. ComposerTypes
  BY <1>2, <1>3, <1>4 DEF ComposerInit, ComposerTypes, AnyText
<1>6. \A f \in Files : ~Picked(f) /\ upload[f].status = "unpicked"
  BY <1>1, <1>2 DEF Picked
<1>7. UploadsAreOfPicked /\ FilesInPlace
  BY <1>4, <1>6 DEF UploadsAreOfPicked, FilesInPlace
<1> QED
  BY <1>5, <1>7 DEF ComposerInv

LEMMA ComposerStep ==
    ASSUME ComposerInv, [ComposerNext]_composerVars
    PROVE  ComposerInv'
<1>1. /\ optimistic \in BOOLEAN /\ sending \in BOOLEAN /\ draft \in AnyText /\ lastText \in AnyText
      /\ riders \subseteq Riders /\ errorChip \in AnyText \cup {NoChip, LastText}
      /\ posts \in Seq(SentMessages)
  BY DEF ComposerInv, ComposerTypes
<1>2. ASSUME NEW t \in AnyText, Type(t) PROVE ComposerInv'
  BY <1>1, <1>2, DraftKeeps DEF Type
<1>3. CASE SetRiders
  BY <1>1, <1>3, DraftKeeps DEF SetRiders
<1>4. CASE VoiceErrorShown
  BY <1>1, <1>4, DraftKeeps DEF VoiceErrorShown
<1>5. ASSUME NEW f \in Files,
             \/ Pick(f) \/ UploadEnds(f, "done") \/ UploadEnds(f, "error")
             \/ RetryUpload(f) \/ CancelUpload(f)
      PROVE  ComposerInv'
  BY <1>5, PickKeeps, UploadEndKeeps, RetryKeeps, CancelKeeps
<1>6. CASE SendDraft
  BY <1>1, <1>6, SendsKeep DEF SendDraft
<1>7. CASE RetrySend
  <2>1. PICK text : text = IF errorChip = LastText THEN lastText ELSE errorChip
    OBVIOUS
  <2>2. text \in AnyText /\ Send(text)
    BY <1>1, <1>7, <2>1 DEF RetrySend
  <2> QED
    BY <2>2, SendsKeep
<1>8. ASSUME NEW i \in DOMAIN posts,
             \/ DetachedReady(i) \/ BlockingGoesOn(i) \/ BlockingRejected(i)
             \/ PostSucceeds(i) \/ PostFails(i)
      PROVE  ComposerInv'
  BY <1>8, PostSteps, SuccessKeeps
<1>9. ASSUME NEW i \in DOMAIN posts, RestoreText(i) PROVE ComposerInv'
  <2>1. posts[i].text \in AnyText
    BY <1>1, PostFields
  <2> QED
    BY <1>1, <1>9, <2>1, DraftKeeps DEF RestoreText
<1>10. CASE Discard
  BY <1>10, DiscardKeeps
<1>11. CASE UNCHANGED composerVars
  BY <1>1, <1>11, DraftKeeps DEF composerVars
<1> QED
  BY <1>2, <1>3, <1>4, <1>5, <1>6, <1>7, <1>8, <1>9, <1>10, <1>11 DEF ComposerNext, AnyText

LEMMA AlwaysComposerInv ==
    ComposerSpec => []ComposerInv
<1>1. ComposerInv /\ [ComposerNext]_composerVars => ComposerInv'
  BY ComposerStep
<1> QED
  BY ComposerStarts, <1>1, PTL DEF ComposerSpec

-----------------------------------------------------------------------------
(* What the composer promises *)

\* The composer's variables keep their types.
THEOREM ComposerTypeCorrect ==
    ComposerSpec => []ComposerTypeOK
<1>1. ComposerInv => ComposerTypeOK
  <2> SUFFICES ASSUME ComposerInv PROVE ComposerTypeOK
    OBVIOUS
  <2>1. \A i \in DOMAIN posts : /\ posts[i].text \in AnyText /\ posts[i].stage \in PostStages
                                /\ posts[i].identified \subseteq Files
    BY PostFields DEF ComposerInv, ComposerTypes
  <2>2. errorChip \in Texts \cup {NoText, NoChip, LastText}
    BY DEF ComposerInv, ComposerTypes, AnyText
  <2> QED
    BY <2>1, <2>2 DEF ComposerInv, ComposerTypes, ComposerTypeOK, AnyText, PostStages, Uploads
<1> QED
  BY AlwaysComposerInv, <1>1, PTL

\* With the optimistic client a file that was picked and not taken back is in the
\* tray or in exactly one message (detachAndAwaitUploads() and what comes before
\* and after it), whatever the uploads do.
THEOREM EachFileGoesOutOnce ==
    ComposerSpec => []FilesGoOutOnce
<1>1. ComposerInv => FilesGoOutOnce
  <2> SUFFICES ASSUME ComposerInv, optimistic, NEW f \in Files
               PROVE  LET carriers == {i \in DOMAIN posts : f \in posts[i].files} IN
                      /\ Cardinality(carriers) <= 1
                      /\ Picked(f) /\ f \notin cancelledFiles /\ ~discarded
                           => (f \in InTray) # (carriers # {})
    BY DEF FilesGoOutOnce, Picked
  <2> DEFINE carriers == {i \in DOMAIN posts : f \in posts[i].files}
  <2>1. FilesInPlace
    BY DEF ComposerInv
  <2>2. \A i, j \in carriers : i = j
    BY <2>1 DEF FilesInPlace
  <2>3. f \in InTray => carriers = {}
    BY <2>1 DEF FilesInPlace
  <2>4. Picked(f) /\ f \notin cancelledFiles /\ ~discarded => f \in InTray \/ carriers # {}
    BY <2>1 DEF FilesInPlace
  <2> HIDE DEF carriers
  <2>5. Cardinality(carriers) <= 1
    <3>1. CASE carriers = {}
      BY <3>1, FS_EmptySet
    <3>2. CASE carriers # {}
      <4>1. PICK i : i \in carriers
        BY <3>2
      <4>2. carriers = {i}
        BY <2>2, <4>1
      <4>3. Cardinality(carriers) = 1
        BY <4>2, FS_Singleton
      <4> QED
        BY <4>3
    <3> QED
      BY <3>1, <3>2
  <2>6. Picked(f) /\ f \notin cancelledFiles /\ ~discarded => (f \in InTray) # (carriers # {})
    BY <2>3, <2>4
  <2> QED
    BY <2>5, <2>6 DEF carriers
<1> QED
  BY AlwaysComposerInv, <1>1, PTL

-----------------------------------------------------------------------------
(***************************************************************************)
(* MessageRows: where the bubbles stand, and what is deleted.              *)
(***************************************************************************)

RowsSpec == RowsInit /\ [][RowsNext]_rowsVars

\* An order, the rows that have a place in it, and the bubbles drawn from both.
Placed(o, r) ==
    /\ o \in Seq(Messages)
    /\ \A i, j \in DOMAIN o : o[i] = o[j] => i = j
    /\ \A m \in Messages : r[m] # Unshown <=> \E i \in DOMAIN o : o[i] = m
Drawn(o, r) == [i \in DOMAIN o |-> [msg |-> o[i], row |-> r[o[i]]]]
OnScreen(o, r, b) == Placed(o, r) /\ b = Drawn(o, r)

StreamEvent == [op : {"row"}, msg : Messages, row : Row] \cup [op : {"delete"}, msg : Messages]

\* A row that is handed over as its message was before it was deleted.
NotYetGone(e) == e.op = "row" /\ ~e.row.gone

\* What is still to come can bring back no message that is shown as deleted:
\* its older rows come before its deletion.
Streamed(s, r, deleted) ==
    /\ s \in Seq(StreamEvent)
    /\ \A m \in Messages : r[m] # Unshown /\ r[m].gone => m \in deleted
    /\ \A i \in DOMAIN s :
        /\ ~NotYetGone(s[i]) => s[i].msg \in deleted
        /\ NotYetGone(s[i]) =>
            /\ r[s[i].msg] # Unshown => ~r[s[i].msg].gone
            /\ \A j \in 1..i-1 : s[j].msg = s[i].msg => NotYetGone(s[j])

\* Shown as deleted, in the rows r.
IsGone(r, m) == r[m] # Unshown /\ r[m].gone

\* A bubble that shows a message that is not deleted.
Standing == [msg : Messages, row : {x \in Row : ~x.gone}]

\* What the list keeps whatever comes.
RowsBase ==
    /\ log \in Seq(Messages) /\ \A i, j \in DOMAIN log : log[i] = log[j] => i = j
    /\ tombstones \subseteq ToSet(log)
    /\ listStage \in {"listing", "failed", "live", "destroyed"}
    /\ stream \in [Subscriptions -> Seq(StreamEvent)] /\ loops \in Nat
    /\ listStage = "destroyed" => bubbles = <<>>

\* What it keeps while no message is entered twice.  Before the first page only
\* echoes are there, none deleted, and a notice may have taken their place on
\* the screen; with one subscription nothing out of order is to come.
RowsShown ==
    /\ rows \in [Messages -> Row \cup {Unshown}] /\ Placed(order, rows)
    /\ listStage \in {"listing", "live"} => bubbles = Drawn(order, rows)
    /\ listStage = "failed" => bubbles \in Seq(Standing)
    /\ listStage # "live" => \A m \in Messages : ~IsGone(rows, m)
    /\ loops = 0 => stream["loop"] = <<>> /\ Streamed(stream["own"], rows, tombstones)

RowsInv == RowsBase /\ (listStage # "destroyed" /\ ~doubled => RowsShown)

-----------------------------------------------------------------------------
(* Orders *)

\* No message has two places, so the first is the one.
LEMMA PositionIs ==
    ASSUME NEW m \in Messages, Placed(order, rows), Known(m)
    PROVE  Position(m) \in DOMAIN order /\ order[Position(m)] = m /\ m \in ToSet(order)
<1>1. PICK i \in DOMAIN order : order[i] = m
  BY DEF Placed, Known
<1>2. DOMAIN order = 1..Len(order) /\ Len(order) \in Nat
  BY DEF Placed
<1>3. \A j \in 1..i-1 : order[j] # m
  BY <1>1, <1>2 DEF Placed
<1>4. Position(m) \in DOMAIN order /\ order[Position(m)] = m
  BY <1>1, <1>3 DEF Position
<1> QED
  BY <1>4 DEF ToSet

\* A row is replaced where it stands.
LEMMA ReplacedInPlace ==
    ASSUME NEW o, NEW r \in [Messages -> Row \cup {Unshown}], NEW b, OnScreen(o, r, b),
           NEW m \in Messages, NEW p \in DOMAIN o, o[p] = m, NEW row \in Row
    PROVE  OnScreen(o, [r EXCEPT ![m] = row], [b EXCEPT ![p] = [msg |-> m, row |-> row]])
<1> DEFINE r2 == [r EXCEPT ![m] = row]
           b2 == [b EXCEPT ![p] = [msg |-> m, row |-> row]]
<1>1. \A x \in Messages : r2[x] = IF x = m THEN row ELSE r[x]
  OBVIOUS
<1>2. row # Unshown
  BY RowsAssumption
<1>3. \A i \in DOMAIN o : o[i] \in Messages /\ (o[i] = m <=> i = p)
  BY DEF OnScreen, Placed
<1>4. b = [i \in DOMAIN o |-> [msg |-> o[i], row |-> r[o[i]]]]
  BY DEF OnScreen, Drawn
<1>5. \A i \in DOMAIN o : b2[i] = IF i = p THEN [msg |-> m, row |-> row] ELSE b[i]
  BY <1>4
<1>6. b2 = [i \in DOMAIN o |-> b2[i]]
  BY <1>4
<1> HIDE DEF r2, b2
<1>7. \A i \in DOMAIN o : b2[i] = [msg |-> o[i], row |-> r2[o[i]]]
  <2> SUFFICES ASSUME NEW i \in DOMAIN o PROVE b2[i] = [msg |-> o[i], row |-> r2[o[i]]]
    OBVIOUS
  <2>1. CASE i = p
    BY <1>1, <1>3, <1>5, <2>1
  <2>2. CASE i # p
    BY <1>1, <1>3, <1>4, <1>5, <2>2
  <2> QED
    BY <2>1, <2>2
<1>8. b2 = Drawn(o, r2)
  BY <1>6, <1>7 DEF Drawn
<1>9. Placed(o, r2)
  BY <1>1, <1>2 DEF OnScreen, Placed
<1> QED
  BY <1>8, <1>9 DEF OnScreen, r2, b2

\* A new row goes to the bottom.
LEMMA AddedBelow ==
    ASSUME NEW o, NEW r \in [Messages -> Row \cup {Unshown}], NEW b, OnScreen(o, r, b),
           NEW m \in Messages, r[m] = Unshown, NEW row \in Row
    PROVE  OnScreen(Append(o, m), [r EXCEPT ![m] = row], Append(b, [msg |-> m, row |-> row]))
<1> DEFINE E == [msg : Messages, row : Row \cup {Unshown}]
           e == [msg |-> m, row |-> row]
<1>1. PICK n \in Nat : /\ n = Len(o) /\ DOMAIN o = 1..n /\ \A i \in 1..n : o[i] \in Messages
                       /\ o \in Seq(Messages)
  BY DEF OnScreen, Placed
<1>2. b = [i \in 1..n |-> [msg |-> o[i], row |-> r[o[i]]]]
  BY <1>1 DEF OnScreen, Drawn
<1>3. b \in [1..n -> E]
  BY <1>1, <1>2
<1>5. e \in E
  OBVIOUS
<1> HIDE DEF E, e
<1>4. b \in Seq(E) /\ Len(b) = n
  BY <1>3, SequenceOf
<1>6. PICK o2, b2 : o2 = Append(o, m) /\ b2 = Append(b, e)
  OBVIOUS
<1>7. /\ o2 \in Seq(Messages) /\ DOMAIN o2 = 1..(n + 1)
      /\ \A i \in 1..n : o2[i] = o[i]
      /\ o2[n + 1] = m
  BY <1>1, <1>6, Appended
<1>8. /\ b2 \in Seq(E) /\ DOMAIN b2 = 1..(n + 1)
      /\ \A i \in 1..n : b2[i] = b[i]
      /\ b2[n + 1] = e
  BY <1>4, <1>5, <1>6, Appended
<1>0. PICK r2 : r2 = [r EXCEPT ![m] = row]
  OBVIOUS
<1>9. \A x \in Messages : r2[x] = IF x = m THEN row ELSE r[x]
  BY <1>0
<1>10. \A i \in 1..n : o[i] # m
  BY <1>1 DEF OnScreen, Placed
<1>11. \A i \in 1..(n + 1) : b2[i] = [msg |-> o2[i], row |-> r2[o2[i]]]
  <2> SUFFICES ASSUME NEW i \in 1..(n + 1) PROVE b2[i] = [msg |-> o2[i], row |-> r2[o2[i]]]
    OBVIOUS
  <2>1. CASE i = n + 1
    BY <1>7, <1>8, <1>9, <2>1 DEF e
  <2>2. CASE i \in 1..n
    BY <1>1, <1>2, <1>7, <1>8, <1>9, <1>10, <2>2
  <2> QED
    BY <1>1, <2>1, <2>2
<1>12. b2 = Drawn(o2, r2)
  <2>1. b2 = [i \in 1..(n + 1) |-> b2[i]]
    BY <1>8
  <2> QED
    BY <1>7, <1>11, <2>1 DEF Drawn
<1>13. Placed(o2, r2)
  <2>1. \A i, j \in DOMAIN o2 : o2[i] = o2[j] => i = j
    <3> SUFFICES ASSUME NEW i \in 1..(n + 1), NEW j \in 1..(n + 1), o2[i] = o2[j] PROVE i = j
      BY <1>7
    <3>1. CASE i = n + 1 /\ j = n + 1
      BY <3>1
    <3>2. CASE i \in 1..n /\ j \in 1..n
      BY <1>1, <1>7, <3>2, SMTT(30) DEF OnScreen, Placed
    <3> QED
      BY <1>1, <1>7, <1>10, <3>1, <3>2
  <2>2. row # Unshown
    BY RowsAssumption
  <2>3. \A x \in Messages : r2[x] # Unshown <=> \E i \in DOMAIN o2 : o2[i] = x
    <3> SUFFICES ASSUME NEW x \in Messages
                 PROVE  r2[x] # Unshown <=> \E i \in 1..(n + 1) : o2[i] = x
      BY <1>7
    <3>1. r[x] # Unshown <=> \E i \in 1..n : o[i] = x
      BY <1>1 DEF OnScreen, Placed
    <3>2. (\E i \in 1..(n + 1) : o2[i] = x) <=> x = m \/ \E i \in 1..n : o[i] = x
      BY <1>1, <1>7
    <3> QED
      BY <1>9, <2>2, <3>1, <3>2
  <2> QED
    BY <1>7, <2>1, <2>3 DEF Placed
<1> QED
  BY <1>0, <1>6, <1>12, <1>13 DEF OnScreen, e

LEMMA DropFirstIs ==
    ASSUME NEW E, NEW s \in Seq(E), NEW n \in 0..Len(s)
    PROVE  /\ DropFirst(s, n) \in Seq(E) /\ DOMAIN DropFirst(s, n) = 1..(Len(s) - n)
           /\ \A i \in 1..(Len(s) - n) : DropFirst(s, n)[i] = s[n + i]
<1>1. CASE n = Len(s)
  BY <1>1 DEF DropFirst
<1>2. CASE n < Len(s)
  <2>1. DropFirst(s, n) = SubSeq(s, n + 1, Len(s))
    BY <1>2 DEF DropFirst
  <2>2. SubSeq(s, n + 1, Len(s)) \in Seq(E) /\ Len(SubSeq(s, n + 1, Len(s))) = Len(s) - n
    BY <1>2
  <2>3. \A i \in 1..(Len(s) - n) : SubSeq(s, n + 1, Len(s))[i] = s[n + i]
    BY <1>2
  <2> QED
    BY <2>1, <2>2, <2>3
<1> QED
  BY <1>1, <1>2

\* What is evicted leaves from the top: places, rows and bubbles alike.
LEMMA DroppedFromTop ==
    ASSUME NEW o, NEW r \in [Messages -> Row \cup {Unshown}], NEW b, OnScreen(o, r, b),
           NEW n \in 0..Len(o),
           NEW r2, r2 = [x \in Messages |-> IF x \in ToSet(SubSeq(o, 1, n)) THEN Unshown ELSE r[x]]
    PROVE  OnScreen(DropFirst(o, n), r2, DropFirst(b, n))
<1> DEFINE E == [msg : Messages, row : Row \cup {Unshown}]
<1>1. PICK l \in Nat : /\ l = Len(o) /\ DOMAIN o = 1..l /\ \A i \in 1..l : o[i] \in Messages
                       /\ o \in Seq(Messages) /\ n \in 0..l
  BY DEF OnScreen, Placed
<1>2. b = [i \in 1..l |-> [msg |-> o[i], row |-> r[o[i]]]]
  BY <1>1 DEF OnScreen, Drawn
<1>3. b \in [1..l -> E]
  BY <1>1, <1>2
<1> HIDE DEF E
<1>4. b \in Seq(E) /\ Len(b) = l
  BY <1>3, SequenceOf
<1>5. PICK o2, b2 : o2 = DropFirst(o, n) /\ b2 = DropFirst(b, n)
  OBVIOUS
<1>6. /\ o2 \in Seq(Messages) /\ DOMAIN o2 = 1..(l - n)
      /\ \A i \in 1..(l - n) : o2[i] = o[n + i]
  BY <1>1, <1>5, DropFirstIs
<1>7. /\ b2 \in Seq(E) /\ DOMAIN b2 = 1..(l - n)
      /\ \A i \in 1..(l - n) : b2[i] = b[n + i]
  <2>1. n \in 0..Len(b)
    BY <1>1, <1>4
  <2>2. /\ DropFirst(b, n) \in Seq(E) /\ DOMAIN DropFirst(b, n) = 1..(Len(b) - n)
        /\ \A i \in 1..(Len(b) - n) : DropFirst(b, n)[i] = b[n + i]
    BY <1>4, <2>1, DropFirstIs
  <2> QED
    BY <1>4, <1>5, <2>2
<1>8. \A x : x \in ToSet(SubSeq(o, 1, n)) <=> \E i \in 1..n : o[i] = x
  <2>1. DOMAIN SubSeq(o, 1, n) = 1..n /\ \A i \in 1..n : SubSeq(o, 1, n)[i] = o[i]
    BY <1>1
  <2> QED
    BY <2>1 DEF ToSet
<1>9. \A i, j \in 1..l : o[i] = o[j] => i = j
  BY <1>1 DEF OnScreen, Placed
<1>10. \A i \in 1..(l - n) : o2[i] \in Messages /\ r2[o2[i]] = r[o2[i]]
  <2> SUFFICES ASSUME NEW i \in 1..(l - n) PROVE o[n + i] \in Messages /\ r2[o[n + i]] = r[o[n + i]]
    BY <1>6
  <2>1. n + i \in 1..l /\ \A j \in 1..n : j \in 1..l /\ j # n + i
    BY <1>1
  <2>2. o[n + i] \notin ToSet(SubSeq(o, 1, n))
    BY <1>8, <1>9, <2>1
  <2> QED
    BY <1>1, <2>1, <2>2
<1>11. \A i \in 1..(l - n) : b2[i] = [msg |-> o2[i], row |-> r2[o2[i]]]
  <2> SUFFICES ASSUME NEW i \in 1..(l - n) PROVE b2[i] = [msg |-> o2[i], row |-> r2[o2[i]]]
    OBVIOUS
  <2>1. n + i \in 1..l
    BY <1>1
  <2>2. b2[i] = [msg |-> o[n + i], row |-> r[o[n + i]]]
    BY <1>2, <1>7, <2>1
  <2> QED
    BY <1>6, <1>10, <2>2
<1>12. b2 = Drawn(o2, r2)
  <2>1. b2 = [i \in 1..(l - n) |-> b2[i]]
    BY <1>7
  <2> QED
    BY <1>6, <1>11, <2>1 DEF Drawn
<1>13. \A i, j \in DOMAIN o2 : o2[i] = o2[j] => i = j
  <2> SUFFICES ASSUME NEW i \in 1..(l - n), NEW j \in 1..(l - n), o2[i] = o2[j] PROVE i = j
    BY <1>6
  <2>1. n + i \in 1..l /\ n + j \in 1..l /\ i \in Int /\ j \in Int /\ n \in Int
    BY <1>1
  <2>2. n + i = n + j
    BY <1>6, <1>9, <2>1
  <2> QED
    BY <2>1, <2>2
<1>14. \A x \in Messages : r2[x] # Unshown <=> \E i \in DOMAIN o2 : o2[i] = x
  <2> SUFFICES ASSUME NEW x \in Messages
               PROVE  r2[x] # Unshown <=> \E i \in DOMAIN o2 : o2[i] = x
    OBVIOUS
  <2>0. (\E i \in DOMAIN o2 : o2[i] = x) <=> \E i \in 1..(l - n) : o[n + i] = x
    BY <1>6
  <2>1. r[x] # Unshown <=> \E i \in 1..l : o[i] = x
    BY <1>1 DEF OnScreen, Placed
  <2>2. r2[x] # Unshown <=> r[x] # Unshown /\ ~\E i \in 1..n : o[i] = x
    BY <1>8
  <2>3. ASSUME r2[x] # Unshown PROVE \E i \in 1..(l - n) : o[n + i] = x
    <3>1. PICK j \in 1..l : o[j] = x /\ j \notin 1..n
      BY <2>1, <2>2, <2>3
    <3>2. j - n \in 1..(l - n) /\ n + (j - n) = j
      BY <1>1, <3>1
    <3> QED
      BY <3>1, <3>2
  <2>4. ASSUME NEW i \in 1..(l - n), o[n + i] = x PROVE r2[x] # Unshown
    <3>1. n + i \in 1..l /\ \A j \in 1..n : j \in 1..l /\ j # n + i
      BY <1>1
    <3> QED
      BY <1>9, <2>1, <2>2, <2>4, <3>1
  <2> QED
    BY <2>0, <2>3, <2>4
<1> QED
  BY <1>5, <1>6, <1>12, <1>13, <1>14 DEF OnScreen, Placed

LEMMA RemoveAtIs ==
    ASSUME NEW E, NEW s \in Seq(E), NEW p \in 1..Len(s)
    PROVE  /\ RemoveAt(s, p) \in Seq(E) /\ DOMAIN RemoveAt(s, p) = 1..(Len(s) - 1)
           /\ \A i \in 1..(Len(s) - 1) : RemoveAt(s, p)[i] = IF i < p THEN s[i] ELSE s[i + 1]
<1> DEFINE before == SubSeq(s, 1, p - 1)
           after == SubSeq(s, p + 1, Len(s))
<1>1. /\ before \in Seq(E) /\ Len(before) = p - 1 /\ \A i \in 1..(p - 1) : before[i] = s[i]
  OBVIOUS
<1>2. /\ after \in Seq(E) /\ Len(after) = Len(s) - p /\ \A i \in 1..(Len(s) - p) : after[i] = s[p + i]
  <2>1. CASE p = Len(s)
    BY <2>1
  <2>2. CASE p < Len(s)
    BY <2>2
  <2> QED
    BY <2>1, <2>2
<1>3. RemoveAt(s, p) = before \o after
  BY DEF RemoveAt
<1> HIDE DEF before, after
<1>4. /\ before \o after \in Seq(E)
      /\ Len(before \o after) = Len(before) + Len(after)
      /\ DOMAIN (before \o after) = 1..(Len(before) + Len(after))
      /\ \A i \in 1..Len(before) : (before \o after)[i] = before[i]
      /\ \A i \in 1..Len(after) : (before \o after)[Len(before) + i] = after[i]
  <2>1. before \in Seq(E) /\ after \in Seq(E)
    BY <1>1, <1>2
  <2> QED
    BY <2>1, Concatenated
<1>5. DOMAIN (before \o after) = 1..(Len(s) - 1)
  BY <1>1, <1>2, <1>4
<1>6. ASSUME NEW i \in 1..(Len(s) - 1)
      PROVE  (before \o after)[i] = IF i < p THEN s[i] ELSE s[i + 1]
  <2>1. CASE i < p
    BY <1>1, <1>4, <2>1
  <2>2. CASE i >= p
    <3>1. PICK k : k = i - p + 1 /\ k \in 1..Len(after) /\ i = Len(before) + k /\ p + k = i + 1
      BY <1>1, <1>2, <2>2
    <3>2. (before \o after)[i] = after[k]
      BY <1>4, <3>1
    <3>3. after[k] = s[i + 1]
      BY <1>2, <3>1
    <3> QED
      BY <2>2, <3>2, <3>3
  <2>3. i < p \/ i >= p
    OBVIOUS
  <2> QED
    BY <2>1, <2>2, <2>3
<1> QED
  BY <1>3, <1>4, <1>5, <1>6

\* A failed message that is dismissed takes its place and its bubble along.
LEMMA Dismissed ==
    ASSUME NEW o, NEW r \in [Messages -> Row \cup {Unshown}], NEW b, OnScreen(o, r, b),
           NEW m \in Messages, NEW p \in DOMAIN o, o[p] = m
    PROVE  OnScreen(RemoveAt(o, p), [r EXCEPT ![m] = Unshown], RemoveAt(b, p))
<1> DEFINE E == [msg : Messages, row : Row \cup {Unshown}]
<1>1. PICK l \in Nat : /\ l = Len(o) /\ DOMAIN o = 1..l /\ \A i \in 1..l : o[i] \in Messages
                       /\ o \in Seq(Messages) /\ p \in 1..l
  BY DEF OnScreen, Placed
<1>2. b = [i \in 1..l |-> [msg |-> o[i], row |-> r[o[i]]]]
  BY <1>1 DEF OnScreen, Drawn
<1>3. b \in [1..l -> E]
  BY <1>1, <1>2
<1> HIDE DEF E
<1>4. b \in Seq(E) /\ Len(b) = l
  BY <1>3, SequenceOf
<1>5. PICK o2, b2, r2 : o2 = RemoveAt(o, p) /\ b2 = RemoveAt(b, p) /\ r2 = [r EXCEPT ![m] = Unshown]
  OBVIOUS
<1>6. /\ o2 \in Seq(Messages) /\ DOMAIN o2 = 1..(l - 1)
      /\ \A i \in 1..(l - 1) : o2[i] = IF i < p THEN o[i] ELSE o[i + 1]
  BY <1>1, <1>5, RemoveAtIs
<1>7. /\ DOMAIN b2 = 1..(l - 1) /\ b2 = [i \in 1..(l - 1) |-> b2[i]]
      /\ \A i \in 1..(l - 1) : b2[i] = IF i < p THEN b[i] ELSE b[i + 1]
  <2>1. p \in 1..Len(b)
    BY <1>1, <1>4
  <2>2. /\ RemoveAt(b, p) \in Seq(E) /\ DOMAIN RemoveAt(b, p) = 1..(Len(b) - 1)
        /\ \A i \in 1..(Len(b) - 1) : RemoveAt(b, p)[i] = IF i < p THEN b[i] ELSE b[i + 1]
    BY <1>4, <2>1, RemoveAtIs
  <2> QED
    BY <1>4, <1>5, <2>2
<1>8. \A i, j \in 1..l : o[i] = o[j] => i = j
  BY <1>1 DEF OnScreen, Placed
\* Where each place comes from.
<1>9. ASSUME NEW i \in 1..(l - 1)
      PROVE  \E k \in 1..l : /\ k = (IF i < p THEN i ELSE i + 1) /\ k # p
                             /\ o2[i] = o[k] /\ b2[i] = b[k]
  <2>1. CASE i < p
    BY <1>1, <1>6, <1>7, <2>1
  <2>2. CASE i >= p
    BY <1>1, <1>6, <1>7, <2>2
  <2> QED
    BY <1>1, <2>1, <2>2
<1>10. \A i \in 1..(l - 1) : b2[i] = [msg |-> o2[i], row |-> r2[o2[i]]]
  <2> SUFFICES ASSUME NEW i \in 1..(l - 1) PROVE b2[i] = [msg |-> o2[i], row |-> r2[o2[i]]]
    OBVIOUS
  <2>1. PICK k \in 1..l : k # p /\ o2[i] = o[k] /\ b2[i] = b[k]
    BY <1>9
  <2>2. o[k] # m /\ o[k] \in Messages
    BY <1>1, <1>8, <2>1
  <2>3. r2[o[k]] = r[o[k]]
    BY <1>5, <2>2
  <2> QED
    BY <1>2, <2>1, <2>3
<1>11. b2 = Drawn(o2, r2)
  BY <1>6, <1>7, <1>10 DEF Drawn
<1>12. \A i, j \in DOMAIN o2 : o2[i] = o2[j] => i = j
  <2> SUFFICES ASSUME NEW i \in 1..(l - 1), NEW j \in 1..(l - 1), o2[i] = o2[j] PROVE i = j
    BY <1>6
  <2>1. PICK k \in 1..l : k = (IF i < p THEN i ELSE i + 1) /\ o2[i] = o[k]
    BY <1>9
  <2>2. PICK h \in 1..l : h = (IF j < p THEN j ELSE j + 1) /\ o2[j] = o[h]
    BY <1>9
  <2>3. k = h
    BY <1>8, <2>1, <2>2
  <2> QED
    BY <1>1, <2>1, <2>2, <2>3
<1>13. ASSUME NEW x \in Messages PROVE r2[x] # Unshown <=> \E i \in DOMAIN o2 : o2[i] = x
  <2>1. r[x] # Unshown <=> \E i \in 1..l : o[i] = x
    BY <1>1 DEF OnScreen, Placed
  <2>2. r2[x] # Unshown <=> r[x] # Unshown /\ x # m
    BY <1>5
  <2>3. ASSUME r2[x] # Unshown PROVE \E i \in DOMAIN o2 : o2[i] = x
    <3>1. PICK k \in 1..l : o[k] = x
      BY <2>1, <2>2, <2>3
    <3>2. k # p
      BY <2>2, <2>3, <3>1
    <3>3. CASE k < p
      <4>1. k \in 1..(l - 1)
        BY <1>1, <3>3
      <4> QED
        BY <1>6, <3>1, <3>3, <4>1
    <3>4. CASE k > p
      <4>1. PICK i : i = k - 1
        OBVIOUS
      <4>2. i \in 1..(l - 1) /\ ~(i < p) /\ i + 1 = k
        BY <1>1, <3>4, <4>1
      <4> QED
        BY <1>6, <3>1, <4>2
    <3> QED
      BY <1>1, <3>2, <3>3, <3>4
  <2>4. ASSUME NEW i \in 1..(l - 1), o2[i] = x PROVE r2[x] # Unshown
    <3>1. PICK k \in 1..l : k # p /\ o2[i] = o[k]
      BY <1>9
    <3> QED
      BY <1>1, <1>8, <2>1, <2>2, <2>4, <3>1
  <2> QED
    BY <1>6, <2>3, <2>4
<1> QED
  BY <1>5, <1>6, <1>11, <1>12, <1>13 DEF OnScreen, Placed

\* What is rendered anew is what stands in the order.
LEMMA RenderedIs ==
    ASSUME NEW o, NEW r, Placed(o, r)
    PROVE  Rendered(o, r) = Drawn(o, r)
<1>0. ASSUME NEW i \in DOMAIN o PROVE r[o[i]] # Unshown
  <2>1. o[i] \in Messages
    BY DEF Placed
  <2> QED
    BY <2>1 DEF Placed
<1>1. {i \in DOMAIN o : r[o[i]] # Unshown} = DOMAIN o
  BY <1>0
<1>2. o \in Seq(Messages)
  BY DEF Placed
<1>3. Kept(o, DOMAIN o) = o
  BY <1>2, KeptAll
<1>4. Kept(o, {i \in DOMAIN o : r[o[i]] # Unshown}) = o
  BY <1>1, <1>3
<1> QED
  BY <1>4 DEF Rendered, Drawn

-----------------------------------------------------------------------------
(* What the list does with a row *)

\* What the rows of the others become: nothing new.
OnlyChanges(m, r2) == \A x \in Messages \ {m} : r2[x] \in {rows[x], Unshown}

LEMMA UpdatedInPlace ==
    ASSUME rows \in [Messages -> Row \cup {Unshown}], OnScreen(order, rows, bubbles),
           NEW m \in Messages, Known(m), NEW row \in Row
    PROVE  /\ m \in ToSet(order)
           /\ OnScreen(order, [rows EXCEPT ![m] = row], Updated(m, row))
<1>1. Position(m) \in DOMAIN order /\ order[Position(m)] = m /\ m \in ToSet(order)
  BY PositionIs DEF OnScreen
<1>2. PICK p \in DOMAIN order : p = Position(m) /\ order[p] = m
  BY <1>1
<1>3. DOMAIN bubbles = DOMAIN order
  BY DEF OnScreen, Drawn
<1>4. Updated(m, row) = [bubbles EXCEPT ![p] = [msg |-> m, row |-> row]]
  BY <1>2, <1>3 DEF Updated
<1>5. OnScreen(order, [rows EXCEPT ![m] = row], [bubbles EXCEPT ![p] = [msg |-> m, row |-> row]])
  BY <1>2, ReplacedInPlace
<1> QED
  BY <1>1, <1>4, <1>5

\* A row that is changed where it stands.
LEMMA Changed ==
    ASSUME rows \in [Messages -> Row \cup {Unshown}], OnScreen(order, rows, bubbles),
           NEW m \in Messages, Known(m), NEW row \in Row,
           rows' = [rows EXCEPT ![m] = row],
           bubbles' = IF m \in ToSet(order) THEN Updated(m, row) ELSE bubbles,
           order' = order
    PROVE  /\ rows' \in [Messages -> Row \cup {Unshown}] /\ OnScreen(order', rows', bubbles')
           /\ OnlyChanges(m, rows') /\ rows'[m] = row
<1>1. m \in ToSet(order) /\ OnScreen(order, [rows EXCEPT ![m] = row], Updated(m, row))
  BY UpdatedInPlace
<1>2. OnScreen(order', rows', bubbles')
  BY <1>1
<1> QED
  BY <1>2 DEF OnlyChanges

LEMMA Taken ==
    ASSUME rows \in [Messages -> Row \cup {Unshown}], OnScreen(order, rows, bubbles),
           NEW m \in Messages, NEW row \in Row, Take(m, row)
    PROVE  /\ rows' \in [Messages -> Row \cup {Unshown}] /\ OnScreen(order', rows', bubbles')
           /\ OnlyChanges(m, rows') /\ rows'[m] \in {row, Unshown}
<1>1. CASE Known(m)
  <2>1. /\ rows' = [rows EXCEPT ![m] = row]
        /\ bubbles' = IF m \in ToSet(order) THEN Updated(m, row) ELSE bubbles
        /\ order' = order
    BY <1>1 DEF Take
  <2> QED
    BY <1>1, <2>1, Changed
<1>2. CASE ~Known(m)
  <2> DEFINE longer == Append(order, m)
             n == Overflow(longer)
             evicted == ToSet(SubSeq(longer, 1, n))
             more == [rows EXCEPT ![m] = row]
             below == Append(bubbles, [msg |-> m, row |-> row])
  <2>1. /\ order' = DropFirst(longer, n) /\ bubbles' = DropFirst(below, n)
        /\ rows' = [x \in Messages |-> IF x \in evicted THEN Unshown ELSE IF x = m THEN row ELSE rows[x]]
    BY <1>2 DEF Take
  <2>2. OnScreen(longer, more, below)
    BY <1>2, AddedBelow DEF Known
  <2>3. more \in [Messages -> Row \cup {Unshown}] /\ \A x \in Messages : more[x] = IF x = m THEN row ELSE rows[x]
    OBVIOUS
  <2>4. order \in Seq(Messages) /\ longer \in Seq(Messages)
    BY DEF OnScreen, Placed
  <2> HIDE DEF longer, more, below
  <2>5. n \in 0..Len(longer)
    <3>1. PICK cap : cap = IF atBottom THEN LiveCap ELSE HardCeiling
      OBVIOUS
    <3>2. cap \in Nat
      BY <3>1, RowsAssumption
    <3>3. n = IF Len(longer) > cap THEN Len(longer) - cap ELSE 0
      BY <3>1 DEF Overflow
    <3> QED
      BY <2>4, <3>2, <3>3
  <2>6. PICK k \in 0..Len(longer) : k = n
    BY <2>5
  <2> HIDE DEF n
  <2>7. rows' = [x \in Messages |-> IF x \in ToSet(SubSeq(longer, 1, k)) THEN Unshown ELSE more[x]]
    BY <2>1, <2>3, <2>6
  <2>8. OnScreen(DropFirst(longer, k), rows', DropFirst(below, k))
    BY <2>2, <2>3, <2>7, DroppedFromTop
  <2>9. OnScreen(order', rows', bubbles')
    BY <2>1, <2>6, <2>8
  <2> QED
    BY <2>3, <2>7, <2>9 DEF OnlyChanges
<1> QED
  BY <1>1, <1>2

-----------------------------------------------------------------------------
(* What is still to come *)

\* Rows that lose nothing but deleted ones.
LEMMA StillStreamed ==
    ASSUME NEW s, NEW r, NEW r2, NEW deleted, NEW more, Streamed(s, r, deleted), deleted \subseteq more,
           \A x \in Messages : IsGone(r2, x) => IsGone(r, x)
    PROVE  Streamed(s, r2, more)
<1>1. \A i \in DOMAIN s : s[i].msg \in Messages
  BY DEF Streamed, StreamEvent
<1> QED
  BY <1>1 DEF Streamed, IsGone

\* The first of what is to come is handed over, and deletes at most its own row.
LEMMA HandedOver ==
    ASSUME NEW s, NEW r, NEW r2, NEW deleted, Streamed(s, r, deleted), s # <<>>,
           \A x \in Messages : IsGone(r2, x) =>
                IsGone(r, x) \/ (x = s[1].msg /\ ~NotYetGone(s[1]))
    PROVE  Streamed(Tail(s), r2, deleted)
<1>1. PICK t : t = Tail(s)
  OBVIOUS
<1>2. /\ t \in Seq(StreamEvent) /\ DOMAIN t = 1..(Len(s) - 1) /\ DOMAIN s = 1..Len(s)
      /\ Len(s) \in Nat \ {0} /\ \A i \in 1..(Len(s) - 1) : t[i] = s[i + 1]
  BY <1>1, TailOf DEF Streamed
<1>3. \A i \in DOMAIN s : s[i].msg \in Messages
  BY DEF Streamed, StreamEvent
<1>4. /\ \A x \in Messages : IsGone(r, x) => x \in deleted
      /\ \A i \in DOMAIN s :
            /\ ~NotYetGone(s[i]) => s[i].msg \in deleted
            /\ NotYetGone(s[i]) =>
                /\ ~IsGone(r, s[i].msg)
                /\ \A j \in 1..i-1 : s[j].msg = s[i].msg => NotYetGone(s[j])
  BY DEF Streamed, IsGone
<1>5. \A x \in Messages : IsGone(r2, x) => x \in deleted
  <2>1. 1 \in DOMAIN s
    BY <1>2
  <2> QED
    BY <1>4, <2>1
<1>6. ASSUME NEW i \in DOMAIN t
      PROVE  /\ ~NotYetGone(t[i]) => t[i].msg \in deleted
             /\ NotYetGone(t[i]) =>
                 /\ ~IsGone(r2, t[i].msg)
                 /\ \A j \in 1..i-1 : t[j].msg = t[i].msg => NotYetGone(t[j])
  <2>1. PICK k : k = i + 1 /\ k \in DOMAIN s /\ t[i] = s[k] /\ 1 \in 1..k-1
    BY <1>2
  <2>2. ~NotYetGone(t[i]) => t[i].msg \in deleted
    BY <1>4, <2>1
  <2>3. NotYetGone(t[i]) => ~IsGone(r2, t[i].msg)
    BY <1>3, <1>4, <2>1
  <2>4. ASSUME NotYetGone(t[i]), NEW j \in 1..i-1, t[j].msg = t[i].msg PROVE NotYetGone(t[j])
    <3>1. j + 1 \in 1..k-1 /\ t[j] = s[j + 1]
      BY <1>2, <2>1
    <3> QED
      BY <1>4, <2>1, <2>4, <3>1
  <2> QED
    BY <2>2, <2>3, <2>4
<1> QED
  BY <1>1, <1>2, <1>5, <1>6 DEF Streamed, IsGone

\* What the server sends is of its present state.
LEMMA Sent ==
    ASSUME NEW s, NEW r, NEW deleted, NEW more, Streamed(s, r, deleted), deleted \subseteq more,
           NEW e \in StreamEvent, NotYetGone(e) => e.msg \notin more, ~NotYetGone(e) => e.msg \in more
    PROVE  Streamed(Append(s, e), r, more)
<1>1. PICK t, n : t = Append(s, e) /\ n = Len(s)
  OBVIOUS
<1>2. /\ t \in Seq(StreamEvent) /\ DOMAIN t = 1..(n + 1) /\ DOMAIN s = 1..n /\ n \in Nat
      /\ (\A i \in 1..n : t[i] = s[i]) /\ t[n + 1] = e
  BY <1>1, Appended DEF Streamed
<1>3. /\ \A x \in Messages : IsGone(r, x) => x \in deleted
      /\ \A i \in DOMAIN s :
            /\ ~NotYetGone(s[i]) => s[i].msg \in deleted
            /\ NotYetGone(s[i]) =>
                /\ ~IsGone(r, s[i].msg)
                /\ \A j \in 1..i-1 : s[j].msg = s[i].msg => NotYetGone(s[j])
  BY DEF Streamed, IsGone
<1>4. e.msg \in Messages
  BY DEF StreamEvent
<1>5. ASSUME NEW i \in DOMAIN t
      PROVE  /\ ~NotYetGone(t[i]) => t[i].msg \in more
             /\ NotYetGone(t[i]) =>
                 /\ ~IsGone(r, t[i].msg)
                 /\ \A j \in 1..i-1 : t[j].msg = t[i].msg => NotYetGone(t[j])
  <2>1. CASE i \in 1..n
    <3>1. \A j \in 1..i-1 : j \in 1..n
      BY <1>2, <2>1
    <3> QED
      BY <1>2, <1>3, <2>1, <3>1
  <2>2. CASE i = n + 1
    <3>1. \A j \in 1..i-1 : j \in 1..n
      BY <1>2, <2>2
    <3> QED
      BY <1>2, <1>3, <1>4, <2>2, <3>1
  <2> QED
    BY <1>2, <2>1, <2>2
<1> QED
  BY <1>1, <1>2, <1>3, <1>5 DEF Streamed, IsGone

\* A replay: rows as their messages are now.
LEMMA Replayed ==
    ASSUME NEW s \in Seq([op : {"row"}, msg : Messages, row : Row]), NEW r, NEW deleted,
           \A x \in Messages : IsGone(r, x) => x \in deleted,
           \A i \in DOMAIN s : s[i].row.gone <=> s[i].msg \in deleted
    PROVE  Streamed(s, r, deleted)
<1>0. PICK R : R = [op : {"row"}, msg : Messages, row : Row]
  OBVIOUS
<1>1. s \in Seq(R)
  BY <1>0
<1>2. \A i \in DOMAIN s : s[i] \in R
  BY <1>1
<1>5. R \subseteq StreamEvent
  BY <1>0 DEF StreamEvent
<1>6. s \in Seq(StreamEvent)
  BY <1>1, <1>5
<1>7. \A i \in DOMAIN s : s[i].msg \in Messages
  BY <1>0, <1>2
<1>3. \A i \in DOMAIN s : NotYetGone(s[i]) <=> s[i].msg \notin deleted
  BY <1>0, <1>2 DEF NotYetGone
<1>4. \A i \in DOMAIN s : DOMAIN s = 1..Len(s) /\ Len(s) \in Nat /\ \A j \in 1..i-1 : j \in DOMAIN s
  OBVIOUS
<1>8. ASSUME NEW i \in DOMAIN s
      PROVE  /\ ~NotYetGone(s[i]) => s[i].msg \in deleted
             /\ NotYetGone(s[i]) =>
                 /\ ~IsGone(r, s[i].msg)
                 /\ \A j \in 1..i-1 : s[j].msg = s[i].msg => NotYetGone(s[j])
  BY <1>3, <1>4, <1>7
<1> QED
  BY <1>6, <1>8 DEF Streamed, IsGone

-----------------------------------------------------------------------------
(* Steps *)

\* Each keeps what is deleted so, but for a row the deletion has overtaken.
GoneStay ==
    \A m \in Messages : IsGone(rows, m) => rows'[m] = Unshown \/ IsGone(rows', m) \/ OvertakenRow(m)

LEMMA FreshIs ==
    ASSUME NEW m
    PROVE  Fresh(m) \in Row /\ (Fresh(m).gone <=> m \in tombstones)
<1>1. PICK gone \in BOOLEAN : gone <=> m \in tombstones
  OBVIOUS
<1>2. Fresh(m) = [echo |-> FALSE, gone |-> gone, failed |-> FALSE]
  BY <1>1 DEF Fresh
<1> QED
  BY <1>1, <1>2 DEF Row

LEMMA RowEventsAre ==
    ASSUME log \in Seq(Messages)
    PROVE  /\ RowEvents(log) \in Seq([op : {"row"}, msg : Messages, row : Row])
           /\ \A i \in DOMAIN RowEvents(log) :
                RowEvents(log)[i].row.gone <=> RowEvents(log)[i].msg \in tombstones
<1> DEFINE E == [op : {"row"}, msg : Messages, row : Row]
<1>1. PICK n \in Nat : DOMAIN log = 1..n /\ \A i \in 1..n : log[i] \in Messages
  OBVIOUS
<1>2. PICK s : s = RowEvents(log)
  OBVIOUS
<1>3. s = [i \in 1..n |-> [op |-> "row", msg |-> log[i], row |-> Fresh(log[i])]]
  BY <1>1, <1>2 DEF RowEvents
<1>4. \A i \in 1..n : Fresh(log[i]) \in Row /\ (Fresh(log[i]).gone <=> log[i] \in tombstones)
  BY FreshIs
<1>5. s \in [1..n -> E]
  BY <1>1, <1>3, <1>4
<1>6. \A i \in DOMAIN s : s[i].row.gone <=> s[i].msg \in tombstones
  BY <1>3, <1>4
<1> HIDE DEF E
<1>7. s \in Seq(E)
  BY <1>5, SequenceOf
<1> QED
  BY <1>2, <1>6, <1>7 DEF E

\* What a replay hands over is events.
LEMMA RowsAreEvents ==
    ASSUME NEW s \in Seq([op : {"row"}, msg : Messages, row : Row])
    PROVE  s \in Seq(StreamEvent)
<1>1. PICK R : R = [op : {"row"}, msg : Messages, row : Row]
  OBVIOUS
<1>2. s \in Seq(R) /\ R \subseteq StreamEvent
  BY <1>1 DEF StreamEvent
<1>3. PICK n \in Nat : n = Len(s) /\ s \in [1..n -> R]
  BY <1>2
<1>4. s \in [1..n -> StreamEvent]
  BY <1>2, <1>3
<1> QED
  BY <1>4, SequenceOf

\* What is missed is rows.
LEMMA MissedAre ==
    ASSUME NEW s \in Seq(StreamEvent)
    PROVE  LET missed == Kept(s, {i \in DOMAIN s : s[i].op = "row"})
           IN /\ missed \in Seq([op : {"row"}, msg : Messages, row : Row])
              /\ s = <<>> => missed = <<>>
<1> DEFINE E == [op : {"row"}, msg : Messages, row : Row]
<1>1. PICK keep : keep = {i \in DOMAIN s : s[i].op = "row"}
  OBVIOUS
<1>2. PICK missed : missed = Kept(s, keep)
  OBVIOUS
<1>3. keep \subseteq DOMAIN s
  BY <1>1
<1>4. missed \in Seq(StreamEvent) /\ \A i \in DOMAIN missed : \E j \in keep : missed[i] = s[j]
  BY <1>2, <1>3, KeptElements
<1>5. PICK n \in Nat : n = Len(missed) /\ DOMAIN missed = 1..n /\ missed \in [1..n -> StreamEvent]
  BY <1>4
<1>6. ASSUME NEW i \in 1..n PROVE missed[i] \in E
  <2>1. PICK j \in keep : missed[i] = s[j]
    BY <1>4, <1>5
  <2>2. s[j] \in StreamEvent /\ s[j].op = "row"
    BY <1>1
  <2> QED
    BY <2>1, <2>2 DEF StreamEvent
<1>7. missed \in [1..n -> E]
  BY <1>5, <1>6
<1>8. s = <<>> => n = 0
  BY <1>1, <1>4, <1>5
<1>9. s = <<>> => missed = <<>>
  BY <1>4, <1>5, <1>8
<1> HIDE DEF E
<1>10. missed \in Seq(E)
  BY <1>7, SequenceOf
<1> QED
  BY <1>1, <1>2, <1>9, <1>10 DEF E

\* And they are handed over as their messages are now.
LEMMA RefreshedAre ==
    ASSUME NEW missed \in Seq([op : {"row"}, msg : Messages, row : Row])
    PROVE  LET r == [i \in DOMAIN missed |-> [missed[i] EXCEPT !.row = Fresh(missed[i].msg)]]
           IN /\ r \in Seq([op : {"row"}, msg : Messages, row : Row])
              /\ \A i \in DOMAIN r : r[i].row.gone <=> r[i].msg \in tombstones
              /\ missed = <<>> => r = <<>>
<1> DEFINE E == [op : {"row"}, msg : Messages, row : Row]
<1>0. missed \in Seq(E)
  OBVIOUS
<1> HIDE DEF E
<1>1. PICK n \in Nat : n = Len(missed) /\ DOMAIN missed = 1..n /\ missed \in [1..n -> E]
  BY <1>0
<1> USE DEF E
<1>2. PICK r : r = [i \in 1..n |-> [missed[i] EXCEPT !.row = Fresh(missed[i].msg)]]
  OBVIOUS
<1>3. \A m : Fresh(m) \in Row /\ (Fresh(m).gone <=> m \in tombstones)
  BY FreshIs
<1>4. ASSUME NEW i \in 1..n
      PROVE  r[i] \in E /\ (r[i].row.gone <=> r[i].msg \in tombstones)
  <2>1. PICK x \in E : x = missed[i]
    BY <1>1
  <2>2. PICK row : row = Fresh(x.msg)
    OBVIOUS
  <2>3. r[i] = [x EXCEPT !.row = row] /\ row \in Row /\ (row.gone <=> x.msg \in tombstones)
    BY <1>2, <1>3, <2>1, <2>2
  <2> QED
    BY <2>3
<1>5. r \in [1..n -> E]
  BY <1>2, <1>4
<1>6. missed = <<>> => n = 0
  BY <1>1
<1> HIDE DEF E
<1>7. r \in Seq(E) /\ Len(r) = n /\ DOMAIN r = 1..n
  BY <1>5, SequenceOf
<1>8. missed = <<>> => r = <<>>
  BY <1>6, <1>7
<1> QED
  BY <1>1, <1>2, <1>4, <1>7, <1>8 DEF E

LEMMA GapIs ==
    ASSUME stream \in [Subscriptions -> Seq(StreamEvent)], NEW s \in Subscriptions, StreamGap(s)
    PROVE  \E r \in Seq([op : {"row"}, msg : Messages, row : Row]) :
              /\ stream' = [stream EXCEPT ![s] = r]
              /\ \A i \in DOMAIN r : r[i].row.gone <=> r[i].msg \in tombstones
              /\ stream[s] = <<>> => r = <<>>
<1>1. PICK t : t = stream[s] /\ t \in Seq(StreamEvent)
  OBVIOUS
<1>2. PICK missed : missed = Kept(t, {i \in DOMAIN t : t[i].op = "row"})
  OBVIOUS
<1>3. PICK r : r = [i \in DOMAIN missed |-> [missed[i] EXCEPT !.row = Fresh(missed[i].msg)]]
  OBVIOUS
<1>4. stream' = [stream EXCEPT ![s] = r]
  BY <1>1, <1>2, <1>3 DEF StreamGap
<1>5. missed \in Seq([op : {"row"}, msg : Messages, row : Row]) /\ (t = <<>> => missed = <<>>)
  BY <1>1, <1>2, MissedAre
<1>6. /\ r \in Seq([op : {"row"}, msg : Messages, row : Row])
      /\ \A i \in DOMAIN r : r[i].row.gone <=> r[i].msg \in tombstones
      /\ missed = <<>> => r = <<>>
  BY <1>3, <1>5, RefreshedAre
<1> QED
  BY <1>1, <1>4, <1>5, <1>6

\* What every step keeps, whether a message is entered twice or not.
LEMMA RowsBaseStep ==
    ASSUME RowsBase, [RowsNext]_rowsVars
    PROVE  RowsBase'
<1> USE DEF RowsBase
<1>1. CASE PageArrives
  <2>1. RowEvents(log) \in Seq(StreamEvent)
    BY RowEventsAre, RowsAreEvents
  <2> QED
    BY <1>1, <2>1 DEF PageArrives
<1>2. CASE PageFails \/ RetryMount \/ RosterArrives \/ Scroll
  BY <1>2 DEF PageFails, RetryMount, RosterArrives, Scroll
<1>3. ASSUME NEW s \in Subscriptions, StreamDelivers(s) PROVE RowsBase'
  <2>1. PICK t : t = stream[s]
    OBVIOUS
  <2>2. t \in Seq(StreamEvent) /\ t # <<>>
    BY <1>3, <2>1 DEF StreamDelivers
  <2>3. Tail(t) \in Seq(StreamEvent)
    BY <2>2, TailOf
  <2>4. /\ stream' = [stream EXCEPT ![s] = Tail(t)] /\ listStage' = "live"
        /\ UNCHANGED <<log, tombstones, loops>>
    BY <1>3, <2>1 DEF StreamDelivers
  <2> QED
    BY <2>3, <2>4
<1>4. ASSUME NEW s \in Subscriptions, StreamGap(s) PROVE RowsBase'
  <2>1. PICK r : /\ r \in Seq([op : {"row"}, msg : Messages, row : Row])
                 /\ stream' = [stream EXCEPT ![s] = r]
    BY <1>4, GapIs
  <2>2. listStage' = "live" /\ UNCHANGED <<log, tombstones, loops>>
    BY <1>4 DEF StreamGap
  <2>3. r \in Seq(StreamEvent)
    BY <2>1, RowsAreEvents
  <2> QED
    BY <2>1, <2>2, <2>3
<1>5. CASE Resubscribe
  <2>1. RowEvents(log) \in Seq(StreamEvent)
    BY RowEventsAre, RowsAreEvents
  <2>2. /\ stream' = [stream EXCEPT !["loop"] = RowEvents(log)] /\ listStage' = "live"
        /\ loops' = loops + 1 /\ UNCHANGED <<log, tombstones>>
    BY <1>5 DEF Resubscribe
  <2>3. stream' \in [Subscriptions -> Seq(StreamEvent)]
    BY <2>1, <2>2
  <2>4. loops' \in Nat
    BY <2>2
  <2> QED
    BY <2>2, <2>3, <2>4
<1>6. ASSUME NEW m \in Messages, Echo(m) \/ MarkSendFailed(m) \/ RemoveRow(m) PROVE RowsBase'
  BY <1>6 DEF Echo, MarkSendFailed, RemoveRow
<1>7. ASSUME NEW m \in Messages, ServerAppends(m) PROVE RowsBase'
  <2>1. PICK e : e = [op |-> "row", msg |-> m, row |-> Fresh(m)]
    OBVIOUS
  <2>2. e \in StreamEvent
    BY <2>1, FreshIs DEF StreamEvent
  <2>3. /\ m \notin ToSet(log) /\ log' = Append(log, m) /\ Emit(e)
        /\ UNCHANGED <<tombstones, listStage, bubbles, loops>>
    BY <1>7, <2>1 DEF ServerAppends
  <2>4. stream' \in [Subscriptions -> Seq(StreamEvent)]
    BY <2>2, <2>3 DEF Emit
  <2>5. PICK l, n : l = Append(log, m) /\ n = Len(log)
    OBVIOUS
  <2>6. /\ l \in Seq(Messages) /\ DOMAIN l = 1..(n + 1) /\ DOMAIN log = 1..n /\ n \in Nat
        /\ (\A i \in 1..n : l[i] = log[i]) /\ l[n + 1] = m
    BY <2>5, Appended
  <2>7. \A i \in 1..n : log[i] # m
    BY <2>3, <2>6 DEF ToSet
  <2>8. ASSUME NEW i \in DOMAIN l, NEW j \in DOMAIN l, l[i] = l[j] PROVE i = j
    <3>1. CASE i \in 1..n /\ j \in 1..n
      BY <2>6, <2>8, <3>1
    <3>2. CASE i \notin 1..n /\ j \notin 1..n
      BY <2>6, <3>2
    <3> QED
      BY <2>6, <2>7, <2>8, <3>1, <3>2
  <2>9. tombstones \subseteq ToSet(l)
    <3>1. \A i \in DOMAIN log : i \in DOMAIN l /\ l[i] = log[i]
      BY <2>6
    <3> QED
      BY <3>1 DEF ToSet
  <2> QED
    BY <2>3, <2>4, <2>5, <2>6, <2>8, <2>9
<1>8. ASSUME NEW m \in Messages, ServerDeletes(m) PROVE RowsBase'
  <2>1. PICK e : e = [op |-> "delete", msg |-> m]
    OBVIOUS
  <2>2. e \in StreamEvent
    BY <2>1 DEF StreamEvent
  <2>3. /\ m \in ToSet(log) /\ tombstones' = tombstones \cup {m} /\ Emit(e)
        /\ UNCHANGED <<log, listStage, bubbles, loops>>
    BY <1>8, <2>1 DEF ServerDeletes
  <2>4. stream' \in [Subscriptions -> Seq(StreamEvent)]
    BY <2>2, <2>3 DEF Emit
  <2> QED
    BY <2>3, <2>4
<1>9. CASE DestroyList
  <2>1. <<>> \in Seq(StreamEvent)
    OBVIOUS
  <2> QED
    BY <1>9, <2>1 DEF DestroyList
<1>10. CASE UNCHANGED rowsVars
  BY <1>10 DEF rowsVars
<1> QED
  BY <1>1, <1>2, <1>3, <1>4, <1>5, <1>6, <1>7, <1>8, <1>9, <1>10 DEF RowsNext

\* The page goes below what was echoed before it, and all of it is drawn.
LEMMA PageIsShown ==
    ASSUME RowsBase, RowsShown, PageArrives, ~doubled'
    PROVE  RowsShown' /\ GoneStay
<1>1. /\ log \in Seq(Messages) /\ \A i, j \in DOMAIN log : log[i] = log[j] => i = j
      /\ rows \in [Messages -> Row \cup {Unshown}] /\ Placed(order, rows)
      /\ \A m \in Messages : ~IsGone(rows, m)
      /\ stream \in [Subscriptions -> Seq(StreamEvent)]
      /\ loops = 0 => stream["loop"] = <<>>
  BY DEF RowsBase, RowsShown, PageArrives
<1>2. PICK k : k = IF Len(log) < PageLimit THEN Len(log) ELSE PageLimit
  OBVIOUS
<1>3. k \in 0..Len(log)
  BY <1>1, <1>2, RowsAssumption
<1>4. PICK page : page = SubSeq(log, 1, k)
  OBVIOUS
<1>5. /\ page \in Seq(Messages) /\ DOMAIN page = 1..k /\ Len(page) = k
      /\ \A i \in 1..k : page[i] = log[i]
  BY <1>1, <1>3, <1>4
<1>6. \A i, j \in 1..k : page[i] = page[j] => i = j
  BY <1>1, <1>3, <1>5
<1>7. /\ rows' = [m \in Messages |-> IF m \in ToSet(page) THEN Fresh(m) ELSE rows[m]]
      /\ order' = order \o page /\ bubbles' = Rendered(order', rows')
      /\ ToSet(page) \cap ToSet(order) = {}
      /\ stream' = [stream EXCEPT !["own"] = RowEvents(log)] /\ listStage' = "live"
      /\ UNCHANGED <<log, tombstones, loops>>
  BY <1>2, <1>4 DEF PageArrives
<1>8. PICK n \in Nat : n = Len(order) /\ DOMAIN order = 1..n /\ order \in Seq(Messages)
  BY <1>1 DEF Placed
<1>9. PICK o : o = order \o page
  OBVIOUS
<1>10. /\ o \in Seq(Messages) /\ DOMAIN o = 1..(n + k)
       /\ \A i \in 1..n : o[i] = order[i]
       /\ \A i \in 1..k : o[n + i] = page[i]
  BY <1>5, <1>8, <1>9, Concatenated
<1>11. /\ \A i \in 1..n, j \in 1..k : order[i] # page[j]
       /\ \A m : m \in ToSet(page) <=> \E i \in 1..k : page[i] = m
  BY <1>5, <1>7, <1>8 DEF ToSet
<1>12. \A i, j \in 1..n : order[i] = order[j] => i = j
  <2>1. Placed(order, rows)
    BY <1>1
  <2>2. \A i, j \in DOMAIN order : order[i] = order[j] => i = j
    BY <2>1 DEF Placed
  <2> QED
    BY <1>8, <2>2
<1>13. k \in Nat /\ \A i \in 1..(n + k) : i \in 1..n \/ \E h \in 1..k : i = n + h
  <2>1. k \in Nat
    BY <1>1, <1>3
  <2>2. ASSUME NEW i \in 1..(n + k), i \notin 1..n PROVE \E h \in 1..k : i = n + h
    <3>1. i - n \in 1..k /\ i = n + (i - n)
      BY <2>1, <2>2
    <3> QED
      BY <3>1
  <2> QED
    BY <2>1, <2>2
<1>14. ASSUME NEW i \in DOMAIN o, NEW j \in DOMAIN o, o[i] = o[j] PROVE i = j
  <2>1. CASE i \in 1..n /\ j \in 1..n
    BY <1>10, <1>12, <1>14, <2>1
  <2>2. CASE i \in 1..n /\ j \notin 1..n
    BY <1>10, <1>11, <1>13, <1>14, <2>2
  <2>3. CASE i \notin 1..n /\ j \in 1..n
    BY <1>10, <1>11, <1>13, <1>14, <2>3
  <2>4. CASE i \notin 1..n /\ j \notin 1..n
    <3>1. PICK h \in 1..k : i = n + h
      BY <1>10, <1>13, <2>4
    <3>2. PICK g \in 1..k : j = n + g
      BY <1>10, <1>13, <2>4
    <3>3. page[h] = page[g]
      BY <1>10, <1>14, <3>1, <3>2
    <3> QED
      BY <1>6, <3>1, <3>2, <3>3
  <2> QED
    BY <2>1, <2>2, <2>3, <2>4
<1>15. PICK r : r = rows'
  OBVIOUS
<1>16. \A m : Fresh(m) \in Row /\ Fresh(m) # Unshown /\ (Fresh(m).gone <=> m \in tombstones)
  BY FreshIs, RowsAssumption
<1>17. \A m \in Messages : r[m] = IF m \in ToSet(page) THEN Fresh(m) ELSE rows[m]
  BY <1>7, <1>15
<1>18. rows' \in [Messages -> Row \cup {Unshown}]
  BY <1>1, <1>7, <1>16
<1>19. ASSUME NEW m \in Messages PROVE r[m] # Unshown <=> \E i \in DOMAIN o : o[i] = m
  <2>1. rows[m] # Unshown <=> \E i \in 1..n : order[i] = m
    BY <1>1, <1>8 DEF Placed
  <2>2. (\E i \in DOMAIN o : o[i] = m) <=> (\E i \in 1..n : order[i] = m) \/ \E i \in 1..k : page[i] = m
    <3>1. ASSUME NEW i \in DOMAIN o, o[i] = m
          PROVE  (\E h \in 1..n : order[h] = m) \/ \E h \in 1..k : page[h] = m
      BY <1>10, <1>13, <3>1
    <3>2. \A i \in 1..n : i \in DOMAIN o /\ o[i] = order[i]
      BY <1>10, <1>13
    <3>3. \A i \in 1..k : n + i \in DOMAIN o /\ o[n + i] = page[i]
      BY <1>10, <1>13
    <3> QED
      BY <3>1, <3>2, <3>3
  <2> QED
    BY <1>11, <1>16, <1>17, <2>1, <2>2
<1>20. Placed(o, r)
  BY <1>10, <1>14, <1>19 DEF Placed
<1>21. Rendered(o, r) = Drawn(o, r)
  BY <1>20, RenderedIs
<1>22. Placed(order', rows') /\ bubbles' = Drawn(order', rows')
  BY <1>7, <1>9, <1>15, <1>20, <1>21
<1>23. \A x \in Messages : IsGone(r, x) => x \in tombstones
  BY <1>1, <1>16, <1>17 DEF IsGone
<1>24. Streamed(RowEvents(log), r, tombstones)
  BY <1>1, <1>23, RowEventsAre, Replayed
<1>25. loops' = 0 => stream'["loop"] = <<>> /\ Streamed(stream'["own"], rows', tombstones')
  BY <1>1, <1>7, <1>15, <1>24 DEF Subscriptions
<1> QED
  BY <1>1, <1>7, <1>18, <1>22, <1>25 DEF RowsShown, GoneStay

\* A step of the list while it is shown.
LEMMA ShownStep ==
    ASSUME listStage' = "live",
           rows' \in [Messages -> Row \cup {Unshown}], OnScreen(order', rows', bubbles'),
           loops' = 0 => stream'["loop"] = <<>> /\ Streamed(stream'["own"], rows', tombstones')
    PROVE  RowsShown'
BY DEF RowsShown, OnScreen

LEMMA RowDelivered ==
    ASSUME RowsBase, RowsShown, NEW s \in Subscriptions, StreamDelivers(s)
    PROVE  RowsShown' /\ GoneStay
<1>0. PICK t : t = stream[s]
  OBVIOUS
<1>1. /\ listStage = "live" /\ listStage' = "live" /\ t # <<>>
      /\ stream' = [stream EXCEPT ![s] = Tail(@)]
      /\ IF Head(t).op = "row" THEN Take(Head(t).msg, Head(t).row) ELSE Delete(Head(t).msg)
      /\ log' = log /\ tombstones' = tombstones /\ loops' = loops
  BY <1>0 DEF StreamDelivers
<1>2. /\ rows \in [Messages -> Row \cup {Unshown}] /\ OnScreen(order, rows, bubbles)
      /\ stream \in [Subscriptions -> Seq(StreamEvent)] /\ t \in Seq(StreamEvent)
      /\ loops = 0 => s = "own" /\ Streamed(t, rows, tombstones)
  BY <1>0, <1>1 DEF RowsBase, RowsShown, OnScreen, Subscriptions
<1>3. PICK e : e = Head(t) /\ e = t[1] /\ e \in StreamEvent /\ 1 \in DOMAIN t
  BY <1>1, <1>2, TailOf
<1>4. e.msg \in Messages /\ (e.op = "row" => e.row \in Row) /\ (e.op # "row" => ~NotYetGone(e))
  BY <1>3 DEF StreamEvent, NotYetGone
<1>5. loops = 0 /\ NotYetGone(e) => ~IsGone(rows, e.msg)
  BY <1>2, <1>3 DEF Streamed, IsGone
\* The step's effect, whichever it is.
<1>6. /\ rows' \in [Messages -> Row \cup {Unshown}] /\ OnScreen(order', rows', bubbles')
      /\ OnlyChanges(e.msg, rows')
      /\ IsGone(rows', e.msg) => IsGone(rows, e.msg) \/ ~NotYetGone(e)
      /\ IsGone(rows, e.msg) => rows'[e.msg] = Unshown \/ IsGone(rows', e.msg) \/ NotYetGone(e)
  <2>1. CASE e.op = "row"
    <3>1. Take(e.msg, e.row)
      BY <1>1, <1>3, <2>1
    <3>2. PICK m, row : m = e.msg /\ row = e.row /\ m \in Messages /\ row \in Row /\ Take(m, row)
      BY <1>4, <2>1, <3>1
    <3>3. /\ rows' \in [Messages -> Row \cup {Unshown}] /\ OnScreen(order', rows', bubbles')
          /\ OnlyChanges(m, rows') /\ rows'[m] \in {row, Unshown}
      BY <1>2, <3>2, Taken
    <3>4. NotYetGone(e) <=> ~row.gone
      BY <2>1, <3>2 DEF NotYetGone
    <3> QED
      BY <3>2, <3>3, <3>4 DEF IsGone
  <2>2. CASE e.op # "row" /\ Known(e.msg)
    <3>1. PICK m, row : m = e.msg /\ row = [rows[m] EXCEPT !.gone = TRUE]
      OBVIOUS
    <3>2. m \in Messages /\ rows[m] \in Row /\ row \in Row /\ row.gone /\ Known(m)
      BY <1>2, <1>4, <2>2, <3>1 DEF Known, Row
    <3>3. Delete(m)
      BY <1>1, <1>3, <2>2, <3>1
    <3>4. /\ rows' = [rows EXCEPT ![m] = row]
          /\ bubbles' = IF m \in ToSet(order) THEN Updated(m, row) ELSE bubbles
          /\ order' = order
      BY <3>1, <3>2, <3>3 DEF Delete
    <3>5. /\ rows' \in [Messages -> Row \cup {Unshown}] /\ OnScreen(order', rows', bubbles')
          /\ OnlyChanges(m, rows') /\ rows'[m] = row
      BY <1>2, <3>2, <3>4, Changed
    <3>6. row # Unshown
      BY <3>2, RowsAssumption
    <3> QED
      BY <1>4, <2>2, <3>1, <3>2, <3>5, <3>6 DEF IsGone
  <2>3. CASE e.op # "row" /\ ~Known(e.msg)
    <3>1. rows' = rows /\ order' = order /\ bubbles' = bubbles
      BY <1>1, <1>3, <2>3 DEF Delete
    <3> QED
      BY <1>2, <3>1 DEF OnlyChanges, IsGone
  <2> QED
    BY <2>1, <2>2, <2>3
<1>7. PICK r2 : r2 = rows'
  OBVIOUS
\* With one subscription what is to come is still in order.
<1>8. ASSUME loops = 0
      PROVE  stream'["loop"] = <<>> /\ Streamed(stream'["own"], rows', tombstones')
  <2>1. \A x \in Messages : IsGone(r2, x) => IsGone(rows, x) \/ (x = t[1].msg /\ ~NotYetGone(t[1]))
    BY <1>3, <1>6, <1>7 DEF OnlyChanges, IsGone
  <2>2. Streamed(Tail(t), r2, tombstones)
    BY <1>1, <1>2, <1>8, <2>1, HandedOver
  <2>3. stream["loop"] = <<>>
    BY <1>8 DEF RowsShown
  <2>4. stream'["own"] = Tail(t) /\ stream'["loop"] = stream["loop"]
    BY <1>0, <1>1, <1>2, <1>8 DEF Subscriptions
  <2> QED
    BY <1>1, <1>7, <2>2, <2>3, <2>4
<1>9. RowsShown'
  BY <1>1, <1>6, <1>8, ShownStep
<1>10. loops # 0 /\ NotYetGone(e) => OvertakenRow(e.msg)
  <2> SUFFICES ASSUME loops # 0, NotYetGone(e) PROVE OvertakenRow(e.msg)
    OBVIOUS
  <2>1. loops > 0
    BY DEF RowsBase
  <2>2. stream[s] # <<>> /\ Head(stream[s]) = e /\ e.op = "row" /\ ~e.row.gone
    BY <1>0, <1>1, <1>3 DEF NotYetGone
  <2> QED
    BY <1>1, <2>1, <2>2 DEF OvertakenRow
<1>11. GoneStay
  BY <1>5, <1>6, <1>10 DEF GoneStay, OnlyChanges, IsGone
<1> QED
  BY <1>9, <1>11

LEMMA RowsStreamGap ==
    ASSUME RowsBase, RowsShown, NEW s \in Subscriptions, StreamGap(s)
    PROVE  RowsShown' /\ GoneStay
<1>1. PICK r \in Seq([op : {"row"}, msg : Messages, row : Row]) :
          /\ stream' = [stream EXCEPT ![s] = r]
          /\ \A i \in DOMAIN r : r[i].row.gone <=> r[i].msg \in tombstones
          /\ stream[s] = <<>> => r = <<>>
  BY GapIs DEF RowsBase
<1>2. /\ listStage = "live" /\ listStage' = "live"
      /\ UNCHANGED <<log, tombstones, rows, order, bubbles, loops>>
  BY DEF StreamGap
<1>3. /\ rows \in [Messages -> Row \cup {Unshown}] /\ OnScreen(order, rows, bubbles)
      /\ stream \in [Subscriptions -> Seq(StreamEvent)]
      /\ loops = 0 => stream["loop"] = <<>> /\ Streamed(stream["own"], rows, tombstones)
  BY <1>2 DEF RowsBase, RowsShown, OnScreen
<1>5. ASSUME loops = 0
      PROVE  stream'["loop"] = <<>> /\ Streamed(stream'["own"], rows, tombstones)
  <2>1. \A x \in Messages : IsGone(rows, x) => x \in tombstones
    BY <1>3, <1>5 DEF Streamed, IsGone
  <2>2. Streamed(r, rows, tombstones)
    BY <1>1, <2>1, Replayed
  <2>3. CASE s = "own"
    BY <1>1, <1>3, <1>5, <2>2, <2>3 DEF Subscriptions
  <2>4. CASE s = "loop"
    BY <1>1, <1>3, <1>5, <2>4 DEF Subscriptions
  <2> QED
    BY <2>3, <2>4 DEF Subscriptions
<1>6. RowsShown'
  BY <1>2, <1>3, <1>5, ShownStep
<1> QED
  BY <1>2, <1>6 DEF GoneStay, IsGone

\* Steps that leave what is shown as it is, with one subscription or with two.
LEMMA RowsResubscribe ==
    ASSUME RowsBase, RowsShown, Resubscribe
    PROVE  RowsShown' /\ GoneStay
<1>1. /\ listStage = "live" /\ listStage' = "live" /\ loops' # 0
      /\ UNCHANGED <<rows, order, bubbles>>
  BY DEF Resubscribe, RowsBase
<1> QED
  BY <1>1 DEF RowsShown, GoneStay, IsGone

LEMMA RowsRosterArrives ==
    ASSUME RowsBase, RowsShown, RosterArrives
    PROVE  RowsShown' /\ GoneStay
<1>1. /\ listStage = "live" /\ listStage' = "live" /\ bubbles' = Rendered(order, rows)
      /\ UNCHANGED <<log, tombstones, rows, order, stream, loops>>
  BY DEF RosterArrives
<1>2. Rendered(order, rows) = Drawn(order, rows)
  BY RenderedIs DEF RowsShown
<1> QED
  BY <1>1, <1>2 DEF RowsShown, GoneStay, IsGone

-----------------------------------------------------------------------------
(* What the user and the page do, before the first page and after it *)

\* A step that deletes nothing, and draws right where what is drawn was right.
LEMMA UserStep ==
    ASSUME RowsShown, UNCHANGED <<tombstones, listStage, stream, loops>>,
           rows' \in [Messages -> Row \cup {Unshown}], Placed(order', rows'),
           bubbles = Drawn(order, rows) => bubbles' = Drawn(order', rows'),
           (\A m \in Messages : ~IsGone(rows, m)) /\ bubbles \in Seq(Standing)
                => bubbles' \in Seq(Standing),
           \A x \in Messages : IsGone(rows', x) => IsGone(rows, x)
    PROVE  RowsShown'
<1>1. PICK r2 : r2 = rows'
  OBVIOUS
<1>2. ASSUME loops = 0 PROVE Streamed(stream'["own"], rows', tombstones')
  <2>1. Streamed(stream["own"], rows, tombstones)
    BY <1>2 DEF RowsShown
  <2>2. Streamed(stream["own"], r2, tombstones)
    BY <1>1, <2>1, StillStreamed
  <2> QED
    BY <1>1, <2>2
<1> QED
  BY <1>2 DEF RowsShown

LEMMA StandingAre ==
    ASSUME NEW m \in Messages, NEW row \in Row, ~row.gone
    PROVE  [msg |-> m, row |-> row] \in Standing
BY DEF Standing

LEMMA FewerStand ==
    ASSUME NEW E, NEW s \in Seq(E), NEW n \in Nat
    PROVE  DropFirst(s, n) \in Seq(E)
<1>1. CASE n >= Len(s)
  BY <1>1 DEF DropFirst
<1>2. CASE n < Len(s)
  <2>1. n \in 0..Len(s)
    BY <1>2
  <2> QED
    BY <2>1, DropFirstIs
<1> QED
  BY <1>1, <1>2

LEMMA AnotherStands ==
    ASSUME NEW E, NEW s \in Seq(E), NEW p \in DOMAIN s, NEW e \in E
    PROVE  [s EXCEPT ![p] = e] \in Seq(E)
<1>1. PICK n \in Nat : n = Len(s) /\ DOMAIN s = 1..n /\ s \in [1..n -> E]
  OBVIOUS
<1>2. [s EXCEPT ![p] = e] \in [1..n -> E]
  BY <1>1
<1> QED
  BY <1>2, SequenceOf

\* A new row at the bottom, wherever the bubbles are.
LEMMA TakenRows ==
    ASSUME rows \in [Messages -> Row \cup {Unshown}], Placed(order, rows),
           NEW m \in Messages, NEW row \in Row, ~Known(m), Take(m, row)
    PROVE  /\ rows' \in [Messages -> Row \cup {Unshown}] /\ Placed(order', rows')
           /\ OnlyChanges(m, rows') /\ rows'[m] \in {row, Unshown}
           /\ \E n \in Nat : bubbles' = DropFirst(Append(bubbles, [msg |-> m, row |-> row]), n)
<1> DEFINE longer == Append(order, m)
           n == Overflow(longer)
           evicted == ToSet(SubSeq(longer, 1, n))
           more == [rows EXCEPT ![m] = row]
           below == Append(Drawn(order, rows), [msg |-> m, row |-> row])
<1>1. /\ order' = DropFirst(longer, n)
      /\ bubbles' = DropFirst(Append(bubbles, [msg |-> m, row |-> row]), n)
      /\ rows' = [x \in Messages |-> IF x \in evicted THEN Unshown ELSE IF x = m THEN row ELSE rows[x]]
  BY DEF Take
<1>2. OnScreen(longer, more, below)
  <2>1. OnScreen(order, rows, Drawn(order, rows)) /\ rows[m] = Unshown
    BY DEF OnScreen, Known
  <2> QED
    BY <2>1, AddedBelow
<1>3. more \in [Messages -> Row \cup {Unshown}] /\ \A x \in Messages : more[x] = IF x = m THEN row ELSE rows[x]
  OBVIOUS
<1>4. order \in Seq(Messages) /\ longer \in Seq(Messages)
  BY DEF Placed
<1> HIDE DEF longer, more, below
<1>5. n \in 0..Len(longer)
  <2>1. PICK cap : cap = IF atBottom THEN LiveCap ELSE HardCeiling
    OBVIOUS
  <2>2. cap \in Nat
    BY <2>1, RowsAssumption
  <2>3. n = IF Len(longer) > cap THEN Len(longer) - cap ELSE 0
    BY <2>1 DEF Overflow
  <2> QED
    BY <1>4, <2>2, <2>3
<1>6. PICK k \in 0..Len(longer) : k = n
  BY <1>5
<1> HIDE DEF n
<1>7. rows' = [x \in Messages |-> IF x \in ToSet(SubSeq(longer, 1, k)) THEN Unshown ELSE more[x]]
  BY <1>1, <1>3, <1>6
<1>8. OnScreen(DropFirst(longer, k), rows', DropFirst(below, k))
  BY <1>2, <1>3, <1>7, DroppedFromTop
<1>9. Placed(order', rows')
  BY <1>1, <1>6, <1>8 DEF OnScreen
<1>10. k \in Nat
  BY <1>4
<1> QED
  BY <1>1, <1>3, <1>6, <1>7, <1>9, <1>10 DEF OnlyChanges

LEMMA RowsEcho ==
    ASSUME RowsShown, NEW m \in Messages, Echo(m)
    PROVE  RowsShown' /\ GoneStay
<1>1. PICK row : row = [echo |-> TRUE, gone |-> FALSE, failed |-> FALSE]
  OBVIOUS
<1>2. ~Known(m) /\ Take(m, row) /\ UNCHANGED <<tombstones, listStage, stream, loops>>
  BY <1>1 DEF Echo
<1>3. rows \in [Messages -> Row \cup {Unshown}] /\ Placed(order, rows)
  BY DEF RowsShown
<1>4. row \in Row /\ ~row.gone
  BY <1>1 DEF Row
<1>5. /\ rows' \in [Messages -> Row \cup {Unshown}] /\ Placed(order', rows')
      /\ OnlyChanges(m, rows') /\ rows'[m] \in {row, Unshown}
      /\ \E n \in Nat : bubbles' = DropFirst(Append(bubbles, [msg |-> m, row |-> row]), n)
  BY <1>2, <1>3, <1>4, TakenRows
<1>6. bubbles = Drawn(order, rows) => bubbles' = Drawn(order', rows')
  <2>1. ASSUME OnScreen(order, rows, bubbles) PROVE OnScreen(order', rows', bubbles')
    BY <1>2, <1>3, <1>4, <2>1, Taken
  <2> QED
    BY <1>3, <2>1 DEF OnScreen
<1>7. ASSUME bubbles \in Seq(Standing) PROVE bubbles' \in Seq(Standing)
  <2>0. PICK e : e = [msg |-> m, row |-> row]
    OBVIOUS
  <2>1. PICK n \in Nat : bubbles' = DropFirst(Append(bubbles, e), n)
    BY <1>5, <2>0
  <2>2. e \in Standing
    BY <1>4, <2>0, StandingAre
  <2>3. Append(bubbles, e) \in Seq(Standing)
    BY <1>7, <2>2, Appended
  <2> QED
    BY <2>1, <2>3, FewerStand
<1>8. \A x \in Messages : IsGone(rows', x) => IsGone(rows, x)
  BY <1>4, <1>5 DEF OnlyChanges, IsGone
<1>9. RowsShown'
  BY <1>2, <1>5, <1>6, <1>7, <1>8, UserStep
<1>10. GoneStay
  BY <1>2, <1>5 DEF GoneStay, OnlyChanges, IsGone, Known
<1> QED
  BY <1>9, <1>10

LEMMA RowsMarkSendFailed ==
    ASSUME RowsShown, NEW m \in Messages, MarkSendFailed(m)
    PROVE  RowsShown' /\ GoneStay
<1>1. PICK row : row = [rows[m] EXCEPT !.failed = TRUE]
  OBVIOUS
<1>2. /\ Known(m) /\ rows' = [rows EXCEPT ![m] = row]
      /\ bubbles' = IF m \in ToSet(order) THEN Updated(m, row) ELSE bubbles
      /\ UNCHANGED <<tombstones, listStage, order, stream, loops>>
  BY <1>1 DEF MarkSendFailed
<1>3. rows \in [Messages -> Row \cup {Unshown}] /\ Placed(order, rows)
  BY DEF RowsShown
<1>4. row \in Row /\ (row.gone <=> rows[m].gone) /\ rows[m] \in Row
  BY <1>1, <1>2, <1>3 DEF Row, Known
<1>5. rows' \in [Messages -> Row \cup {Unshown}] /\ OnlyChanges(m, rows') /\ rows'[m] = row
  BY <1>2, <1>3, <1>4 DEF OnlyChanges
<1>6. Placed(order', rows')
  <2>1. PICK p \in DOMAIN order : order[p] = m
    BY <1>2, <1>3 DEF Placed, Known
  <2>2. OnScreen(order, rows, Drawn(order, rows))
    BY <1>3 DEF OnScreen
  <2>3. OnScreen(order, [rows EXCEPT ![m] = row], [Drawn(order, rows) EXCEPT ![p] = [msg |-> m, row |-> row]])
    BY <1>3, <1>4, <2>1, <2>2, ReplacedInPlace
  <2> QED
    BY <1>2, <2>3 DEF OnScreen
<1>7. bubbles = Drawn(order, rows) => bubbles' = Drawn(order', rows')
  <2>1. ASSUME OnScreen(order, rows, bubbles) PROVE OnScreen(order', rows', bubbles')
    BY <1>2, <1>3, <1>4, <2>1, Changed
  <2> QED
    BY <1>3, <2>1 DEF OnScreen
<1>8. ASSUME bubbles \in Seq(Standing), ~IsGone(rows, m) PROVE bubbles' \in Seq(Standing)
  <2>1. PICK e : e = [msg |-> m, row |-> row]
    OBVIOUS
  <2>2. e \in Standing
    BY <1>2, <1>4, <1>8, <2>1, StandingAre DEF IsGone, Known
  <2>3. ASSUME Position(m) \in DOMAIN bubbles PROVE [bubbles EXCEPT ![Position(m)] = e] \in Seq(Standing)
    BY <1>8, <2>2, <2>3, AnotherStands
  <2> QED
    BY <1>2, <1>8, <2>1, <2>3 DEF Updated
<1>9. \A x \in Messages : IsGone(rows', x) => IsGone(rows, x)
  BY <1>2, <1>4, <1>5 DEF OnlyChanges, IsGone, Known
<1>10. RowsShown'
  BY <1>2, <1>5, <1>6, <1>7, <1>8, <1>9, UserStep
<1>11. row # Unshown
  BY <1>4, RowsAssumption
<1>12. GoneStay
  BY <1>4, <1>5, <1>11 DEF GoneStay, OnlyChanges, IsGone
<1> QED
  BY <1>10, <1>12

LEMMA RowsRemoveRow ==
    ASSUME RowsShown, NEW m \in Messages, RemoveRow(m)
    PROVE  RowsShown' /\ GoneStay
<1>1. /\ Known(m) /\ rows' = [rows EXCEPT ![m] = Unshown]
      /\ order' = RemoveAt(order, Position(m))
      /\ bubbles' = IF Position(m) \in DOMAIN bubbles THEN RemoveAt(bubbles, Position(m)) ELSE bubbles
      /\ UNCHANGED <<tombstones, listStage, stream, loops>>
  BY DEF RemoveRow
<1>2. rows \in [Messages -> Row \cup {Unshown}] /\ Placed(order, rows)
  BY DEF RowsShown
<1>3. PICK p \in DOMAIN order : p = Position(m) /\ order[p] = m
  BY <1>1, <1>2, PositionIs
<1>4. OnScreen(order, rows, Drawn(order, rows))
  BY <1>2 DEF OnScreen
<1>5. OnScreen(RemoveAt(order, p), [rows EXCEPT ![m] = Unshown], RemoveAt(Drawn(order, rows), p))
  BY <1>2, <1>3, <1>4, Dismissed
<1>6. Placed(order', rows')
  BY <1>1, <1>3, <1>5 DEF OnScreen
<1>7. bubbles = Drawn(order, rows) => bubbles' = Drawn(order', rows')
  <2>1. DOMAIN Drawn(order, rows) = DOMAIN order
    BY DEF Drawn
  <2> QED
    BY <1>1, <1>3, <1>5, <2>1 DEF OnScreen
<1>8. ASSUME bubbles \in Seq(Standing) PROVE bubbles' \in Seq(Standing)
  <2>1. ASSUME p \in DOMAIN bubbles PROVE RemoveAt(bubbles, p) \in Seq(Standing)
    <3>1. p \in 1..Len(bubbles)
      BY <1>8, <2>1
    <3> QED
      BY <1>8, <3>1, RemoveAtIs
  <2> QED
    BY <1>1, <1>3, <1>8, <2>1
<1>9. \A x \in Messages : rows'[x] = IF x = m THEN Unshown ELSE rows[x]
  BY <1>1, <1>2
<1>10. rows' \in [Messages -> Row \cup {Unshown}]
  BY <1>1, <1>2
<1>11. \A x \in Messages : IsGone(rows', x) => IsGone(rows, x)
  BY <1>9 DEF IsGone
<1>12. RowsShown'
  BY <1>1, <1>6, <1>7, <1>8, <1>10, <1>11, UserStep
<1>13. GoneStay
  BY <1>9 DEF GoneStay, IsGone
<1> QED
  BY <1>12, <1>13

-----------------------------------------------------------------------------
(* The server *)

\* What happens goes to the list's own subscription, and to no other there is.
LEMMA Emitted ==
    ASSUME RowsBase, RowsShown, loops = 0, NEW e \in StreamEvent, Emit(e), NEW more,
           tombstones \subseteq more, NotYetGone(e) => e.msg \notin more,
           ~NotYetGone(e) => e.msg \in more
    PROVE  stream'["loop"] = <<>> /\ Streamed(stream'["own"], rows, more)
<1>1. Streamed(stream["own"], rows, tombstones) /\ stream["loop"] = <<>>
  BY DEF RowsShown
<1>2. /\ stream'["own"] = IF listStage = "live" THEN Append(stream["own"], e) ELSE stream["own"]
      /\ stream'["loop"] = stream["loop"]
  BY DEF Emit, Subscriptions
<1>3. Streamed(Append(stream["own"], e), rows, more)
  BY <1>1, Sent
<1>4. Streamed(stream["own"], rows, more)
  BY <1>1, StillStreamed
<1> QED
  BY <1>1, <1>2, <1>3, <1>4

LEMMA RowsServerAppends ==
    ASSUME RowsBase, RowsShown, NEW m \in Messages, ServerAppends(m)
    PROVE  RowsShown' /\ GoneStay
<1>1. PICK e : e = [op |-> "row", msg |-> m, row |-> Fresh(m)]
  OBVIOUS
<1>2. m \notin tombstones /\ Emit(e) /\ UNCHANGED <<tombstones, listStage, rows, order, bubbles, loops>>
  BY <1>1 DEF ServerAppends, RowsBase
<1>3. e \in StreamEvent /\ e.msg = m /\ NotYetGone(e)
  BY <1>1, <1>2, FreshIs DEF StreamEvent, NotYetGone
<1>4. loops = 0 => stream'["loop"] = <<>> /\ Streamed(stream'["own"], rows, tombstones)
  BY <1>2, <1>3, Emitted
<1> QED
  BY <1>2, <1>4 DEF RowsShown, GoneStay, IsGone

LEMMA RowsServerDeletes ==
    ASSUME RowsBase, RowsShown, NEW m \in Messages, ServerDeletes(m)
    PROVE  RowsShown' /\ GoneStay
<1>1. PICK e, more : e = [op |-> "delete", msg |-> m] /\ more = tombstones \cup {m}
  OBVIOUS
<1>2. tombstones' = more /\ Emit(e) /\ UNCHANGED <<listStage, rows, order, bubbles, loops>>
  BY <1>1 DEF ServerDeletes
<1>3. e \in StreamEvent /\ e.msg = m /\ ~NotYetGone(e) /\ tombstones \subseteq more /\ m \in more
  BY <1>1 DEF StreamEvent, NotYetGone
<1>4. loops = 0 => stream'["loop"] = <<>> /\ Streamed(stream'["own"], rows, more)
  BY <1>2, <1>3, Emitted
<1> QED
  BY <1>2, <1>4 DEF RowsShown, GoneStay, IsGone

-----------------------------------------------------------------------------
(* The invariant *)

\* With no rows at all nothing is out of place.
LEMMA NothingShown ==
    ASSUME NEW r, \A m \in Messages : r[m] = Unshown
    PROVE  Placed(<<>>, r) /\ Drawn(<<>>, r) = <<>> /\ \A m \in Messages : ~IsGone(r, m)
<1>1. DOMAIN <<>> = {} /\ <<>> \in Seq(Messages)
  OBVIOUS
<1> QED
  BY <1>1 DEF Placed, Drawn, IsGone

LEMMA RowsInitInv == RowsInit => RowsInv
<1> SUFFICES ASSUME RowsInit PROVE RowsInv
  OBVIOUS
<1>1. PICK n \in 0..PageLimit + 1 : log \in [1..n -> Messages \ Mine]
  BY DEF RowsInit
<1>2. n \in Nat
  BY RowsAssumption
<1>3. log \in [1..n -> Messages]
  BY <1>1
<1>4. log \in Seq(Messages)
  BY <1>2, <1>3, SequenceOf
<1>5. \A i, j \in DOMAIN log : log[i] = log[j] => i = j
  BY DEF RowsInit, IsInjective
<1>6. PICK r : r = rows /\ \A m \in Messages : r[m] = Unshown
  BY DEF RowsInit
<1>7. Placed(<<>>, r) /\ Drawn(<<>>, r) = <<>> /\ \A m \in Messages : ~IsGone(r, m)
  BY <1>6, NothingShown
<1>8. DOMAIN <<>> = {} /\ <<>> \in Seq(StreamEvent)
  OBVIOUS
<1>9. Streamed(<<>>, r, {})
  BY <1>6, <1>8 DEF Streamed
<1>10. stream = [s \in Subscriptions |-> <<>>] /\ stream["own"] = <<>> /\ stream["loop"] = <<>>
  BY DEF RowsInit, Subscriptions
<1>11. RowsShown
  BY <1>6, <1>7, <1>9, <1>10 DEF RowsShown, RowsInit
<1>12. RowsBase
  BY <1>4, <1>5, <1>8, <1>10 DEF RowsBase, RowsInit
<1> QED
  BY <1>11, <1>12 DEF RowsInv

\* What each step keeps, while no message is entered twice.
LEMMA RowsShownStep ==
    ASSUME RowsBase, RowsShown, [RowsNext]_rowsVars, listStage' # "destroyed", ~doubled'
    PROVE  RowsShown' /\ GoneStay
<1>1. CASE PageArrives
  BY <1>1, PageIsShown
<1>2. CASE PageFails
  <2>1. <<>> \in Seq(Standing)
    OBVIOUS
  <2> QED
    BY <1>2, <2>1 DEF PageFails, RowsShown, GoneStay
<1>3. CASE RetryMount
  <2>1. PICK r : r = rows' /\ \A m \in Messages : r[m] = Unshown
    BY <1>3 DEF RetryMount
  <2>2. Placed(<<>>, r) /\ Drawn(<<>>, r) = <<>> /\ \A m \in Messages : ~IsGone(r, m)
    BY <2>1, NothingShown
  <2>3. /\ order' = <<>> /\ bubbles' = <<>> /\ rows' \in [Messages -> Row \cup {Unshown}]
        /\ UNCHANGED <<tombstones, stream, loops>> /\ listStage = "failed" /\ listStage' = "listing"
    BY <1>3 DEF RetryMount
  <2>4. Placed(order', rows') /\ bubbles' = Drawn(order', rows')
    BY <2>1, <2>2, <2>3
  <2>5. \A x \in Messages : IsGone(rows', x) => IsGone(rows, x)
    BY <2>1, <2>2
  <2>6. ASSUME loops = 0 PROVE Streamed(stream'["own"], rows', tombstones')
    <3>1. Streamed(stream["own"], rows, tombstones)
      BY <2>6 DEF RowsShown
    <3>2. Streamed(stream["own"], r, tombstones)
      BY <2>1, <2>5, <3>1, StillStreamed
    <3> QED
      BY <2>1, <2>3, <3>2
  <2> QED
    BY <2>1, <2>2, <2>3, <2>4, <2>6 DEF RowsShown, GoneStay
<1>4. ASSUME NEW s \in Subscriptions, StreamDelivers(s) \/ StreamGap(s) PROVE RowsShown' /\ GoneStay
  BY <1>4, RowDelivered, RowsStreamGap
<1>5. CASE Resubscribe
  BY <1>5, RowsResubscribe
<1>6. ASSUME NEW m \in Messages,
             Echo(m) \/ MarkSendFailed(m) \/ RemoveRow(m) \/ ServerAppends(m) \/ ServerDeletes(m)
      PROVE  RowsShown' /\ GoneStay
  BY <1>6, RowsEcho, RowsMarkSendFailed, RowsRemoveRow, RowsServerAppends, RowsServerDeletes
<1>7. CASE RosterArrives
  BY <1>7, RowsRosterArrives
<1>8. CASE Scroll
  BY <1>8 DEF Scroll, RowsShown, GoneStay, IsGone
<1>9. CASE DestroyList
  BY <1>9 DEF DestroyList
<1>10. CASE UNCHANGED rowsVars
  BY <1>10 DEF rowsVars, RowsShown, GoneStay, IsGone
<1> QED
  BY <1>1, <1>2, <1>3, <1>4, <1>5, <1>6, <1>7, <1>8, <1>9, <1>10 DEF RowsNext

\* A destroyed list does nothing more, what is entered twice stays so, and a list
\* that is shown is so until it is destroyed.
LEMMA RowsNextDoubled ==
    ASSUME [RowsNext]_rowsVars, listStage' # "destroyed", ~doubled'
    PROVE  listStage # "destroyed" /\ ~doubled /\ (listStage = "live" => listStage' = "live")
<1> DEFINE Goal == listStage # "destroyed" /\ ~doubled /\ (listStage = "live" => listStage' = "live")
<1>1. CASE UNCHANGED rowsVars
  BY <1>1 DEF rowsVars
<1>2. ASSUME NEW s \in Subscriptions, StreamDelivers(s) \/ StreamGap(s) PROVE Goal
  BY <1>2 DEF StreamDelivers, StreamGap
<1>3. ASSUME NEW m \in Messages,
             Echo(m) \/ MarkSendFailed(m) \/ RemoveRow(m) \/ ServerAppends(m) \/ ServerDeletes(m)
      PROVE  Goal
  BY <1>3 DEF Echo, MarkSendFailed, RemoveRow, ServerAppends, ServerDeletes
<1>4. CASE PageArrives
  BY <1>4, Zenon DEF PageArrives
<1>5. CASE PageFails \/ RetryMount
  BY <1>5 DEF PageFails, RetryMount
<1>6. CASE Resubscribe \/ RosterArrives \/ Scroll
  BY <1>6 DEF Resubscribe, RosterArrives, Scroll
<1>7. CASE DestroyList
  BY <1>7 DEF DestroyList
<1> QED
  BY <1>1, <1>2, <1>3, <1>4, <1>5, <1>6, <1>7 DEF RowsNext

LEMMA RowsNextInv ==
    ASSUME RowsInv, [RowsNext]_rowsVars
    PROVE  RowsInv' /\ (listStage' # "destroyed" /\ ~doubled' => GoneStay)
<1>1. RowsBase'
  BY RowsBaseStep DEF RowsInv
<1>2. ASSUME listStage' # "destroyed", ~doubled' PROVE RowsShown
  <2>1. listStage # "destroyed" /\ ~doubled
    BY <1>2, RowsNextDoubled
  <2> QED
    BY <2>1 DEF RowsInv
<1>3. ASSUME listStage' # "destroyed", ~doubled' PROVE RowsShown' /\ GoneStay
  BY <1>2, <1>3, RowsShownStep DEF RowsInv
<1> QED
  BY <1>1, <1>3 DEF RowsInv

LEMMA AlwaysRowsInv == RowsSpec => []RowsInv
<1>1. RowsInv /\ [RowsNext]_rowsVars => RowsInv'
  BY RowsNextInv
<1> QED
  BY <1>1, RowsInitInv, PTL DEF RowsSpec

\* However echoes come before the first page and after it, rows and deletions on
\* two streams, replays, failures, dismissals and evictions: unless the page has
\* a message that was echoed before it, every bubble stands where its message
\* stands in the order and shows its row.
THEOREM BubblesStand == RowsSpec => []BubblesMatchRows
<1>1. RowsInv => BubblesMatchRows
  <2> SUFFICES ASSUME RowsInv, listStage = "live", ~doubled
               PROVE  /\ IsInjective(order)
                      /\ ToSet(order) = {m \in Messages : Known(m)}
                      /\ bubbles = [i \in DOMAIN order |-> [msg |-> order[i], row |-> rows[order[i]]]]
    BY DEF BubblesMatchRows
  <2>1. Placed(order, rows) /\ bubbles = Drawn(order, rows)
    BY DEF RowsInv, RowsShown
  <2>2. IsInjective(order)
    BY <2>1 DEF Placed, IsInjective
  <2>3. \A i \in DOMAIN order : order[i] \in Messages
    BY <2>1 DEF Placed
  <2>4. ToSet(order) = {m \in Messages : Known(m)}
    BY <2>1, <2>3 DEF Placed, ToSet, Known
  <2> QED
    BY <2>1, <2>2, <2>4 DEF Drawn
<1> QED
  BY <1>1, AlwaysRowsInv, PTL

\* What a bubble shows as deleted, with no message entered twice, is deleted in
\* the rows; and only while the list is shown.
LEMMA TombstoneIsGone ==
    ASSUME RowsInv, ~doubled, NEW m \in Messages, Tombstone(m)
    PROVE  listStage = "live" /\ IsGone(rows, m)
<1>1. PICK i \in DOMAIN bubbles : bubbles[i].msg = m /\ bubbles[i].row.gone
  BY DEF Tombstone
<1>2. listStage \in {"listing", "failed", "live"} /\ RowsShown
  BY <1>1 DEF RowsInv, RowsBase
<1>3. listStage # "failed"
  <2> SUFFICES ASSUME listStage = "failed" PROVE FALSE
    OBVIOUS
  <2>1. bubbles[i] \in Standing
    BY <1>2 DEF RowsShown
  <2> QED
    BY <1>1, <2>1 DEF Standing
<1>4. bubbles = Drawn(order, rows) /\ Placed(order, rows)
  BY <1>2, <1>3 DEF RowsShown
<1>5. IsGone(rows, m)
  BY <1>1, <1>4 DEF Placed, Drawn, IsGone
<1> QED
  BY <1>2, <1>3, <1>5 DEF RowsShown

\* And a message that is shown as deleted is never shown with its text again, by
\* no replay, redelivery, failed send, dismissal or redraw: but by a row that the
\* other of two subscriptions hands over late, or with a message entered twice.
THEOREM TombstonesStay == RowsSpec => DeletedStaysDeleted
<1>1. RowsInv /\ RowsInv' /\ [RowsNext]_rowsVars
        => [\A m \in Messages : Tombstone(m) /\ ~OvertakenRow(m) /\ ~doubled' => ~Body(m)']_rowsVars
  <2> SUFFICES ASSUME RowsInv, RowsInv', [RowsNext]_rowsVars, NEW m \in Messages,
                      Tombstone(m), ~OvertakenRow(m), ~doubled', Body(m)'
               PROVE  FALSE
    OBVIOUS
  <2>1. listStage' # "destroyed"
    BY DEF Body, RowsInv, RowsBase
  <2>2. ~doubled
    BY <2>1, RowsNextDoubled
  <2>3. listStage = "live" /\ IsGone(rows, m)
    BY <2>2, TombstoneIsGone
  <2>4. listStage' = "live"
    BY <2>1, <2>3, RowsNextDoubled
  <2>5. Placed(order', rows') /\ bubbles' = Drawn(order', rows')
    BY <2>4 DEF RowsInv, RowsShown
  <2>6. PICK j \in DOMAIN bubbles' : bubbles'[j].msg = m /\ ~bubbles'[j].row.gone
    BY DEF Body
  <2>7. rows'[m] # Unshown /\ ~IsGone(rows', m)
    BY <2>5, <2>6 DEF Placed, Drawn, IsGone
  <2>8. GoneStay
    BY <2>1, RowsNextInv
  <2> QED
    BY <2>3, <2>7, <2>8 DEF GoneStay
<1>2. RowsSpec => []RowsInv
  BY AlwaysRowsInv
<1> QED
  BY <1>1, <1>2, PTL DEF RowsSpec, DeletedStaysDeleted

-----------------------------------------------------------------------------
(***************************************************************************)
(* VoiceRecording: who holds the microphone.                               *)
(***************************************************************************)

RecordingSpec == VoiceInit /\ [][VoiceNext]_voiceVars

\* A recording the chip is busy with.
Busy(r) == recordings[r] \in {"prompt", "recording", "broken", "ending", "reading", "peaks"}

\* There is one such recording at a time, isRecording guards it, and what the
\* composer holds is the one that runs; the tap listens to that one.
VoiceInv ==
    /\ recordings \in [Recordings -> RecordingStages]
    /\ voiceRecorder \in Recordings \cup {NoRecording}
    /\ tap \in {voiceRecorder, NoRecording}
    /\ isRecording \in BOOLEAN /\ previewSending \in BOOLEAN
    /\ \A r \in Recordings : Busy(r) => isRecording /\ \A q \in Recordings : Busy(q) => q = r
    /\ voiceRecorder # NoRecording => recordings[voiceRecorder] \in {"recording", "broken"}
    /\ composerGone => voiceRecorder = NoRecording
    /\ NoOrphanedMicrophone

\* The first recording that is not used yet.
LEMMA NextRecording ==
    ASSUME Unused # {}
    PROVE  \E r \in Unused : r = CHOOSE x \in Unused : \A q \in Unused : x <= q
<1> DEFINE s == [i \in 1..MaxRecordings |-> i]
<1>1. MaxRecordings \in Nat
  BY VoiceAssumption
<1>2. s \in [1..MaxRecordings -> Nat]
  OBVIOUS
<1>3. DOMAIN s = 1..MaxRecordings
  OBVIOUS
<1> HIDE DEF s
<1>4. s \in Seq(Nat)
  BY <1>1, <1>2, SequenceOf
<1>5. Unused \subseteq DOMAIN s
  BY <1>3 DEF Unused, Recordings
<1>6. \E x \in Unused : \A q \in Unused : x <= q
  BY <1>4, <1>5, FirstPosition
<1> QED
  BY <1>6

LEMMA Prompted ==
    ASSUME VoiceInv, Prompt, ~isRecording,
           UNCHANGED <<voiceRecorder, tap, previewSending, composerGone>>
    PROVE  VoiceInv'
<1>1. PICK r \in Unused : recordings' = [recordings EXCEPT ![r] = "prompt"] /\ isRecording' = TRUE
  BY NextRecording DEF Prompt
<1>2. r \in Recordings /\ recordings[r] = "unused"
  BY DEF Unused
<1>3. \A q \in Recordings : ~Busy(q) /\ (q # r => recordings'[q] = recordings[q]) /\ recordings'[r] = "prompt"
  BY <1>1, <1>2 DEF VoiceInv
<1>4. voiceRecorder # r
  BY <1>2, <1>3 DEF VoiceInv, Busy, NoRecording, Recordings
<1>5. \A q \in Recordings : Busy(q)' => q = r
  BY <1>3 DEF Busy
<1>6. recordings' \in [Recordings -> RecordingStages]
  BY <1>1 DEF VoiceInv, RecordingStages
<1> QED
  BY <1>1, <1>3, <1>4, <1>5, <1>6 DEF VoiceInv, NoOrphanedMicrophone

\* The composer gives up what it holds, in whatever stage it leaves it.
LEMMA GivenUp ==
    ASSUME VoiceInv, voiceRecorder # NoRecording,
           NEW stage \in {"ending", "dropped", "closed"},
           recordings' = [recordings EXCEPT ![voiceRecorder] = stage],
           voiceRecorder' = NoRecording, tap' = NoRecording,
           isRecording' \in BOOLEAN, stage = "ending" => isRecording' = isRecording,
           previewSending' \in BOOLEAN
    PROVE  VoiceInv'
<1>1. PICK r \in Recordings : r = voiceRecorder /\ Busy(r)
  BY DEF VoiceInv, Busy
<1>2. \A q \in Recordings : q # r => ~Busy(q) /\ recordings'[q] = recordings[q]
  BY <1>1 DEF VoiceInv
<1>3. recordings'[r] = stage
  BY <1>1 DEF VoiceInv
<1>4. \A q \in Recordings : Busy(q)' => q = r /\ stage = "ending"
  BY <1>2, <1>3 DEF Busy
<1>5. \A q \in Recordings : recordings'[q] # "recording"
  BY <1>2, <1>3 DEF Busy
<1>6. recordings' \in [Recordings -> RecordingStages]
  BY <1>1 DEF VoiceInv, RecordingStages
<1>7. isRecording
  BY <1>1 DEF VoiceInv
<1> QED
  BY <1>4, <1>5, <1>6, <1>7 DEF VoiceInv, NoOrphanedMicrophone

LEMMA Stopped ==
    ASSUME VoiceInv, NEW c, Stop(c), UNCHANGED <<previewSending, composerGone>>
    PROVE  VoiceInv'
<1>1. CASE ~isRecording \/ voiceRecorder = NoRecording
  BY <1>1 DEF Stop, VoiceInv, Busy, NoOrphanedMicrophone
<1>2. CASE isRecording /\ voiceRecorder # NoRecording /\ recordings[voiceRecorder] = "broken"
  <2>1. /\ recordings' = [recordings EXCEPT ![voiceRecorder] = "closed"]
        /\ isRecording' = FALSE /\ voiceRecorder' = NoRecording /\ tap' = NoRecording
    BY <1>2 DEF Stop, ResetChip
  <2> QED
    BY <1>2, <2>1, GivenUp DEF VoiceInv
<1>3. CASE isRecording /\ voiceRecorder # NoRecording /\ recordings[voiceRecorder] # "broken"
  <2>1. /\ recordings' = [recordings EXCEPT ![voiceRecorder] = "ending"]
        /\ isRecording' = isRecording /\ voiceRecorder' = NoRecording /\ tap' = NoRecording
    BY <1>3 DEF Stop
  <2> QED
    BY <1>3, <2>1, GivenUp DEF VoiceInv
<1> QED
  BY <1>1, <1>2, <1>3

LEMMA Cancelled ==
    ASSUME VoiceInv, NEW c, Cancel(c), UNCHANGED <<previewSending, composerGone>>
    PROVE  VoiceInv'
<1>1. CASE ~isRecording \/ voiceRecorder = NoRecording
  BY <1>1 DEF Cancel, VoiceInv, Busy, NoOrphanedMicrophone
<1>2. CASE isRecording /\ voiceRecorder # NoRecording
  <2>1. PICK stage \in {"dropped", "closed"} :
          recordings' = [recordings EXCEPT ![voiceRecorder] = stage]
    BY <1>2 DEF Cancel
  <2>2. isRecording' = FALSE /\ voiceRecorder' = NoRecording /\ tap' = NoRecording
    BY <1>2 DEF Cancel, ResetChip
  <2> QED
    BY <1>2, <2>1, <2>2, GivenUp DEF VoiceInv
<1> QED
  BY <1>1, <1>2

\* A recording moves on by itself; the chip may be reset with it.
LEMMA MovesOn ==
    ASSUME VoiceInv, NEW r \in Recordings, Busy(r), r # voiceRecorder,
           NEW stage \in {"dropped", "closed", "leaked", "reading", "peaks"},
           recordings' = [recordings EXCEPT ![r] = stage],
           \/ UNCHANGED <<voiceRecorder, tap>>
           \/ voiceRecorder' = NoRecording /\ tap' = NoRecording,
           isRecording' \in BOOLEAN, stage \in {"reading", "peaks"} => isRecording' = isRecording,
           UNCHANGED <<previewSending, composerGone>>
    PROVE  VoiceInv'
<1>1. isRecording /\ \A q \in Recordings : q # r => ~Busy(q) /\ recordings'[q] = recordings[q]
  BY DEF VoiceInv
<1>2. voiceRecorder = NoRecording
  BY <1>1 DEF VoiceInv, Busy
<1>3. recordings'[r] = stage
  BY DEF VoiceInv
<1>4. \A q \in Recordings : Busy(q)' => q = r /\ stage \in {"reading", "peaks"}
  BY <1>1, <1>3 DEF Busy
<1>5. \A q \in Recordings : recordings'[q] # "recording"
  BY <1>1, <1>3 DEF Busy
<1>6. recordings' \in [Recordings -> RecordingStages]
  BY DEF VoiceInv, RecordingStages
<1>7. voiceRecorder' = NoRecording /\ tap' = NoRecording
  BY <1>2 DEF VoiceInv
<1> QED
  BY <1>1, <1>4, <1>5, <1>6, <1>7 DEF VoiceInv, NoOrphanedMicrophone

LEMMA NotHeld ==
    ASSUME VoiceInv, NEW r \in Recordings, recordings[r] \notin {"recording", "broken"}
    PROVE  r # voiceRecorder
<1>1. r # NoRecording
  BY DEF Recordings, NoRecording
<1> QED
  BY <1>1 DEF VoiceInv

LEMMA VoiceGranted ==
    ASSUME VoiceInv, NEW r \in Recordings, Granted(r)
    PROVE  VoiceInv'
<1>1. recordings[r] = "prompt" /\ Busy(r) /\ UNCHANGED <<previewSending, composerGone>>
  BY DEF Granted, Busy, previewVars
<1>2. r # voiceRecorder /\ voiceRecorder = NoRecording
  BY <1>1, NotHeld DEF VoiceInv, Busy
<1>3. CASE composerGone
  <2>1. /\ recordings' = [recordings EXCEPT ![r] = "dropped"] /\ isRecording' = FALSE
        /\ UNCHANGED <<voiceRecorder, tap>>
    BY <1>3 DEF Granted
  <2> QED
    BY <1>1, <1>2, <2>1, MovesOn
<1>4. CASE ~composerGone
  <2>1. PICK dropped \in BOOLEAN :
          /\ recordings' = [recordings EXCEPT ![r] = IF dropped THEN "dropped" ELSE "recording"]
          /\ isRecording' = ~dropped
          /\ voiceRecorder' = IF dropped THEN NoRecording ELSE r
          /\ tap' \in IF dropped THEN {NoRecording} ELSE {r, NoRecording}
    BY <1>4 DEF Granted
  <2>2. CASE dropped
    <3>1. /\ recordings' = [recordings EXCEPT ![r] = "dropped"] /\ isRecording' = FALSE
          /\ voiceRecorder' = NoRecording /\ tap' = NoRecording
      BY <2>1, <2>2
    <3> QED
      BY <1>1, <1>2, <3>1, MovesOn
  <2>3. CASE ~dropped
    <3>1. /\ recordings' = [recordings EXCEPT ![r] = "recording"] /\ isRecording' = TRUE
          /\ voiceRecorder' = r /\ tap' \in {r, NoRecording} /\ ~composerGone'
      BY <1>1, <1>4, <2>1, <2>3
    <3>2. \A q \in Recordings : q # r => ~Busy(q) /\ recordings'[q] = recordings[q]
      BY <1>1, <3>1 DEF VoiceInv
    <3>3. recordings'[r] = "recording" /\ \A q \in Recordings : Busy(q)' => q = r
      BY <3>1, <3>2 DEF VoiceInv, Busy
    <3>4. recordings' \in [Recordings -> RecordingStages]
      BY <3>1 DEF VoiceInv, RecordingStages
    <3> QED
      BY <1>1, <3>1, <3>2, <3>3, <3>4 DEF VoiceInv, NoOrphanedMicrophone, Busy
  <2> QED
    BY <2>2, <2>3
<1> QED
  BY <1>3, <1>4

LEMMA BrowserAnswers ==
    ASSUME VoiceInv, BrowserStep
    PROVE  VoiceInv'
<1>1. ASSUME NEW r \in Recordings, Granted(r) PROVE VoiceInv'
  BY <1>1, VoiceGranted
<1>2. ASSUME NEW r \in Recordings, Denied(r) PROVE VoiceInv'
  <2>1. /\ recordings' = [recordings EXCEPT ![r] = "closed"] /\ isRecording' = FALSE
        /\ UNCHANGED <<voiceRecorder, tap, previewSending, composerGone>>
        /\ Busy(r) /\ r # voiceRecorder
    BY <1>2, NotHeld DEF Denied, previewVars, Busy, VoiceInv
  <2> QED
    BY <2>1, MovesOn
<1>3. ASSUME NEW r \in Recordings, AutoStop(r) PROVE VoiceInv'
  <2>1. voiceRecorder = r
    BY <1>3 DEF AutoStop, VoiceInv, NoOrphanedMicrophone
  <2>2. Stop(controls) /\ UNCHANGED <<previewSending, composerGone>>
    BY <1>3, <2>1 DEF AutoStop, previewVars
  <2> QED
    BY <2>2, Stopped
<1>4. ASSUME NEW r \in Recordings, Breaks(r) PROVE VoiceInv'
  <2>1. /\ voiceRecorder = r /\ recordings[r] = "recording"
        /\ recordings' = [recordings EXCEPT ![r] = "broken"]
        /\ UNCHANGED <<isRecording, voiceRecorder, tap, previewSending, composerGone>>
    BY <1>4 DEF Breaks, previewVars, VoiceInv, NoOrphanedMicrophone
  <2>2. /\ recordings'[r] = "broken"
        /\ \A q \in Recordings : q # r => recordings'[q] = recordings[q]
        /\ \A q \in Recordings : Busy(q)' <=> Busy(q)
    BY <2>1 DEF VoiceInv, Busy
  <2>3. recordings' \in [Recordings -> RecordingStages]
    BY <2>1 DEF VoiceInv, RecordingStages
  <2> QED
    BY <2>1, <2>2, <2>3 DEF VoiceInv, NoOrphanedMicrophone
<1>5. ASSUME NEW r \in Recordings, StopFires(r) PROVE VoiceInv'
  <2>1. UNCHANGED <<isRecording, voiceRecorder, tap, previewSending, composerGone>>
    BY <1>5 DEF StopFires, previewVars
  <2>2. CASE recordings[r] = "ending"
    <3>1. recordings' = [recordings EXCEPT ![r] = "reading"] /\ Busy(r) /\ r # voiceRecorder
      BY <1>5, <2>2, NotHeld DEF StopFires, Busy, VoiceInv
    <3> QED
      BY <2>1, <3>1, MovesOn DEF VoiceInv
  <2>3. CASE recordings[r] = "dropped"
    <3>1. recordings' = [recordings EXCEPT ![r] = "closed"] /\ r # voiceRecorder
      BY <1>5, <2>3, NotHeld DEF StopFires, VoiceInv
    <3>2. /\ \A q \in Recordings : q # r => recordings'[q] = recordings[q]
          /\ \A q \in Recordings : Busy(q)' <=> Busy(q)
          /\ recordings'[r] = "closed"
      BY <2>3, <3>1 DEF VoiceInv, Busy
    <3>3. recordings' \in [Recordings -> RecordingStages]
      BY <3>1 DEF VoiceInv, RecordingStages
    <3> QED
      BY <2>1, <3>1, <3>2, <3>3 DEF VoiceInv, NoOrphanedMicrophone
  <2> QED
    BY <1>5, <2>2, <2>3 DEF StopFires
<1>6. ASSUME NEW r \in Recordings, ResultIsBad(r) PROVE VoiceInv'
  <2>1. /\ recordings' = [recordings EXCEPT ![r] = "closed"] /\ isRecording' = FALSE
        /\ voiceRecorder' = NoRecording /\ tap' = NoRecording
        /\ UNCHANGED <<previewSending, composerGone>> /\ Busy(r) /\ r # voiceRecorder
    BY <1>6, NotHeld DEF ResultIsBad, ResetChip, previewVars, Busy, VoiceInv
  <2> QED
    BY <2>1, MovesOn
<1>7. ASSUME NEW r \in Recordings, ResultIsGood(r) PROVE VoiceInv'
  <2>1. /\ recordings' = [recordings EXCEPT ![r] = "peaks"]
        /\ UNCHANGED <<isRecording, voiceRecorder, tap, previewSending, composerGone>>
        /\ Busy(r) /\ r # voiceRecorder
    BY <1>7, NotHeld DEF ResultIsGood, Busy, VoiceInv
  <2> QED
    BY <2>1, MovesOn DEF VoiceInv
<1>8. ASSUME NEW r \in Recordings, PeaksAreDecoded(r) PROVE VoiceInv'
  <2>1. /\ recordings' = [recordings EXCEPT ![r] = "closed"] /\ isRecording' = FALSE
        /\ voiceRecorder' = NoRecording /\ tap' = NoRecording
        /\ UNCHANGED <<previewSending, composerGone>> /\ Busy(r) /\ r # voiceRecorder
    BY <1>8, NotHeld DEF PeaksAreDecoded, ResetChip, Busy, VoiceInv
  <2> QED
    BY <2>1, MovesOn
<1>9. ASSUME NEW r \in Recordings, RecorderThrows(r) PROVE VoiceInv'
  <2>1. /\ recordings' = [recordings EXCEPT ![r] = "leaked"] /\ isRecording' = FALSE
        /\ UNCHANGED <<voiceRecorder, tap, previewSending, composerGone>>
        /\ Busy(r) /\ r # voiceRecorder
    BY <1>9, NotHeld DEF RecorderThrows, previewVars, Busy, VoiceInv
  <2> QED
    BY <2>1, MovesOn
<1> QED
  BY <1>1, <1>2, <1>3, <1>4, <1>5, <1>6, <1>7, <1>8, <1>9 DEF BrowserStep

LEMMA VoiceInitInv == VoiceInit => VoiceInv
BY DEF VoiceInit, VoiceInv, Busy, RecordingStages, NoOrphanedMicrophone

\* A step that leaves the recorder to itself.
LEMMA LeftAlone ==
    ASSUME VoiceInv, UNCHANGED <<isRecording, voiceRecorder, recordings, tap, composerGone>>,
           previewSending' \in BOOLEAN
    PROVE  VoiceInv'
BY DEF VoiceInv, Busy, NoOrphanedMicrophone

LEMMA VoiceNextInv == VoiceInv /\ [VoiceNext]_voiceVars => VoiceInv'
<1> SUFFICES ASSUME VoiceInv, [VoiceNext]_voiceVars PROVE VoiceInv'
  OBVIOUS
<1>1. previewSending \in BOOLEAN
  BY DEF VoiceInv
<1>2. CASE PointerDown
  <2>1. CASE StartIsRefused
    BY <1>1, <1>2, <2>1, LeftAlone DEF PointerDown
  <2>2. CASE ~StartIsRefused
    BY <1>2, <2>2, Prompted DEF PointerDown
  <2> QED
    BY <2>1, <2>2
<1>3. CASE KeyDown
  BY <1>3, Prompted DEF KeyDown
<1>4. CASE PointerMove
  BY <1>1, <1>4, LeftAlone DEF PointerMove, previewVars
<1>5. CASE PointerUp
  <2>1. UNCHANGED <<previewSending, composerGone>>
    BY <1>5 DEF PointerUp, previewVars
  <2>2. PICK kind \in {"up", "cancel"}, quick \in BOOLEAN :
          \/ UNCHANGED <<isRecording, voiceRecorder, recordings, tap>>
          \/ Release(kind, quick)
    BY <1>5 DEF PointerUp
  <2>3. \/ UNCHANGED <<isRecording, voiceRecorder, recordings, tap>>
        \/ Cancel(controls) \/ Stop(controls)
    BY <2>2 DEF Release
  <2> QED
    BY <1>1, <2>1, <2>3, LeftAlone, Stopped, Cancelled
<1>6. CASE ChipButton
  BY <1>6, Stopped, Cancelled DEF ChipButton, previewVars
<1>7. CASE BrowserStep
  BY <1>7, BrowserAnswers
<1>8. CASE SendPreview
  BY <1>8, LeftAlone DEF SendPreview
<1>9. CASE PreviewSettles
  BY <1>9, LeftAlone DEF PreviewSettles
<1>10. CASE DiscardPreview
  BY <1>1, <1>10, LeftAlone DEF DiscardPreview
<1>11. CASE DestroyComposer
  <2>1. /\ tap' = NoRecording /\ voiceRecorder' = NoRecording
        /\ UNCHANGED <<isRecording, previewSending>>
    BY <1>11 DEF DestroyComposer
  <2>2. CASE voiceRecorder = NoRecording
    <3>1. recordings' = recordings
      BY <1>11, <2>2 DEF DestroyComposer
    <3>2. \A r \in Recordings : recordings[r] # "recording"
      BY <2>2 DEF VoiceInv, NoOrphanedMicrophone, Recordings, NoRecording
    <3> QED
      BY <2>1, <3>1, <3>2 DEF VoiceInv, Busy, NoOrphanedMicrophone
  <2>3. CASE voiceRecorder # NoRecording
    <3>1. PICK stage \in {"dropped", "closed"} :
            recordings' = [recordings EXCEPT ![voiceRecorder] = stage]
      BY <1>11, <2>3 DEF DestroyComposer
    <3> QED
      BY <1>1, <2>1, <2>3, <3>1, GivenUp DEF VoiceInv
  <2> QED
    BY <2>2, <2>3
<1>12. CASE UNCHANGED voiceVars
  BY <1>1, <1>12, LeftAlone DEF voiceVars, previewVars
<1> QED
  BY <1>2, <1>3, <1>4, <1>5, <1>6, <1>7, <1>8, <1>9, <1>10, <1>11, <1>12 DEF VoiceNext

\* The safety half of MicrophoneIsEnded: whatever the user, the permission
\* prompt, MediaRecorder and destroy() do in between, a recording in progress is
\* the one the composer holds, and the tap is closed before its tracks stop.
\* (The tracks that createVoiceRecorder() leaves running when MediaRecorder
\* throws after the grant are no recording in progress, and have no owner.)
THEOREM MicrophoneIsHeld == RecordingSpec => [](NoOrphanedMicrophone /\ TapClosesFirst)
<1>1. VoiceInv => NoOrphanedMicrophone /\ TapClosesFirst
  BY DEF VoiceInv, TapClosesFirst
<1> QED
  BY <1>1, VoiceInitInv, VoiceNextInv, PTL DEF RecordingSpec
=============================================================================
