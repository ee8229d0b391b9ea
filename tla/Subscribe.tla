----------------------------- MODULE Subscribe -----------------------------
(***************************************************************************)
(* packages/chat-sdk/src/client.ts, subscribe(): one subscription to one   *)
(* room's server log over EventSource, with replay of what was missed,     *)
(* tickets, backoff, the liveness watchdog and forced reconnects.          *)
(*                                                                         *)
(* A state is what holds between two handlers of the event loop; the       *)
(* initial one is that after subscribe() returned.  A cycle is one run of  *)
(* the asynchronous function of reconnect() / reconnectImmediate() (or of  *)
(* the initial connection, which has no replay), seen at the request it    *)
(* awaits.  Rows are numbered by their place in the log.  Delays are       *)
(* abstract: any armed timer may fire next.  MaxFaults bounds what goes    *)
(* wrong around the client: failed or hung requests, dropped or half-open  *)
(* streams, server restarts, `online` events, visits, false alarms.        *)
(***************************************************************************)
EXTENDS Naturals, Sequences, FiniteSets

CONSTANTS
    Modes,          \* kinds of rooms, a subset of RoomModes
    LivenessOn,     \* livenessTimeoutMs > 0
    Reentrant,      \* the caller's callbacks may unsubscribe
    PageSize,       \* rows of a replay page
    MaxLog,         \* bound on the rows of the room
    MaxFaults       \* bound on the faults above

\* Rows go to the decrypt chain of an encrypted room, or straight to onMessage.
RoomModes == {"chain", "direct"}

ASSUME ModesAssumption == Modes \subseteq RoomModes
ASSUME BoundsAssumption ==
    PageSize \in Nat \ {0} /\ MaxLog \in Nat /\ MaxFaults \in Nat

VARIABLES
    mode,           \* the kind of this room
    log,            \* rows the server has
    faults,         \* faults so far
    destroyed,
    lastSeq,
    epoch,
    stream,         \* es: [state, pos], pos the last row it sent
    timers,         \* pending reconnect timeouts, [id, epoch]
    reconnectTimer, \* the handle of one of them, or NoTimer
    cycles,         \* suspended cycles
    watchdog,       \* watchdogTimer is armed
    pingsEverSeen,
    connState,
    accepted,       \* rows handed to onMessage or appended to the chain
    late            \* how many of them after the teardown

streamVars ==
    <<mode, log, faults, destroyed, lastSeq, epoch, stream, timers, reconnectTimer, cycles,
      watchdog, pingsEverSeen, connState, accepted, late>>

NoTimer == 0
TimerIds == Nat \ {NoTimer}

\* "none": es is null; "silent": no frame received yet; "dead": half-open.
Stream == [state : {"none", "silent", "open", "dead"}, pos : Nat]
NoStream == [state |-> "none", pos |-> 0]

Cycle == [epoch : Nat, stage : {"replay", "ticket"}, cursor : Nat, hung : BOOLEAN]

StreamTypeOK ==
    /\ mode \in RoomModes
    /\ log \in 0..MaxLog
    /\ faults \in 0..MaxFaults
    /\ destroyed \in BOOLEAN
    /\ lastSeq \in Nat
    /\ epoch \in Nat
    /\ stream \in Stream
    /\ timers \subseteq [id : TimerIds, epoch : Nat]
    /\ reconnectTimer \in TimerIds \cup {NoTimer}
    /\ cycles \subseteq Cycle
    /\ watchdog \in BOOLEAN
    /\ pingsEverSeen \in BOOLEAN
    /\ connState \in {"connecting", "connected", "reconnecting"}
    /\ accepted \in Seq(Nat)
    /\ late \in Nat

\* The initial connection is under way.
StreamInit ==
    /\ mode \in Modes
    /\ log = 0
    /\ faults = 0
    /\ destroyed = FALSE
    /\ lastSeq = 0
    /\ epoch = 0
    /\ stream = NoStream
    /\ timers = {}
    /\ reconnectTimer = NoTimer
    /\ cycles = {[epoch |-> 0, stage |-> "ticket", cursor |-> 0, hung |-> FALSE]}
    /\ watchdog = FALSE
    /\ pingsEverSeen = FALSE
    /\ connState = "connecting"
    /\ accepted = <<>>
    /\ late = 0

-----------------------------------------------------------------------------
(* Pieces of handlers *)

Fault == faults < MaxFaults /\ faults' = faults + 1

\* May the callback run by this step unsubscribe?
Quits == IF Reentrant THEN BOOLEAN ELSE {FALSE}
QuitsOnMessage == IF mode = "direct" THEN Quits ELSE {FALSE}
QuitsOnState(next) == IF connState # next THEN Quits ELSE {FALSE}

Rows(from, to) == [i \in 1..(to - from) |-> from + i]

\* clearTimeout(reconnectTimer)
OtherTimers == {t \in timers : t.id # reconnectTimer}

\* Mutant of Current: a continuation that ignores forced reconnects.
CurrentAnyEpoch(c) == ~destroyed

\* Every continuation after an await, and a reconnect timer, goes on only if so.
Current(c) == ~destroyed /\ c.epoch = epoch

\* reconnect() and reconnectImmediate() schedule a cycle beside the timers in rest.
Schedule(rest, e) ==
    LET id == CHOOSE i \in 1..(Cardinality(rest) + 1) : \A t \in rest : t.id # i
    IN  /\ timers' = rest \cup {[id |-> id, epoch |-> e]}
        /\ reconnectTimer' = id

\* teardownSubscriber run by a callback (quits), before the rest of its handler.
TeardownIf(quits) == destroyed' = (destroyed \/ quits)
TimersUnless(quits) == IF quits THEN OtherTimers ELSE timers
WatchdogUnless(quits) == watchdog /\ ~quits

\* n rows handed over, counted if the subscription is gone.
Late(n) == IF destroyed THEN n ELSE 0

\* armWatchdog() of noteReplayProgress() and forceReconnect(), from the value w.
Rearmed(w) == w \/ (pingsEverSeen /\ LivenessOn)

-----------------------------------------------------------------------------
(* The caller and the server *)

Publish ==
    /\ log < MaxLog
    /\ log' = log + 1
    /\ UNCHANGED <<mode, faults, destroyed, lastSeq, epoch, stream, timers,
                   reconnectTimer, cycles, watchdog, pingsEverSeen, connState, accepted,
                   late>>

\* What every teardown does; destroyed' and cycles' are the caller's.
Dismantle ==
    /\ timers' = OtherTimers
    /\ reconnectTimer' = NoTimer
    /\ watchdog' = FALSE
    /\ stream' = NoStream

Unsubscribe ==
    /\ ~destroyed
    /\ destroyed' = TRUE
    /\ Dismantle
    /\ UNCHANGED <<mode, log, faults, lastSeq, epoch, cycles, pingsEverSeen, connState,
                   accepted, late>>

-----------------------------------------------------------------------------
(* The cycle *)

TimerFires(t) ==
    /\ timers' = timers \ {t}
    /\ reconnectTimer' = NoTimer
    /\ cycles' = IF Current(t)
                 THEN cycles \cup {[epoch |-> epoch, stage |-> "replay",
                                    cursor |-> lastSeq, hung |-> FALSE]}
                 ELSE cycles
    /\ UNCHANGED <<mode, log, faults, destroyed, lastSeq, epoch, stream, watchdog,
                   pingsEverSeen, connState, accepted, late>>

Answered(c) == ~c.hung /\ Current(c)

\* The request is left without an answer, until an abort rejects it.
Hang(c) ==
    /\ Answered(c)
    /\ Fault
    /\ cycles' = (cycles \ {c}) \cup {[c EXCEPT !.hung = TRUE]}
    /\ UNCHANGED <<mode, log, destroyed, lastSeq, epoch, stream, timers, reconnectTimer,
                   watchdog, pingsEverSeen, connState, accepted, late>>

\* A cycle of an older epoch, or of a torn-down subscription, bails out.
Superseded(c) ==
    /\ ~Current(c)
    /\ cycles' = cycles \ {c}
    /\ UNCHANGED <<mode, log, faults, destroyed, lastSeq, epoch, stream, timers,
                   reconnectTimer, watchdog, pingsEverSeen, connState, accepted, late>>

PageEnd(c) == IF log - c.cursor > PageSize THEN c.cursor + PageSize ELSE log

\* The last row the loop handed over becomes lastSeq.
HandOver(c, end) ==
    /\ lastSeq' = IF end > c.cursor THEN end ELSE lastSeq
    /\ accepted' = accepted \o Rows(c.cursor, end)

\* A page of replayMissed() whose loop ran to its end; a callback may have
\* unsubscribed at row quitAt.
ReplayPage(c) ==
    /\ Answered(c)
    /\ c.stage = "replay"
    /\ HandOver(c, PageEnd(c))
    /\ \/ /\ UNCHANGED <<destroyed, stream, timers, reconnectTimer>>
          /\ late' = late + Late(PageEnd(c) - c.cursor)
          /\ watchdog' = Rearmed(watchdog)
          /\ cycles' = (cycles \ {c}) \cup
                 {IF PageEnd(c) < log THEN [c EXCEPT !.cursor = PageEnd(c)]
                                      ELSE [c EXCEPT !.stage = "ticket"]}
       \/ /\ TRUE \in QuitsOnMessage
          /\ \E quitAt \in (c.cursor + 1)..PageEnd(c) : late' = late + PageEnd(c) - quitAt
          /\ destroyed' = TRUE
          /\ Dismantle
          /\ cycles' = cycles \ {c}
    /\ UNCHANGED <<mode, log, faults, epoch, pingsEverSeen, connState>>

\* onMessage threw at a row of the page: its rest is left to the stream, unless
\* the caller unsubscribes when it is told (reportError).
ReplayThrows(c) ==
    /\ Answered(c)
    /\ c.stage = "replay"
    /\ mode = "direct"
    /\ Fault
    /\ \E end \in (c.cursor + 1)..PageEnd(c) : HandOver(c, end)
    /\ \E quits \in Quits :
         /\ TeardownIf(quits)
         /\ timers' = TimersUnless(quits)
         /\ watchdog' = (Rearmed(watchdog) /\ ~quits)
         /\ cycles' = (cycles \ {c}) \cup
                        (IF quits THEN {} ELSE {[c EXCEPT !.stage = "ticket"]})
    /\ UNCHANGED <<mode, log, epoch, stream, reconnectTimer, pingsEverSeen, connState, late>>

\* reportError, then the ticket all the same.
ReplayFails(c) ==
    /\ Answered(c)
    /\ c.stage = "replay"
    /\ Fault
    /\ \E quits \in Quits :
         /\ TeardownIf(quits)
         /\ timers' = TimersUnless(quits)
         /\ watchdog' = WatchdogUnless(quits)
         /\ cycles' = (cycles \ {c}) \cup
                        (IF quits THEN {} ELSE {[c EXCEPT !.stage = "ticket"]})
    /\ UNCHANGED <<mode, log, lastSeq, epoch, stream, reconnectTimer, pingsEverSeen,
                   connState, accepted, late>>

\* crypto_mode_mismatch or crypto_mode_poisoned.
ReplayRefused(c) ==
    /\ Answered(c)
    /\ c.stage = "replay"
    /\ Fault
    /\ destroyed' = TRUE
    /\ Dismantle
    /\ cycles' = cycles \ {c}
    /\ UNCHANGED <<mode, log, lastSeq, epoch, pingsEverSeen, connState, accepted, late>>

\* Mutant of TicketGranted: the new stream starts over instead of at lastSeq.
TicketGrantedFromStart(c) ==
    /\ Answered(c)
    /\ c.stage = "ticket"
    /\ stream' = [state |-> "silent", pos |-> 0]
    /\ watchdog' = (LivenessOn \/ watchdog)
    /\ cycles' = cycles \ {c}
    /\ UNCHANGED <<mode, log, faults, destroyed, lastSeq, epoch, timers, reconnectTimer,
                   pingsEverSeen, connState, accepted, late>>

\* attach()
TicketGranted(c) ==
    /\ Answered(c)
    /\ c.stage = "ticket"
    /\ stream' = [state |-> "silent", pos |-> lastSeq]
    /\ watchdog' = (LivenessOn \/ watchdog)
    /\ cycles' = cycles \ {c}
    /\ UNCHANGED <<mode, log, faults, destroyed, lastSeq, epoch, timers, reconnectTimer,
                   pingsEverSeen, connState, accepted, late>>

\* Mutant of TicketFails: reports the error and schedules nothing.
TicketFailsForGood(c) ==
    /\ Answered(c)
    /\ c.stage = "ticket"
    /\ Fault
    /\ cycles' = cycles \ {c}
    /\ UNCHANGED <<mode, log, destroyed, lastSeq, epoch, stream, timers, reconnectTimer,
                   watchdog, pingsEverSeen, connState, accepted, late>>

TicketFails(c) ==
    /\ Answered(c)
    /\ c.stage = "ticket"
    /\ Fault
    /\ \E quits \in Quits :
         /\ TeardownIf(quits)
         /\ Schedule(TimersUnless(quits), epoch)
         /\ watchdog' = WatchdogUnless(quits)
    /\ cycles' = cycles \ {c}
    /\ UNCHANGED <<mode, log, lastSeq, epoch, stream, pingsEverSeen, connState, accepted,
                   late>>

-----------------------------------------------------------------------------
(* Frames *)

Frame(expected) == stream.state = expected

\* noteActivity(), whose onConnectionState callback may unsubscribe, followed by
\* an onMessage callback that may; pinged is pingsEverSeen by then.
NoteActivity(quitsState, quitsMessage, pinged) ==
    LET quits == quitsState \/ quitsMessage IN
    /\ connState' = "connected"
    /\ TeardownIf(quits)
    /\ timers' = TimersUnless(quits)
    /\ reconnectTimer' = IF quits THEN NoTimer ELSE reconnectTimer
    /\ watchdog' = (pinged /\ LivenessOn /\ ~quitsMessage)

StreamUnless(quits, next) == IF quits THEN NoStream ELSE next

Prelude ==
    /\ Frame("silent")
    /\ \E quits \in QuitsOnState("connected") :
         /\ NoteActivity(quits, FALSE, pingsEverSeen)
         /\ stream' = StreamUnless(quits, [stream EXCEPT !.state = "open"])
    /\ UNCHANGED <<mode, log, faults, lastSeq, epoch, cycles, pingsEverSeen, accepted,
                   late>>

\* The prelude carries a crypto_mode the client refuses.
PreludeRefused ==
    /\ Frame("silent")
    /\ Fault
    /\ connState' = "connected"
    /\ destroyed' = TRUE
    /\ Dismantle
    /\ UNCHANGED <<mode, log, lastSeq, epoch, cycles, pingsEverSeen, accepted, late>>

Message ==
    /\ Frame("open")
    /\ stream.pos < log
    /\ lastSeq' = stream.pos + 1
    /\ accepted' = Append(accepted, stream.pos + 1)
    /\ \E quitsState \in QuitsOnState("connected"), quitsMessage \in QuitsOnMessage :
         /\ NoteActivity(quitsState, quitsMessage, pingsEverSeen)
         /\ stream' = StreamUnless(quitsState \/ quitsMessage,
                                   [stream EXCEPT !.pos = @ + 1])
         /\ late' = IF quitsState THEN late + 1 ELSE late
    /\ UNCHANGED <<mode, log, faults, epoch, cycles, pingsEverSeen>>

Ping ==
    /\ Frame("open")
    /\ pingsEverSeen' = TRUE
    /\ \E quits \in QuitsOnState("connected") :
         /\ NoteActivity(quits, FALSE, TRUE)
         /\ stream' = StreamUnless(quits, stream)
    /\ UNCHANGED <<mode, log, faults, lastSeq, epoch, cycles, accepted, late>>

\* onerror and the shutdown event: both end the stream and schedule a cycle.
StreamEnds ==
    /\ stream.state \in {"silent", "open"}
    /\ Fault
    /\ stream' = NoStream
    /\ connState' = "reconnecting"
    /\ \E quits \in QuitsOnState("reconnecting") :
         /\ TeardownIf(quits)
         /\ Schedule(TimersUnless(quits), epoch)
         /\ watchdog' = WatchdogUnless(quits)
    /\ UNCHANGED <<mode, log, lastSeq, epoch, cycles, pingsEverSeen, accepted, late>>

HalfOpen ==
    /\ stream.state \in {"silent", "open"}
    /\ Fault
    /\ stream' = [stream EXCEPT !.state = "dead"]
    /\ UNCHANGED <<mode, log, destroyed, lastSeq, epoch, timers, reconnectTimer, cycles,
                   watchdog, pingsEverSeen, connState, accepted, late>>

-----------------------------------------------------------------------------
(* Forced reconnects *)

\* w is the watchdog's state when forceReconnect() is called.
ForceReconnect(w) ==
    /\ ~destroyed
    /\ epoch' = epoch + 1
    /\ stream' = NoStream
    /\ connState' = "reconnecting"
    /\ \E quits \in QuitsOnState("reconnecting") :
         /\ TeardownIf(quits)
         /\ watchdog' = Rearmed(w /\ ~quits)
         /\ Schedule(OtherTimers, epoch + 1)
    /\ UNCHANGED <<mode, log, lastSeq, cycles, pingsEverSeen, accepted, late>>

OnOnline == Fault /\ ForceReconnect(watchdog)

\* The tab becomes visible after more than livenessMs of silence.
OnVisibility ==
    /\ pingsEverSeen
    /\ LivenessOn
    /\ Fault
    /\ ForceReconnect(watchdog)

\* Nothing has come for livenessMs; a false alarm is a fault.
LinkIsDead == stream.state = "dead" \/ \E c \in cycles : Current(c) /\ c.hung

WatchdogFires ==
    /\ watchdog
    /\ reconnectTimer = NoTimer \* else it re-arms itself
    /\ \/ LinkIsDead /\ UNCHANGED faults
       \/ ~LinkIsDead /\ Fault
    /\ ForceReconnect(FALSE)

\* A watchdog that a reentrant teardown left armed.
StrayWatchdogFires ==
    /\ watchdog
    /\ reconnectTimer = NoTimer
    /\ destroyed
    /\ watchdog' = FALSE
    /\ UNCHANGED <<mode, log, faults, destroyed, lastSeq, epoch, stream, timers,
                   reconnectTimer, cycles, pingsEverSeen, connState, accepted, late>>

-----------------------------------------------------------------------------
CycleStep(c) ==
    \/ Hang(c)
    \/ Superseded(c)
    \/ ReplayPage(c)
    \/ ReplayThrows(c)
    \/ ReplayFails(c)
    \/ ReplayRefused(c)
    \/ TicketGranted(c)
    \/ TicketFails(c)

StreamStep == Prelude \/ PreludeRefused \/ Message \/ Ping \/ StreamEnds \/ HalfOpen

StreamNext ==
    \/ Publish
    \/ Unsubscribe
    \/ \E t \in timers : TimerFires(t)
    \/ \E c \in cycles : CycleStep(c)
    \/ StreamStep
    \/ OnOnline
    \/ OnVisibility
    \/ WatchdogFires
    \/ StrayWatchdogFires

\* Timers fire; a request that does not hang is answered; an open stream
\* delivers.  Pings, faults and the caller owe nothing.
StreamFairness ==
    /\ WF_streamVars(\E t \in timers : TimerFires(t))
    /\ WF_streamVars(\E c \in cycles : ReplayPage(c))
    /\ WF_streamVars(\E c \in cycles : TicketGranted(c))
    /\ WF_streamVars(Prelude)
    /\ WF_streamVars(Message)
    /\ WF_streamVars(WatchdogFires)

StreamSafety == StreamInit /\ [][StreamNext]_streamVars

StreamSpec == StreamSafety /\ StreamFairness

-----------------------------------------------------------------------------
(* Safety *)

CurrentTimers == {t \in timers : t.epoch = epoch}
CurrentCycles == {c \in cycles : c.epoch = epoch}
OpenStreams == {s \in {stream} : s # NoStream}

\* A subscription that was not torn down has exactly one way forward: its
\* stream, a scheduled cycle, or a cycle under way.  With none it would be
\* silent for ever, with two every row would arrive twice.  And from the
\* server's first ping on the watchdog stands over it, reconnecting included.
ExactlyOneWayForward ==
    ~destroyed =>
        /\ Cardinality(CurrentTimers) + Cardinality(CurrentCycles)
             + Cardinality(OpenStreams) = 1
        /\ pingsEverSeen /\ LivenessOn => watchdog

\* The rows handed on are those of the server's log, each once and in order,
\* whatever was dropped, replayed, superseded or thrown in between, and the
\* resumption cursor is the last of them.  In an encrypted room none is
\* appended to the chain after the teardown (replayMissed: "a torn-down
\* subscriber must deliver nothing AND must not append onto a co-subscriber's
\* still-live chain"); the loop over a plaintext page does go on.
NoGapNoDuplicate ==
    /\ accepted = Rows(0, lastSeq)
    /\ mode = "chain" => late = 0

(* Liveness *)

\* Half-open links, hung requests and everything else that may happen notwith-
\* standing, a subscription to a pinging server eventually hands on every row.
EveryRowArrives ==
    \A n \in 1..MaxLog :
        (pingsEverSeen /\ log >= n) ~> (lastSeq >= n \/ destroyed)
=============================================================================
