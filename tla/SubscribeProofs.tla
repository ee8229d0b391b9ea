--------------------------- MODULE SubscribeProofs ---------------------------
(***************************************************************************)
(* Proofs about Subscribe, for any number of rows and faults and any size  *)
(* of page, of what the specification never does: liveness stays with TLC. *)
(***************************************************************************)
EXTENDS Subscribe, FiniteSetTheorems, SequenceTheorems, TLAPS

-----------------------------------------------------------------------------
(* The invariant *)

TimerSet == [id : TimerIds, epoch : Nat]

\* Nothing belongs to an epoch that has yet to begin.
EpochsInv ==
    /\ IsFiniteSet(timers)
    /\ \A t \in timers : t.epoch <= epoch
    /\ \A c \in cycles : c.epoch <= epoch

\* The three ways forward.  A replay continues at the resumption cursor, and so
\* does the stream.
Waiting == (\E t \in timers : CurrentTimers = {t}) /\ CurrentCycles = {} /\ stream = NoStream
Cycling ==
    /\ CurrentTimers = {} /\ stream = NoStream
    /\ \E c \in cycles : CurrentCycles = {c} /\ (c.stage = "replay" => c.cursor = lastSeq)
Streaming ==
    CurrentTimers = {} /\ CurrentCycles = {} /\ stream.state # "none" /\ stream.pos = lastSeq

WayInv == ~destroyed => Waiting \/ Cycling \/ Streaming
WatchInv == ~destroyed /\ pingsEverSeen /\ LivenessOn => watchdog

\* A torn-down subscription has no stream; one that delivers was reported.
StreamInv ==
    /\ destroyed => stream = NoStream
    /\ stream.state = "open" => connState = "connected"

RowsInv == lastSeq <= log /\ NoGapNoDuplicate

SubInv == StreamTypeOK /\ EpochsInv /\ WayInv /\ WatchInv /\ StreamInv /\ RowsInv

-----------------------------------------------------------------------------
(* Lemmas about the operators *)

LEMMA RowsAreSequences ==
    ASSUME NEW a \in Nat, NEW b \in Nat, a <= b
    PROVE  /\ Rows(a, b) \in Seq(Nat)
           /\ Len(Rows(a, b)) = b - a
           /\ \A i \in 1..(b - a) : Rows(a, b)[i] = a + i
<1>1. b - a \in Nat /\ \A i \in 1..(b - a) : a + i \in Nat
  OBVIOUS
<1> QED
  BY <1>1 DEF Rows

LEMMA RowsFromStart ==
    ASSUME NEW b \in Nat
    PROVE  Rows(0, b) \in Seq(Nat) /\ Len(Rows(0, b)) = b /\ \A i \in 1..b : Rows(0, b)[i] = i
<1>1. 0 \in Nat /\ 0 <= b /\ b - 0 = b /\ \A i \in 1..b : 0 + i = i
  OBVIOUS
<1>2. /\ Rows(0, b) \in Seq(Nat)
      /\ Len(Rows(0, b)) = b - 0
      /\ \A i \in 1..(b - 0) : Rows(0, b)[i] = 0 + i
  BY <1>1, RowsAreSequences
<1> QED
  BY <1>1, <1>2

\* Pages laid end to end are one run of rows.
LEMMA RowsConcat ==
    ASSUME NEW a \in Nat, NEW b \in Nat, a <= b
    PROVE  Rows(0, a) \o Rows(a, b) = Rows(0, b)
<1> DEFINE s == Rows(0, a)
           t == Rows(a, b)
           u == Rows(0, b)
<1>1. /\ s \in Seq(Nat) /\ Len(s) = a /\ \A i \in 1..a : s[i] = i
      /\ t \in Seq(Nat) /\ Len(t) = b - a /\ \A i \in 1..(b - a) : t[i] = a + i
      /\ u \in Seq(Nat) /\ Len(u) = b /\ \A i \in 1..b : u[i] = i
  <2>1. s \in Seq(Nat) /\ Len(s) = a - 0 /\ \A i \in 1..(a - 0) : s[i] = 0 + i
    BY RowsAreSequences
  <2>2. t \in Seq(Nat) /\ Len(t) = b - a /\ \A i \in 1..(b - a) : t[i] = a + i
    BY RowsAreSequences
  <2>3. u \in Seq(Nat) /\ Len(u) = b - 0 /\ \A i \in 1..(b - 0) : u[i] = 0 + i
    BY RowsAreSequences
  <2> HIDE DEF s, t, u
  <2> QED
    BY <2>1, <2>2, <2>3
<1> HIDE DEF s, t, u
<1>2. /\ s \o t \in Seq(Nat)
      /\ Len(s \o t) = a + (b - a)
      /\ \A i \in 1..(a + (b - a)) : (s \o t)[i] = IF i <= a THEN s[i] ELSE t[i - a]
  BY <1>1, ConcatProperties
<1>3. Len(s \o t) = Len(u) /\ \A i \in 1..Len(s \o t) : (s \o t)[i] = u[i]
  BY <1>1, <1>2, SMTT(30)
<1>4. s \o t = u
  BY <1>1, <1>2, <1>3, SeqEqual
<1> QED
  BY <1>4 DEF s, t, u

LEMMA RowsAppend ==
    ASSUME NEW a \in Nat
    PROVE  Append(Rows(0, a), a + 1) = Rows(0, a + 1)
<1> DEFINE s == Rows(0, a)
           u == Rows(0, a + 1)
<1>1. /\ s \in Seq(Nat) /\ Len(s) = a /\ \A i \in 1..a : s[i] = i
      /\ u \in Seq(Nat) /\ Len(u) = a + 1 /\ \A i \in 1..(a + 1) : u[i] = i
  <2>1. a + 1 \in Nat
    OBVIOUS
  <2> QED
    BY <2>1, RowsFromStart
<1> HIDE DEF s, u
<1>2. /\ Append(s, a + 1) \in Seq(Nat) /\ Len(Append(s, a + 1)) = a + 1
      /\ \A i \in 1..(a + 1) : Append(s, a + 1)[i] = IF i <= a THEN s[i] ELSE a + 1
  BY <1>1
<1>3. \A i \in 1..Len(Append(s, a + 1)) : Append(s, a + 1)[i] = u[i]
  BY <1>1, <1>2
<1>4. Append(s, a + 1) = u
  BY <1>1, <1>2, <1>3, SeqEqual
<1> QED
  BY <1>4 DEF s, u

\* There is always a handle that no pending timer has.
LEMMA FreeHandle ==
    ASSUME NEW rest, IsFiniteSet(rest)
    PROVE  \E i \in 1..(Cardinality(rest) + 1) : \A t \in rest : t.id # i
<1> DEFINE n == Cardinality(rest)
           ids == 1..(n + 1)
<1>1. n \in Nat
  BY FS_CardinalityType
<1> HIDE DEF n
<1>2. IsFiniteSet(ids) /\ Cardinality(ids) = n + 1
  BY <1>1, FS_Interval
<1> HIDE DEF ids
<1> SUFFICES ASSUME \A i \in ids : \E t \in rest : t.id = i
             PROVE  FALSE
  BY DEF ids, n
<1> DEFINE f == [i \in ids |-> CHOOSE t \in rest : t.id = i]
<1>3. f \in [ids -> rest] /\ \A i \in ids : f[i].id = i
  OBVIOUS
<1> HIDE DEF f
<1>4. Cardinality(rest) < Cardinality(ids)
  BY <1>1, <1>2 DEF n
<1>5. \E x, y \in ids : x # y /\ f[x] = f[y]
  BY <1>2, <1>3, <1>4, FS_PigeonHole
<1> QED
  BY <1>3, <1>5

LEMMA ScheduleAdds ==
    ASSUME NEW rest, IsFiniteSet(rest), NEW e, Schedule(rest, e)
    PROVE  \E id \in TimerIds : /\ timers' = rest \cup {[id |-> id, epoch |-> e]}
                                /\ reconnectTimer' = id
<1> DEFINE n == Cardinality(rest)
           Free(i) == \A t \in rest : t.id # i
           id == CHOOSE i \in 1..(n + 1) : Free(i)
<1>1. id \in 1..(n + 1)
  <2>1. \E i \in 1..(n + 1) : Free(i)
    BY FreeHandle
  <2> HIDE DEF Free, n
  <2> QED
    BY <2>1
<1>2. id \in TimerIds
  <2>1. n \in Nat
    BY FS_CardinalityType
  <2> HIDE DEF n, id
  <2> QED
    BY <1>1, <2>1 DEF TimerIds, NoTimer
<1>3. timers' = rest \cup {[id |-> id, epoch |-> e]} /\ reconnectTimer' = id
  BY DEF Schedule
<1> QED
  BY <1>2, <1>3

-----------------------------------------------------------------------------
(* Consequences of the invariant *)

LEMMA InvImplies == SubInv => ExactlyOneWayForward /\ NoGapNoDuplicate
<1> SUFFICES ASSUME SubInv PROVE ExactlyOneWayForward
  BY DEF SubInv, RowsInv
<1> SUFFICES ASSUME ~destroyed
             PROVE  Cardinality(CurrentTimers) + Cardinality(CurrentCycles)
                      + Cardinality(OpenStreams) = 1
  BY DEF SubInv, WatchInv, ExactlyOneWayForward
<1>1. \A x : Cardinality({x}) = 1
  BY FS_Singleton
<1>2. Cardinality({}) = 0
  BY FS_EmptySet
<1>3. stream = NoStream => OpenStreams = {}
  BY DEF OpenStreams
<1>4. stream.state # "none" => OpenStreams = {stream}
  BY DEF OpenStreams, NoStream
<1>5. Waiting \/ Cycling \/ Streaming
  BY DEF SubInv, WayInv
<1>6. CASE Waiting
  <2>1. PICK t \in timers : CurrentTimers = {t}
    BY <1>6 DEF Waiting
  <2>2. CurrentCycles = {} /\ OpenStreams = {}
    BY <1>3, <1>6 DEF Waiting
  <2>3. /\ Cardinality(CurrentTimers) = 1 /\ Cardinality(CurrentCycles) = 0
        /\ Cardinality(OpenStreams) = 0
    BY <1>1, <1>2, <2>1, <2>2
  <2> QED
    BY <2>3
<1>7. CASE Cycling
  <2>1. PICK c \in cycles : CurrentCycles = {c}
    BY <1>7 DEF Cycling
  <2>2. CurrentTimers = {} /\ OpenStreams = {}
    BY <1>3, <1>7 DEF Cycling
  <2>3. /\ Cardinality(CurrentTimers) = 0 /\ Cardinality(CurrentCycles) = 1
        /\ Cardinality(OpenStreams) = 0
    BY <1>1, <1>2, <2>1, <2>2
  <2> QED
    BY <2>3
<1>8. CASE Streaming
  <2>1. CurrentTimers = {} /\ CurrentCycles = {} /\ OpenStreams = {stream}
    BY <1>4, <1>8 DEF Streaming
  <2>2. /\ Cardinality(CurrentTimers) = 0 /\ Cardinality(CurrentCycles) = 0
        /\ Cardinality(OpenStreams) = 1
    BY <1>1, <1>2, <2>1
  <2> QED
    BY <2>2
<1> QED
  BY <1>5, <1>6, <1>7, <1>8

LEMMA InitInv == StreamInit => SubInv
<1> SUFFICES ASSUME StreamInit PROVE SubInv
  OBVIOUS
<1> DEFINE c == [epoch |-> 0, stage |-> "ticket", cursor |-> 0, hung |-> FALSE]
<1>1. cycles = {c} /\ c \in Cycle /\ timers = {} /\ epoch = 0 /\ stream = NoStream
  BY DEF StreamInit, Cycle
<1>2. NoStream \in Stream /\ Rows(0, 0) = <<>>
  BY DEF NoStream, Stream, Rows
<1>3. StreamTypeOK
  <2>1. mode \in RoomModes /\ log \in 0..MaxLog /\ faults \in 0..MaxFaults
    BY ModesAssumption, BoundsAssumption DEF StreamInit, ModesAssumption, BoundsAssumption
  <2>2. /\ destroyed \in BOOLEAN /\ watchdog \in BOOLEAN /\ pingsEverSeen \in BOOLEAN
        /\ connState \in {"connecting", "connected", "reconnecting"}
        /\ lastSeq \in Nat /\ epoch \in Nat /\ late \in Nat
        /\ reconnectTimer \in TimerIds \cup {NoTimer}
    BY DEF StreamInit
  <2>3. accepted \in Seq(Nat)
    BY EmptySeq DEF StreamInit
  <2>4. stream \in Stream /\ timers \subseteq TimerSet /\ cycles \subseteq Cycle
    BY <1>1, <1>2
  <2> QED
    BY <2>1, <2>2, <2>3, <2>4 DEF StreamTypeOK, TimerSet
<1>4. EpochsInv
  BY <1>1, FS_EmptySet DEF EpochsInv
<1>5. Cycling
  BY <1>1 DEF Cycling, CurrentTimers, CurrentCycles
<1>6. WatchInv /\ StreamInv /\ RowsInv
  BY <1>2 DEF StreamInit, WatchInv, StreamInv, RowsInv, NoGapNoDuplicate, NoStream
<1> QED
  BY <1>3, <1>4, <1>5, <1>6 DEF SubInv, WayInv

-----------------------------------------------------------------------------
(* What the steps have in common *)

\* The types of what most steps leave alone.
OtherTypes ==
    /\ mode \in RoomModes /\ log \in 0..MaxLog /\ faults \in 0..MaxFaults
    /\ destroyed \in BOOLEAN /\ lastSeq \in Nat /\ epoch \in Nat /\ stream \in Stream
    /\ watchdog \in BOOLEAN /\ pingsEverSeen \in BOOLEAN
    /\ connState \in {"connecting", "connected", "reconnecting"}
    /\ accepted \in Seq(Nat) /\ late \in Nat

TimerTypes ==
    timers \subseteq TimerSet /\ reconnectTimer \in TimerIds \cup {NoTimer} /\ cycles \subseteq Cycle

LEMMA TypesTogether == /\ StreamTypeOK <=> OtherTypes /\ TimerTypes
                       /\ StreamTypeOK' <=> OtherTypes' /\ TimerTypes'
BY DEF StreamTypeOK, OtherTypes, TimerTypes, TimerSet

LEMMA SameRows ==
    ASSUME SubInv, UNCHANGED <<mode, log, lastSeq, accepted, late>>
    PROVE  RowsInv'
BY DEF SubInv, RowsInv, NoGapNoDuplicate, Rows

LEMMA SameWay ==
    ASSUME SubInv, UNCHANGED <<destroyed, timers, cycles, epoch, stream, lastSeq>>
    PROVE  EpochsInv' /\ WayInv'
BY DEF SubInv, EpochsInv, WayInv, Waiting, Cycling, Streaming, CurrentTimers, CurrentCycles

LEMMA EpochsShrink ==
    ASSUME SubInv, timers' \subseteq timers, cycles' \subseteq cycles, epoch' = epoch
    PROVE  EpochsInv'
<1>1. IsFiniteSet(timers')
  BY FS_Subset DEF SubInv, EpochsInv
<1> QED
  BY <1>1 DEF SubInv, EpochsInv

\* A step that tears the subscription down.
LEMMA TornDown ==
    ASSUME SubInv, StreamTypeOK', EpochsInv', RowsInv', destroyed' = TRUE, stream' = NoStream
    PROVE  SubInv'
BY DEF SubInv, WayInv, WatchInv, StreamInv, NoStream

\* A step that dismantles it.
LEMMA Dismantled ==
    ASSUME SubInv, Dismantle, OtherTypes', RowsInv', destroyed' = TRUE, cycles' \subseteq cycles,
           epoch' = epoch
    PROVE  SubInv'
<1>1. timers' \subseteq timers /\ reconnectTimer' = NoTimer /\ stream' = NoStream
  BY DEF Dismantle, OtherTimers
<1>2. StreamTypeOK'
  <2>1. TimerTypes'
    BY <1>1, TypesTogether DEF SubInv, TimerTypes
  <2> QED
    BY <2>1, TypesTogether
<1>3. EpochsInv'
  BY <1>1, EpochsShrink
<1> QED
  BY <1>1, <1>2, <1>3, TornDown

\* The cycle that a step belongs to is the only way forward.
LEMMA OnlyCycle ==
    ASSUME SubInv, NEW c \in cycles, Answered(c)
    PROVE  /\ ~destroyed /\ c.epoch = epoch /\ c \in Cycle
           /\ CurrentTimers = {} /\ CurrentCycles = {c} /\ stream = NoStream
           /\ c.stage = "replay" => c.cursor = lastSeq
<1>1. ~destroyed /\ c.epoch = epoch /\ c \in CurrentCycles
  BY DEF Answered, Current, CurrentCycles
<1>2. Cycling
  BY <1>1 DEF SubInv, WayInv, Waiting, Streaming
<1>3. PICK d \in cycles : CurrentCycles = {d} /\ (d.stage = "replay" => d.cursor = lastSeq)
  BY <1>2 DEF Cycling
<1>4. d = c
  BY <1>1, <1>3
<1> QED
  BY <1>1, <1>2, <1>3, <1>4 DEF Cycling, SubInv, StreamTypeOK

\* It goes on as d.
LEMMA CycleGoesOn ==
    ASSUME SubInv, NEW c \in cycles, Answered(c), NEW d \in Cycle, d.epoch = c.epoch,
           d.stage = "replay" => d.cursor = lastSeq',
           cycles' = (cycles \ {c}) \cup {d},
           UNCHANGED <<epoch, stream, timers, reconnectTimer>>
    PROVE  TimerTypes' /\ EpochsInv' /\ WayInv' /\ StreamInv'
<1>1. /\ c.epoch = epoch /\ CurrentTimers = {} /\ CurrentCycles = {c} /\ stream = NoStream
  BY OnlyCycle
<1>2. TimerTypes'
  BY DEF SubInv, StreamTypeOK, TimerTypes, TimerSet
<1>3. EpochsInv'
  BY <1>1 DEF SubInv, StreamTypeOK, EpochsInv
<1>4. CurrentTimers' = {} /\ CurrentCycles' = {d}
  BY <1>1 DEF CurrentTimers, CurrentCycles
<1>5. Cycling'
  BY <1>1, <1>4 DEF Cycling
<1> QED
  BY <1>1, <1>2, <1>3, <1>5 DEF WayInv, StreamInv, NoStream

\* A cycle is scheduled: the only one, if none of the timers kept is current.
LEMMA Scheduled ==
    ASSUME SubInv, NEW rest, rest \subseteq timers, Schedule(rest, epoch'),
           epoch' \in Nat, epoch <= epoch', cycles' \subseteq cycles
    PROVE  /\ TimerTypes' /\ EpochsInv'
           /\ (\A t \in rest : t.epoch # epoch') /\ (\A c \in cycles' : c.epoch # epoch')
                 /\ stream' = NoStream => Waiting'
<1>1. IsFiniteSet(rest)
  BY FS_Subset DEF SubInv, EpochsInv
<1>2. PICK id \in TimerIds : /\ timers' = rest \cup {[id |-> id, epoch |-> epoch']}
                             /\ reconnectTimer' = id
  BY <1>1, ScheduleAdds
<1> DEFINE t == [id |-> id, epoch |-> epoch']
<1>3. t \in TimerSet /\ t.epoch = epoch'
  BY DEF TimerSet
<1> HIDE DEF t
<1>4. timers' = rest \cup {t}
  BY <1>2 DEF t
<1>5. TimerTypes'
  BY <1>2, <1>3, <1>4 DEF SubInv, StreamTypeOK, TimerTypes, TimerSet
<1>6. EpochsInv'
  <2>1. IsFiniteSet(timers')
    BY <1>1, <1>4, FS_AddElement
  <2>2. epoch \in Nat /\ (\A s \in timers : s.epoch \in Nat) /\ (\A c \in cycles : c.epoch \in Nat)
    BY DEF SubInv, StreamTypeOK, Cycle
  <2> QED
    BY <1>3, <1>4, <2>1, <2>2 DEF SubInv, EpochsInv
<1>7. (\A s \in rest : s.epoch # epoch') /\ (\A c \in cycles' : c.epoch # epoch')
          /\ stream' = NoStream => Waiting'
  BY <1>3, <1>4 DEF Waiting, CurrentTimers, CurrentCycles
<1> QED
  BY <1>5, <1>6, <1>7

-----------------------------------------------------------------------------
(* Steps of the caller, the server and the timers *)

LEMMA PublishInv == SubInv /\ Publish => SubInv'
<1> SUFFICES ASSUME SubInv, Publish PROVE SubInv'
  OBVIOUS
<1>1. StreamTypeOK'
  BY BoundsAssumption DEF BoundsAssumption, SubInv, StreamTypeOK, Publish
<1>2. EpochsInv' /\ WayInv'
  BY SameWay DEF Publish
<1>3. WatchInv' /\ StreamInv'
  BY DEF SubInv, Publish, WatchInv, StreamInv
<1>4. RowsInv'
  <2>1. accepted' = Rows(0, lastSeq') /\ (mode' = "chain" => late' = 0)
    BY DEF SubInv, Publish, RowsInv, NoGapNoDuplicate, Rows
  <2>2. lastSeq' <= log'
    BY BoundsAssumption DEF BoundsAssumption, SubInv, StreamTypeOK, Publish, RowsInv
  <2> QED
    BY <2>1, <2>2 DEF RowsInv, NoGapNoDuplicate
<1> QED
  BY <1>1, <1>2, <1>3, <1>4 DEF SubInv

LEMMA UnsubscribeInv == SubInv /\ Unsubscribe => SubInv'
<1> SUFFICES ASSUME SubInv, Unsubscribe PROVE SubInv'
  OBVIOUS
<1>1. Dismantle /\ destroyed' = TRUE /\ cycles' = cycles /\ epoch' = epoch
  BY DEF Unsubscribe
<1>2. OtherTypes'
  <2>1. stream' \in Stream /\ watchdog' \in BOOLEAN
    BY <1>1 DEF Dismantle, NoStream, Stream
  <2> QED
    BY <1>1, <2>1 DEF SubInv, StreamTypeOK, OtherTypes, Unsubscribe
<1>3. RowsInv'
  BY SameRows DEF Unsubscribe
<1> QED
  BY <1>1, <1>2, <1>3, Dismantled

LEMMA TimerFiresInv ==
    ASSUME SubInv, NEW t \in timers, TimerFires(t)
    PROVE  SubInv'
<1> DEFINE c == [epoch |-> epoch, stage |-> "replay", cursor |-> lastSeq, hung |-> FALSE]
<1>1. /\ timers' = timers \ {t} /\ reconnectTimer' = NoTimer
      /\ cycles' = IF Current(t) THEN cycles \cup {c} ELSE cycles
      /\ UNCHANGED <<mode, log, faults, destroyed, lastSeq, epoch, stream, watchdog,
                     pingsEverSeen, connState, accepted, late>>
  BY DEF TimerFires
<1>2. c \in Cycle /\ c.epoch = epoch /\ c.cursor = lastSeq
  BY DEF SubInv, StreamTypeOK, Cycle
<1> HIDE DEF c
<1>3. StreamTypeOK'
  BY <1>1, <1>2 DEF SubInv, StreamTypeOK
<1>4. EpochsInv'
  <2>1. IsFiniteSet(timers')
    BY <1>1, FS_RemoveElement DEF SubInv, EpochsInv
  <2> QED
    BY <1>1, <1>2, <2>1 DEF SubInv, StreamTypeOK, EpochsInv
<1>5. WatchInv' /\ StreamInv'
  BY <1>1 DEF SubInv, WatchInv, StreamInv
<1>6. RowsInv'
  BY <1>1, SameRows
<1>7. WayInv'
  <2> SUFFICES ASSUME ~destroyed PROVE Waiting' \/ Cycling' \/ Streaming'
    BY <1>1 DEF WayInv
  <2>1. CASE t.epoch = epoch
    <3>1. t \in CurrentTimers
      BY <2>1 DEF CurrentTimers
    <3>2. CurrentTimers = {t} /\ CurrentCycles = {} /\ stream = NoStream
      BY <3>1 DEF SubInv, WayInv, Waiting, Cycling, Streaming
    <3>3. cycles' = cycles \cup {c}
      BY <1>1, <2>1 DEF Current
    <3>4. CurrentTimers' = {} /\ CurrentCycles' = {c}
      BY <1>1, <1>2, <3>2, <3>3 DEF CurrentTimers, CurrentCycles
    <3> QED
      BY <1>1, <1>2, <3>2, <3>3, <3>4 DEF Cycling
  <2>2. CASE t.epoch # epoch
    <3>1. CurrentTimers' = CurrentTimers /\ cycles' = cycles
      BY <1>1, <2>2 DEF CurrentTimers, Current
    <3>2. CurrentCycles' = CurrentCycles
      BY <1>1, <3>1 DEF CurrentCycles
    <3>3. \A s \in CurrentTimers : s \in timers'
      BY <3>1 DEF CurrentTimers
    <3> QED
      BY <1>1, <3>1, <3>2, <3>3 DEF SubInv, WayInv, Waiting, Cycling, Streaming
  <2> QED
    BY <2>1, <2>2
<1> QED
  BY <1>3, <1>4, <1>5, <1>6, <1>7 DEF SubInv

-----------------------------------------------------------------------------
(* Steps of a cycle *)

LEMMA HangInv ==
    ASSUME SubInv, NEW c \in cycles, Hang(c)
    PROVE  SubInv'
<1> DEFINE d == [c EXCEPT !.hung = TRUE]
<1>1. /\ Answered(c) /\ cycles' = (cycles \ {c}) \cup {d}
      /\ UNCHANGED <<mode, log, destroyed, lastSeq, epoch, stream, timers, reconnectTimer,
                     watchdog, pingsEverSeen, connState, accepted, late>>
  BY DEF Hang
<1>2. c \in Cycle /\ (c.stage = "replay" => c.cursor = lastSeq)
  BY <1>1, OnlyCycle
<1>3. d \in Cycle /\ d.epoch = c.epoch /\ (d.stage = "replay" => d.cursor = lastSeq)
  BY <1>2 DEF Cycle
<1> HIDE DEF d
<1>4. TimerTypes' /\ EpochsInv' /\ WayInv' /\ StreamInv'
  BY <1>1, <1>3, CycleGoesOn
<1>5. OtherTypes'
  BY <1>1, BoundsAssumption DEF BoundsAssumption, SubInv, StreamTypeOK, OtherTypes, Hang, Fault
<1>6. WatchInv' /\ RowsInv'
  BY <1>1, SameRows DEF SubInv, WatchInv
<1> QED
  BY <1>4, <1>5, <1>6, TypesTogether DEF SubInv

LEMMA SupersededInv ==
    ASSUME SubInv, NEW c \in cycles, Superseded(c)
    PROVE  SubInv'
<1>1. /\ ~Current(c) /\ cycles' = cycles \ {c}
      /\ UNCHANGED <<mode, log, faults, destroyed, lastSeq, epoch, stream, timers,
                     reconnectTimer, watchdog, pingsEverSeen, connState, accepted, late>>
  BY DEF Superseded
<1>2. StreamTypeOK'
  BY <1>1 DEF SubInv, StreamTypeOK
<1>3. EpochsInv'
  BY <1>1, EpochsShrink
<1>4. WatchInv' /\ StreamInv'
  BY <1>1 DEF SubInv, WatchInv, StreamInv
<1>5. RowsInv'
  BY <1>1, SameRows
<1>6. WayInv'
  <2> SUFFICES ASSUME ~destroyed PROVE Waiting' \/ Cycling' \/ Streaming'
    BY <1>1 DEF WayInv
  <2>1. c.epoch # epoch
    BY <1>1 DEF Current
  <2>2. CurrentCycles' = CurrentCycles /\ CurrentTimers' = CurrentTimers
    BY <1>1, <2>1 DEF CurrentCycles, CurrentTimers
  <2>3. \A d \in CurrentCycles : d \in cycles'
    BY <2>2 DEF CurrentCycles
  <2> QED
    BY <1>1, <2>2, <2>3 DEF SubInv, WayInv, Waiting, Cycling, Streaming
<1> QED
  BY <1>2, <1>3, <1>4, <1>5, <1>6 DEF SubInv

\* Rows from the cursor on are handed over once the cursor is where it should be.
LEMMA HandOverRows ==
    ASSUME SubInv, NEW c \in cycles, c.cursor = lastSeq,
           NEW end \in Nat, lastSeq <= end, end <= log,
           HandOver(c, end), UNCHANGED <<mode, log>>, mode = "chain" => late' = 0
    PROVE  lastSeq' = end /\ accepted' \in Seq(Nat) /\ RowsInv'
<1>1. lastSeq \in Nat
  BY DEF SubInv, StreamTypeOK
<1>2. lastSeq' = end
  BY <1>1 DEF HandOver
<1>3. accepted' = Rows(0, lastSeq) \o Rows(lastSeq, end)
  BY DEF HandOver, SubInv, RowsInv, NoGapNoDuplicate
<1>4. accepted' = Rows(0, end)
  BY <1>1, <1>3, RowsConcat
<1>5. accepted' \in Seq(Nat)
  BY <1>4, RowsFromStart
<1>6. RowsInv'
  <2>1. Rows(0, lastSeq)' = Rows(0, end)
    BY <1>2 DEF Rows
  <2> QED
    BY <1>2, <1>4, <2>1 DEF RowsInv, NoGapNoDuplicate
<1> QED
  BY <1>2, <1>5, <1>6

\* A page ends within the log, and not before it starts.
LEMMA PageEnds ==
    ASSUME SubInv, NEW c \in cycles, c.cursor = lastSeq
    PROVE  PageEnd(c) \in Nat /\ lastSeq <= PageEnd(c) /\ PageEnd(c) <= log
BY BoundsAssumption DEF BoundsAssumption, SubInv, StreamTypeOK, RowsInv, PageEnd

LEMMA ReplayPageInv ==
    ASSUME SubInv, NEW c \in cycles, ReplayPage(c)
    PROVE  SubInv'
<1> DEFINE end == PageEnd(c)
           d == IF end < log THEN [c EXCEPT !.cursor = end] ELSE [c EXCEPT !.stage = "ticket"]
<1>1. /\ Answered(c) /\ c.stage = "replay" /\ HandOver(c, end)
      /\ UNCHANGED <<mode, log, faults, epoch, pingsEverSeen, connState>>
  BY DEF ReplayPage
<1>2. ~destroyed /\ c \in Cycle /\ c.cursor = lastSeq
  BY <1>1, OnlyCycle
<1>3. end \in Nat /\ lastSeq <= end /\ end <= log
  BY <1>2, PageEnds
<1>4. CASE /\ UNCHANGED <<destroyed, stream, timers, reconnectTimer>>
           /\ late' = late + Late(end - c.cursor)
           /\ watchdog' = Rearmed(watchdog)
           /\ cycles' = (cycles \ {c}) \cup {d}
  <2>1. late' = late /\ late \in Nat
    BY <1>2, <1>4 DEF Late, SubInv, StreamTypeOK
  <2>2. mode = "chain" => late' = 0
    BY <2>1 DEF SubInv, RowsInv, NoGapNoDuplicate
  <2> HIDE DEF end
  <2>3. lastSeq' = end /\ accepted' \in Seq(Nat) /\ RowsInv'
    BY <1>1, <1>2, <1>3, <2>2, HandOverRows
  <2>4. d \in Cycle /\ d.epoch = c.epoch /\ (d.stage = "replay" => d.cursor = lastSeq')
    BY <1>2, <1>3, <2>3 DEF Cycle
  <2> HIDE DEF d
  <2>5. TimerTypes' /\ EpochsInv' /\ WayInv' /\ StreamInv'
    BY <1>1, <1>4, <2>4, CycleGoesOn
  <2>6. watchdog' \in BOOLEAN /\ (watchdog => watchdog')
    BY <1>4 DEF Rearmed, SubInv, StreamTypeOK
  <2>7. OtherTypes'
    BY <1>1, <1>3, <1>4, <2>1, <2>3, <2>6 DEF SubInv, StreamTypeOK, OtherTypes
  <2>8. WatchInv'
    BY <1>1, <1>4, <2>6 DEF SubInv, WatchInv
  <2> QED
    BY <2>3, <2>5, <2>7, <2>8, TypesTogether DEF SubInv
<1>5. CASE /\ TRUE \in QuitsOnMessage
           /\ \E quitAt \in (c.cursor + 1)..end : late' = late + end - quitAt
           /\ destroyed' = TRUE
           /\ Dismantle
           /\ cycles' = cycles \ {c}
  <2>1. mode # "chain"
    BY <1>5 DEF QuitsOnMessage
  <2>2. late' \in Nat
    <3>1. PICK quitAt \in (c.cursor + 1)..end : late' = late + end - quitAt
      BY <1>5
    <3>2. late \in Nat /\ c.cursor \in Nat
      BY <1>2 DEF SubInv, StreamTypeOK, Cycle
    <3> QED
      BY <1>3, <3>1, <3>2
  <2> HIDE DEF end
  <2>3. lastSeq' = end /\ accepted' \in Seq(Nat) /\ RowsInv'
    BY <1>1, <1>2, <1>3, <2>1, HandOverRows
  <2>4. stream' \in Stream /\ watchdog' \in BOOLEAN
    BY <1>5 DEF Dismantle, NoStream, Stream
  <2>5. OtherTypes'
    BY <1>1, <1>3, <1>5, <2>2, <2>3, <2>4 DEF SubInv, StreamTypeOK, OtherTypes
  <2> QED
    BY <1>1, <1>5, <2>3, <2>5, Dismantled
<1> QED
  BY <1>4, <1>5 DEF ReplayPage

LEMMA ReplayThrowsInv ==
    ASSUME SubInv, NEW c \in cycles, ReplayThrows(c)
    PROVE  SubInv'
<1> DEFINE d == [c EXCEPT !.stage = "ticket"]
<1>1. /\ Answered(c) /\ c.stage = "replay" /\ mode = "direct"
      /\ UNCHANGED <<mode, log, epoch, stream, reconnectTimer, pingsEverSeen, connState, late>>
  BY DEF ReplayThrows
<1>2. PICK end \in (c.cursor + 1)..PageEnd(c) : HandOver(c, end)
  BY DEF ReplayThrows
<1>3. PICK quits \in Quits :
        /\ TeardownIf(quits)
        /\ timers' = TimersUnless(quits)
        /\ watchdog' = (Rearmed(watchdog) /\ ~quits)
        /\ cycles' = (cycles \ {c}) \cup (IF quits THEN {} ELSE {d})
  BY DEF ReplayThrows
<1>4. ~destroyed /\ c \in Cycle /\ c.cursor = lastSeq /\ stream = NoStream /\ quits \in BOOLEAN
  BY <1>1, OnlyCycle DEF Quits
<1>5. end \in Nat /\ lastSeq <= end /\ end <= log
  <2>1. PageEnd(c) \in Nat /\ PageEnd(c) <= log /\ lastSeq \in Nat /\ log \in Nat
    BY <1>4, PageEnds, BoundsAssumption DEF BoundsAssumption, SubInv, StreamTypeOK
  <2> QED
    BY <1>2, <1>4, <2>1
<1>6. lastSeq' = end /\ accepted' \in Seq(Nat) /\ RowsInv'
  BY <1>1, <1>2, <1>4, <1>5, HandOverRows
<1>7. d \in Cycle /\ d.epoch = c.epoch /\ d.stage = "ticket"
  BY <1>4 DEF Cycle
<1> HIDE DEF d
<1>8. OtherTypes'
  <2>1. faults' \in 0..MaxFaults
    BY BoundsAssumption DEF BoundsAssumption, ReplayThrows, Fault, SubInv, StreamTypeOK
  <2>2. destroyed' \in BOOLEAN /\ watchdog' \in BOOLEAN
    BY <1>3, <1>4 DEF TeardownIf, Rearmed, SubInv, StreamTypeOK
  <2> QED
    BY <1>1, <1>5, <1>6, <2>1, <2>2 DEF SubInv, StreamTypeOK, OtherTypes
<1>9. CASE quits
  <2>1. destroyed' = TRUE /\ stream' = NoStream /\ timers' \subseteq timers /\ cycles' \subseteq cycles
    BY <1>1, <1>3, <1>4, <1>9 DEF TeardownIf, TimersUnless, OtherTimers
  <2>2. TimerTypes'
    BY <1>1, <2>1, TypesTogether DEF SubInv, TimerTypes
  <2>3. EpochsInv'
    BY <1>1, <2>1, EpochsShrink
  <2> QED
    BY <1>6, <1>8, <2>1, <2>2, <2>3, TypesTogether, TornDown
<1>10. CASE ~quits
  <2>1. /\ destroyed' = destroyed /\ timers' = timers /\ watchdog' = Rearmed(watchdog)
        /\ cycles' = (cycles \ {c}) \cup {d}
    BY <1>3, <1>4, <1>10 DEF TeardownIf, TimersUnless, Rearmed, SubInv, StreamTypeOK
  <2>2. TimerTypes' /\ EpochsInv' /\ WayInv' /\ StreamInv'
    BY <1>1, <1>7, <2>1, CycleGoesOn
  <2>3. WatchInv'
    BY <1>1, <2>1 DEF Rearmed, SubInv, WatchInv
  <2> QED
    BY <1>6, <1>8, <2>2, <2>3, TypesTogether DEF SubInv
<1> QED
  BY <1>4, <1>9, <1>10

LEMMA ReplayFailsInv ==
    ASSUME SubInv, NEW c \in cycles, ReplayFails(c)
    PROVE  SubInv'
<1> DEFINE d == [c EXCEPT !.stage = "ticket"]
<1>1. PICK quits \in Quits :
        /\ TeardownIf(quits)
        /\ timers' = TimersUnless(quits)
        /\ watchdog' = WatchdogUnless(quits)
        /\ cycles' = (cycles \ {c}) \cup (IF quits THEN {} ELSE {d})
  BY DEF ReplayFails
<1>2. /\ Answered(c) /\ c.stage = "replay"
      /\ UNCHANGED <<mode, log, lastSeq, epoch, stream, reconnectTimer, pingsEverSeen,
                     connState, accepted, late>>
  BY DEF ReplayFails
<1>3. /\ ~destroyed /\ c \in Cycle /\ stream = NoStream
  BY <1>2, OnlyCycle
<1>4. d \in Cycle /\ d.epoch = c.epoch /\ d.stage = "ticket"
  BY <1>3 DEF Cycle
<1> HIDE DEF d
<1>5. quits \in BOOLEAN
  BY DEF Quits
<1>6. RowsInv'
  BY <1>2, SameRows
<1>7. OtherTypes'
  <2>1. faults' \in 0..MaxFaults
    BY BoundsAssumption DEF BoundsAssumption, ReplayFails, Fault, SubInv, StreamTypeOK
  <2>2. destroyed' \in BOOLEAN /\ watchdog' \in BOOLEAN
    BY <1>1, <1>5 DEF TeardownIf, WatchdogUnless, SubInv, StreamTypeOK
  <2> QED
    BY <1>2, <2>1, <2>2 DEF SubInv, StreamTypeOK, OtherTypes
<1>8. CASE quits
  <2>1. destroyed' = TRUE /\ stream' = NoStream /\ timers' \subseteq timers /\ cycles' \subseteq cycles
    BY <1>1, <1>2, <1>3, <1>8 DEF TeardownIf, TimersUnless, OtherTimers
  <2>2. TimerTypes'
    BY <1>2, <2>1, TypesTogether DEF SubInv, TimerTypes
  <2>3. EpochsInv'
    BY <1>2, <2>1, EpochsShrink
  <2> QED
    BY <1>6, <1>7, <2>1, <2>2, <2>3, TypesTogether, TornDown
<1>9. CASE ~quits
  <2>1. /\ destroyed' = destroyed /\ timers' = timers /\ watchdog' = watchdog
        /\ cycles' = (cycles \ {c}) \cup {d}
    BY <1>1, <1>5, <1>9 DEF TeardownIf, TimersUnless, WatchdogUnless, SubInv, StreamTypeOK
  <2>2. TimerTypes' /\ EpochsInv' /\ WayInv' /\ StreamInv'
    BY <1>2, <1>4, <2>1, CycleGoesOn
  <2>3. WatchInv'
    BY <1>2, <2>1 DEF SubInv, WatchInv
  <2> QED
    BY <1>6, <1>7, <2>2, <2>3, TypesTogether DEF SubInv
<1> QED
  BY <1>8, <1>9

LEMMA ReplayRefusedInv ==
    ASSUME SubInv, NEW c \in cycles, ReplayRefused(c)
    PROVE  SubInv'
<1>1. /\ destroyed' = TRUE /\ Dismantle /\ cycles' = cycles \ {c}
      /\ UNCHANGED <<mode, log, lastSeq, epoch, pingsEverSeen, connState, accepted, late>>
  BY DEF ReplayRefused
<1>2. OtherTypes'
  <2>1. stream' \in Stream /\ watchdog' \in BOOLEAN
    BY <1>1 DEF Dismantle, NoStream, Stream
  <2>2. faults' \in 0..MaxFaults
    BY BoundsAssumption DEF BoundsAssumption, ReplayRefused, Fault, SubInv, StreamTypeOK
  <2> QED
    BY <1>1, <2>1, <2>2 DEF SubInv, StreamTypeOK, OtherTypes
<1>3. RowsInv'
  BY <1>1, SameRows
<1> QED
  BY <1>1, <1>2, <1>3, Dismantled

LEMMA TicketGrantedInv ==
    ASSUME SubInv, NEW c \in cycles, TicketGranted(c)
    PROVE  SubInv'
<1> DEFINE s == [state |-> "silent", pos |-> lastSeq]
<1>1. /\ Answered(c) /\ stream' = s
      /\ watchdog' = (LivenessOn \/ watchdog)
      /\ cycles' = cycles \ {c}
      /\ UNCHANGED <<mode, log, faults, destroyed, lastSeq, epoch, timers, reconnectTimer,
                     pingsEverSeen, connState, accepted, late>>
  BY DEF TicketGranted
<1>2. ~destroyed /\ CurrentTimers = {} /\ CurrentCycles = {c}
  BY <1>1, OnlyCycle
<1>3. s \in Stream /\ s.state = "silent" /\ s.pos = lastSeq
  BY DEF Stream, SubInv, StreamTypeOK
<1> HIDE DEF s
<1>4. watchdog' \in BOOLEAN /\ (watchdog => watchdog')
  BY <1>1 DEF SubInv, StreamTypeOK
<1>5. StreamTypeOK'
  BY <1>1, <1>3, <1>4 DEF SubInv, StreamTypeOK
<1>6. EpochsInv'
  BY <1>1, EpochsShrink
<1>7. CurrentTimers' = {} /\ CurrentCycles' = {}
  BY <1>1, <1>2 DEF CurrentTimers, CurrentCycles
<1>8. WayInv' /\ StreamInv'
  BY <1>1, <1>2, <1>3, <1>7 DEF WayInv, StreamInv, Streaming
<1>9. WatchInv'
  BY <1>1, <1>4 DEF SubInv, WatchInv
<1>10. RowsInv'
  BY <1>1, SameRows
<1> QED
  BY <1>5, <1>6, <1>8, <1>9, <1>10 DEF SubInv

LEMMA TicketFailsInv ==
    ASSUME SubInv, NEW c \in cycles, TicketFails(c)
    PROVE  SubInv'
<1>1. PICK quits \in Quits : /\ TeardownIf(quits)
                             /\ Schedule(TimersUnless(quits), epoch)
                             /\ watchdog' = WatchdogUnless(quits)
  BY DEF TicketFails
<1>2. /\ Answered(c) /\ cycles' = cycles \ {c}
      /\ UNCHANGED <<mode, log, lastSeq, epoch, stream, pingsEverSeen, connState, accepted, late>>
  BY DEF TicketFails
<1>3. ~destroyed /\ CurrentTimers = {} /\ CurrentCycles = {c} /\ stream = NoStream
  BY <1>2, OnlyCycle
<1>4. quits \in BOOLEAN /\ TimersUnless(quits) \subseteq timers
  BY DEF Quits, TimersUnless, OtherTimers
<1>5. RowsInv'
  BY <1>2, SameRows
<1>6. OtherTypes'
  <2>1. faults' \in 0..MaxFaults
    BY BoundsAssumption DEF BoundsAssumption, TicketFails, Fault, SubInv, StreamTypeOK
  <2>2. destroyed' \in BOOLEAN /\ watchdog' \in BOOLEAN
    BY <1>1, <1>4 DEF TeardownIf, WatchdogUnless, SubInv, StreamTypeOK
  <2> QED
    BY <1>2, <2>1, <2>2 DEF SubInv, StreamTypeOK, OtherTypes
<1> DEFINE rest == TimersUnless(quits)
<1>7. /\ rest \subseteq timers /\ Schedule(rest, epoch') /\ epoch' \in Nat /\ epoch <= epoch'
      /\ cycles' \subseteq cycles
      /\ (\A t \in rest : t.epoch # epoch') /\ (\A d \in cycles' : d.epoch # epoch')
  BY <1>1, <1>2, <1>3, <1>4 DEF CurrentTimers, CurrentCycles, SubInv, StreamTypeOK
<1> HIDE DEF rest
<1>8. TimerTypes' /\ EpochsInv' /\ Waiting'
  BY <1>2, <1>3, <1>7, Scheduled
<1>9. WayInv' /\ StreamInv'
  BY <1>2, <1>3, <1>8 DEF WayInv, StreamInv, NoStream
<1>10. WatchInv'
  BY <1>1, <1>2, <1>4 DEF SubInv, StreamTypeOK, WatchInv, TeardownIf, WatchdogUnless
<1> QED
  BY <1>5, <1>6, <1>8, <1>9, <1>10, TypesTogether DEF SubInv

-----------------------------------------------------------------------------
(* Frames *)

\* A stream that is there is the only way forward.
LEMMA OnlyStream ==
    ASSUME SubInv, stream.state # "none"
    PROVE  /\ ~destroyed /\ CurrentTimers = {} /\ CurrentCycles = {} /\ stream.pos = lastSeq
           /\ stream \in Stream
BY DEF SubInv, StreamTypeOK, StreamInv, WayInv, Waiting, Cycling, Streaming, NoStream

\* It stays so, in state st, and so does everything the ways depend on.
LEMMA StreamGoesOn ==
    ASSUME SubInv, stream.state # "none", NEW st, stream' = st, st.state # "none",
           st.pos = lastSeq', UNCHANGED <<timers, cycles, epoch>>
    PROVE  EpochsInv' /\ WayInv'
<1>1. CurrentTimers' = {} /\ CurrentCycles' = {}
  BY OnlyStream DEF CurrentTimers, CurrentCycles
<1> QED
  BY <1>1 DEF SubInv, EpochsInv, WayInv, Streaming

\* What noteActivity() does, with the callbacks run under it.
LEMMA Noted ==
    ASSUME SubInv, stream.state # "none", NEW qs \in BOOLEAN, NEW qm \in BOOLEAN,
           NEW pinged \in BOOLEAN, NoteActivity(qs, qm, pinged)
    PROVE  /\ connState' = "connected" /\ watchdog' \in BOOLEAN
           /\ destroyed' = (qs \/ qm) /\ timers' \subseteq timers
           /\ reconnectTimer' \in TimerIds \cup {NoTimer}
           /\ ~(qs \/ qm) => timers' = timers
           /\ ~qm /\ pinged /\ LivenessOn => watchdog'
<1>1. ~destroyed
  BY OnlyStream
<1>2. /\ connState' = "connected"
      /\ destroyed' = (destroyed \/ (qs \/ qm))
      /\ timers' = TimersUnless(qs \/ qm)
      /\ reconnectTimer' = IF qs \/ qm THEN NoTimer ELSE reconnectTimer
      /\ watchdog' = (pinged /\ LivenessOn /\ ~qm)
  BY Zenon DEF NoteActivity, TeardownIf
<1>3. watchdog' \in BOOLEAN /\ (~qm /\ pinged /\ LivenessOn => watchdog')
  BY <1>2
<1>4. timers' \subseteq timers /\ (~(qs \/ qm) => timers' = timers)
  BY <1>2 DEF TimersUnless, OtherTimers
<1>5. destroyed' = (qs \/ qm)
  BY <1>1, <1>2 DEF SubInv, StreamTypeOK
<1> QED
  BY <1>2, <1>3, <1>4, <1>5 DEF SubInv, StreamTypeOK

\* A frame whose callbacks may have unsubscribed (quits); else the stream is in
\* state st.
LEMMA FrameInv ==
    ASSUME SubInv, stream.state # "none", NEW quits \in BOOLEAN, NEW st \in Stream,
           st.state # "none", st.pos = lastSeq',
           destroyed' = quits, timers' \subseteq timers, ~quits => timers' = timers,
           reconnectTimer' \in TimerIds \cup {NoTimer},
           connState' = "connected", watchdog' \in BOOLEAN, pingsEverSeen' \in BOOLEAN,
           ~quits /\ pingsEverSeen' /\ LivenessOn => watchdog',
           stream' = StreamUnless(quits, st),
           UNCHANGED <<mode, log, faults, epoch, cycles>>,
           lastSeq' \in Nat, accepted' \in Seq(Nat), late' \in Nat, RowsInv'
    PROVE  SubInv'
<1>1. stream' \in Stream
  BY DEF StreamUnless, NoStream, Stream
<1>2. StreamTypeOK'
  BY <1>1 DEF SubInv, StreamTypeOK
<1>3. CASE quits
  <2>1. destroyed' = TRUE /\ stream' = NoStream
    BY <1>3 DEF StreamUnless
  <2>2. EpochsInv'
    BY EpochsShrink
  <2> QED
    BY <1>2, <2>1, <2>2, TornDown
<1>4. CASE ~quits
  <2>1. stream' = st /\ timers' = timers
    BY <1>4 DEF StreamUnless
  <2>2. EpochsInv' /\ WayInv'
    BY <2>1, StreamGoesOn
  <2>3. WatchInv' /\ StreamInv'
    BY <1>4 DEF WatchInv, StreamInv
  <2> QED
    BY <1>2, <2>2, <2>3 DEF SubInv
<1> QED
  BY <1>3, <1>4

LEMMA QuitsAreBoolean ==
    /\ Quits \subseteq BOOLEAN
    /\ QuitsOnMessage \subseteq BOOLEAN
    /\ \A next : QuitsOnState(next) \subseteq BOOLEAN
BY DEF Quits, QuitsOnMessage, QuitsOnState

LEMMA PreludeInv == SubInv /\ Prelude => SubInv'
<1> SUFFICES ASSUME SubInv, Prelude PROVE SubInv'
  OBVIOUS
<1> DEFINE st == [stream EXCEPT !.state = "open"]
<1>1. PICK quits \in QuitsOnState("connected") :
        /\ NoteActivity(quits, FALSE, pingsEverSeen)
        /\ stream' = StreamUnless(quits, st)
  BY DEF Prelude
<1>2. /\ stream.state # "none"
      /\ UNCHANGED <<mode, log, faults, lastSeq, epoch, cycles, pingsEverSeen, accepted, late>>
  BY DEF Prelude, Frame
<1>3. st \in Stream /\ st.state = "open" /\ st.pos = lastSeq'
  BY <1>2, OnlyStream DEF Stream
<1>4. quits \in BOOLEAN /\ pingsEverSeen \in BOOLEAN
  BY QuitsAreBoolean DEF SubInv, StreamTypeOK
<1> HIDE DEF st
<1>5. /\ connState' = "connected" /\ watchdog' \in BOOLEAN
      /\ destroyed' = (quits \/ FALSE) /\ timers' \subseteq timers
      /\ reconnectTimer' \in TimerIds \cup {NoTimer}
      /\ ~(quits \/ FALSE) => timers' = timers
      /\ pingsEverSeen /\ LivenessOn => watchdog'
  BY <1>1, <1>2, <1>4, Noted
<1>6. RowsInv'
  BY <1>2, SameRows
<1>7. destroyed' = quits /\ (~quits => timers' = timers)
  BY <1>4, <1>5
<1>8. lastSeq' \in Nat /\ accepted' \in Seq(Nat) /\ late' \in Nat /\ pingsEverSeen' \in BOOLEAN
  BY <1>2 DEF SubInv, StreamTypeOK
<1> QED
  BY <1>1, <1>2, <1>3, <1>4, <1>5, <1>6, <1>7, <1>8, FrameInv

LEMMA PreludeRefusedInv == SubInv /\ PreludeRefused => SubInv'
<1> SUFFICES ASSUME SubInv, PreludeRefused PROVE SubInv'
  OBVIOUS
<1>1. /\ destroyed' = TRUE /\ Dismantle /\ connState' = "connected"
      /\ UNCHANGED <<mode, log, lastSeq, epoch, cycles, pingsEverSeen, accepted, late>>
  BY DEF PreludeRefused
<1>2. OtherTypes'
  <2>1. stream' \in Stream /\ watchdog' \in BOOLEAN
    BY <1>1 DEF Dismantle, NoStream, Stream
  <2>2. faults' \in 0..MaxFaults
    BY BoundsAssumption DEF BoundsAssumption, PreludeRefused, Fault, SubInv, StreamTypeOK
  <2> QED
    BY <1>1, <2>1, <2>2 DEF SubInv, StreamTypeOK, OtherTypes
<1>3. RowsInv'
  BY <1>1, SameRows
<1> QED
  BY <1>1, <1>2, <1>3, Dismantled

LEMMA MessageInv == SubInv /\ Message => SubInv'
<1> SUFFICES ASSUME SubInv, Message PROVE SubInv'
  OBVIOUS
<1> DEFINE st == [stream EXCEPT !.pos = @ + 1]
<1>1. PICK quitsState \in QuitsOnState("connected"), quitsMessage \in QuitsOnMessage :
        /\ NoteActivity(quitsState, quitsMessage, pingsEverSeen)
        /\ stream' = StreamUnless(quitsState \/ quitsMessage, st)
        /\ late' = IF quitsState THEN late + 1 ELSE late
  BY DEF Message
<1>2. /\ stream.state = "open" /\ stream.pos < log
      /\ lastSeq' = stream.pos + 1 /\ accepted' = Append(accepted, stream.pos + 1)
      /\ UNCHANGED <<mode, log, faults, epoch, cycles, pingsEverSeen>>
  BY DEF Message, Frame
<1>3. connState = "connected" /\ stream.pos = lastSeq /\ stream \in Stream
  BY <1>2, OnlyStream DEF SubInv, StreamInv
<1>4. quitsState = FALSE /\ quitsMessage \in BOOLEAN /\ pingsEverSeen \in BOOLEAN
  BY <1>3, QuitsAreBoolean DEF QuitsOnState, SubInv, StreamTypeOK
<1>5. lastSeq \in Nat /\ log \in Nat /\ lastSeq' = lastSeq + 1 /\ lastSeq' <= log
  BY <1>2, <1>3, BoundsAssumption DEF BoundsAssumption, SubInv, StreamTypeOK
<1>6. accepted' = Rows(0, lastSeq')
  <2>1. accepted' = Append(Rows(0, lastSeq), lastSeq + 1)
    BY <1>2, <1>3 DEF SubInv, RowsInv, NoGapNoDuplicate
  <2> QED
    BY <1>5, <2>1, RowsAppend
<1>7. late' = late
  BY <1>1, <1>4
<1>8. RowsInv'
  <2>1. Rows(0, lastSeq)' = Rows(0, lastSeq')
    BY DEF Rows
  <2> QED
    BY <1>2, <1>5, <1>6, <1>7, <2>1 DEF RowsInv, NoGapNoDuplicate, SubInv
<1>9. st \in Stream /\ st.state = "open" /\ st.pos = lastSeq'
  BY <1>2, <1>3, <1>5 DEF Stream
<1> HIDE DEF st
<1>10. /\ connState' = "connected" /\ watchdog' \in BOOLEAN
       /\ destroyed' = (quitsState \/ quitsMessage) /\ timers' \subseteq timers
       /\ reconnectTimer' \in TimerIds \cup {NoTimer}
       /\ ~(quitsState \/ quitsMessage) => timers' = timers
       /\ ~quitsMessage /\ pingsEverSeen /\ LivenessOn => watchdog'
  BY <1>1, <1>2, <1>4, Noted
<1>11. /\ destroyed' = quitsMessage /\ (~quitsMessage => timers' = timers)
       /\ stream' = StreamUnless(quitsMessage, st)
       /\ ~quitsMessage /\ pingsEverSeen' /\ LivenessOn => watchdog'
  <2>1. (quitsState \/ quitsMessage) = quitsMessage
    BY <1>4
  <2> QED
    BY <1>1, <1>2, <1>10, <2>1
<1>12. lastSeq' \in Nat /\ accepted' \in Seq(Nat) /\ late' \in Nat /\ pingsEverSeen' \in BOOLEAN
  <2>1. lastSeq' \in Nat
    BY <1>5
  <2>2. accepted' \in Seq(Nat)
    BY <1>6, <2>1, RowsFromStart
  <2> QED
    BY <1>2, <1>7, <2>1, <2>2 DEF SubInv, StreamTypeOK
<1> QED
  BY <1>2, <1>4, <1>8, <1>9, <1>10, <1>11, <1>12, FrameInv

LEMMA PingInv == SubInv /\ Ping => SubInv'
<1> SUFFICES ASSUME SubInv, Ping PROVE SubInv'
  OBVIOUS
<1>1. PICK quits \in QuitsOnState("connected") : /\ NoteActivity(quits, FALSE, TRUE)
                                                 /\ stream' = StreamUnless(quits, stream)
  BY DEF Ping
<1>2. /\ stream.state # "none" /\ pingsEverSeen' = TRUE
      /\ UNCHANGED <<mode, log, faults, lastSeq, epoch, cycles, accepted, late>>
  BY DEF Ping, Frame
<1>3. stream \in Stream /\ stream.pos = lastSeq'
  BY <1>2, OnlyStream
<1>4. quits \in BOOLEAN
  BY QuitsAreBoolean
<1>5. /\ connState' = "connected" /\ watchdog' \in BOOLEAN
      /\ destroyed' = (quits \/ FALSE) /\ timers' \subseteq timers
      /\ reconnectTimer' \in TimerIds \cup {NoTimer}
      /\ ~(quits \/ FALSE) => timers' = timers
      /\ LivenessOn => watchdog'
  BY <1>1, <1>2, <1>4, Noted
<1>6. RowsInv'
  BY <1>2, SameRows
<1>7. destroyed' = quits /\ (~quits => timers' = timers)
  BY <1>4, <1>5
<1>8. lastSeq' \in Nat /\ accepted' \in Seq(Nat) /\ late' \in Nat
  BY <1>2 DEF SubInv, StreamTypeOK
<1> QED
  BY <1>1, <1>2, <1>3, <1>4, <1>5, <1>6, <1>7, <1>8, FrameInv

LEMMA StreamEndsInv == SubInv /\ StreamEnds => SubInv'
<1> SUFFICES ASSUME SubInv, StreamEnds PROVE SubInv'
  OBVIOUS
<1>1. PICK quits \in QuitsOnState("reconnecting") : /\ TeardownIf(quits)
                                                    /\ Schedule(TimersUnless(quits), epoch)
                                                    /\ watchdog' = WatchdogUnless(quits)
  BY DEF StreamEnds
<1>2. /\ stream.state # "none" /\ stream' = NoStream /\ connState' = "reconnecting"
      /\ UNCHANGED <<mode, log, lastSeq, epoch, cycles, pingsEverSeen, accepted, late>>
  BY DEF StreamEnds
<1>3. ~destroyed /\ CurrentTimers = {} /\ CurrentCycles = {}
  BY <1>2, OnlyStream
<1>4. quits \in BOOLEAN /\ TimersUnless(quits) \subseteq timers
  BY QuitsAreBoolean DEF TimersUnless, OtherTimers
<1>5. RowsInv'
  BY <1>2, SameRows
<1>6. OtherTypes'
  <2>1. faults' \in 0..MaxFaults
    BY BoundsAssumption DEF BoundsAssumption, StreamEnds, Fault, SubInv, StreamTypeOK
  <2>2. destroyed' \in BOOLEAN /\ watchdog' \in BOOLEAN
    BY <1>1, <1>4 DEF TeardownIf, WatchdogUnless, SubInv, StreamTypeOK
  <2>3. stream' \in Stream
    BY <1>2 DEF NoStream, Stream
  <2> QED
    BY <1>2, <2>1, <2>2, <2>3 DEF SubInv, StreamTypeOK, OtherTypes
<1> DEFINE rest == TimersUnless(quits)
<1>7. /\ rest \subseteq timers /\ Schedule(rest, epoch') /\ epoch' \in Nat /\ epoch <= epoch'
      /\ cycles' \subseteq cycles
      /\ (\A t \in rest : t.epoch # epoch') /\ (\A d \in cycles' : d.epoch # epoch')
  BY <1>1, <1>2, <1>3, <1>4 DEF CurrentTimers, CurrentCycles, SubInv, StreamTypeOK
<1> HIDE DEF rest
<1>8. TimerTypes' /\ EpochsInv' /\ Waiting'
  BY <1>2, <1>7, Scheduled
<1>9. WayInv' /\ StreamInv'
  BY <1>2, <1>8 DEF WayInv, StreamInv, NoStream
<1>10. WatchInv'
  BY <1>1, <1>2, <1>4 DEF SubInv, StreamTypeOK, WatchInv, TeardownIf, WatchdogUnless
<1> QED
  BY <1>5, <1>6, <1>8, <1>9, <1>10, TypesTogether DEF SubInv

LEMMA HalfOpenInv == SubInv /\ HalfOpen => SubInv'
<1> SUFFICES ASSUME SubInv, HalfOpen PROVE SubInv'
  OBVIOUS
<1> DEFINE st == [stream EXCEPT !.state = "dead"]
<1>1. /\ stream.state # "none" /\ stream' = st
      /\ UNCHANGED <<mode, log, destroyed, lastSeq, epoch, timers, reconnectTimer, cycles,
                     watchdog, pingsEverSeen, connState, accepted, late>>
  BY DEF HalfOpen
<1>2. ~destroyed /\ st \in Stream /\ st.state = "dead" /\ st.pos = lastSeq'
  BY <1>1, OnlyStream DEF Stream
<1> HIDE DEF st
<1>3. faults' \in 0..MaxFaults
  BY BoundsAssumption DEF BoundsAssumption, HalfOpen, Fault, SubInv, StreamTypeOK
<1>4. StreamTypeOK'
  BY <1>1, <1>2, <1>3 DEF SubInv, StreamTypeOK
<1>5. EpochsInv' /\ WayInv'
  BY <1>1, <1>2, StreamGoesOn
<1>6. WatchInv' /\ StreamInv'
  BY <1>1, <1>2 DEF SubInv, WatchInv, StreamInv
<1>7. RowsInv'
  BY <1>1, SameRows
<1> QED
  BY <1>4, <1>5, <1>6, <1>7 DEF SubInv

-----------------------------------------------------------------------------
(* Forced reconnects *)

LEMMA ForceReconnectInv ==
    ASSUME SubInv, NEW w \in BOOLEAN, ForceReconnect(w), faults' \in 0..MaxFaults
    PROVE  SubInv'
<1>1. PICK quits \in QuitsOnState("reconnecting") : /\ TeardownIf(quits)
                                                    /\ watchdog' = Rearmed(w /\ ~quits)
                                                    /\ Schedule(OtherTimers, epoch + 1)
  BY DEF ForceReconnect
<1>2. /\ ~destroyed /\ epoch' = epoch + 1 /\ stream' = NoStream /\ connState' = "reconnecting"
      /\ UNCHANGED <<mode, log, lastSeq, cycles, pingsEverSeen, accepted, late>>
  BY DEF ForceReconnect
<1>3. quits \in BOOLEAN /\ epoch \in Nat
  BY QuitsAreBoolean DEF SubInv, StreamTypeOK
<1>4. RowsInv'
  BY <1>2, SameRows
<1>5. OtherTypes'
  <2>1. destroyed' \in BOOLEAN /\ watchdog' \in BOOLEAN
    BY <1>1, <1>3 DEF TeardownIf, Rearmed, SubInv, StreamTypeOK
  <2>2. stream' \in Stream
    BY <1>2 DEF NoStream, Stream
  <2> QED
    BY <1>2, <1>3, <2>1, <2>2 DEF SubInv, StreamTypeOK, OtherTypes
<1>6. \A t \in timers : t.epoch # epoch + 1
  BY <1>3 DEF SubInv, EpochsInv, StreamTypeOK
<1>7. \A c \in cycles : c.epoch # epoch + 1
  BY <1>3 DEF SubInv, EpochsInv, StreamTypeOK, Cycle
<1> DEFINE rest == OtherTimers
<1>8. /\ rest \subseteq timers /\ Schedule(rest, epoch') /\ epoch' \in Nat /\ epoch <= epoch'
      /\ cycles' \subseteq cycles
      /\ (\A t \in rest : t.epoch # epoch') /\ (\A c \in cycles' : c.epoch # epoch')
  BY <1>1, <1>2, <1>3, <1>6, <1>7 DEF OtherTimers
<1> HIDE DEF rest
<1>9. TimerTypes' /\ EpochsInv' /\ Waiting'
  BY <1>2, <1>8, Scheduled
<1>10. WayInv' /\ StreamInv'
  BY <1>2, <1>9 DEF WayInv, StreamInv, NoStream
<1>11. WatchInv'
  BY <1>1, <1>2 DEF WatchInv, Rearmed
<1> QED
  BY <1>4, <1>5, <1>9, <1>10, <1>11, TypesTogether DEF SubInv

LEMMA ForcedInv == SubInv /\ (OnOnline \/ OnVisibility \/ WatchdogFires) => SubInv'
<1> SUFFICES ASSUME SubInv, OnOnline \/ OnVisibility \/ WatchdogFires PROVE SubInv'
  OBVIOUS
<1>1. watchdog \in BOOLEAN /\ faults \in 0..MaxFaults
  BY DEF SubInv, StreamTypeOK
<1>2. Fault => faults' \in 0..MaxFaults
  BY <1>1, BoundsAssumption DEF BoundsAssumption, Fault
<1>3. CASE OnOnline
  BY <1>1, <1>2, <1>3, ForceReconnectInv DEF OnOnline
<1>4. CASE OnVisibility
  BY <1>1, <1>2, <1>4, ForceReconnectInv DEF OnVisibility
<1>5. CASE WatchdogFires
  <2>1. faults' \in 0..MaxFaults /\ ForceReconnect(FALSE)
    BY <1>1, <1>2, <1>5 DEF WatchdogFires
  <2> QED
    BY <2>1, ForceReconnectInv
<1> QED
  BY <1>3, <1>4, <1>5

LEMMA StrayInv == SubInv /\ StrayWatchdogFires => SubInv'
<1> SUFFICES ASSUME SubInv, StrayWatchdogFires PROVE SubInv'
  OBVIOUS
<1>1. /\ destroyed /\ watchdog' = FALSE
      /\ UNCHANGED <<mode, log, faults, destroyed, lastSeq, epoch, stream, timers,
                     reconnectTimer, cycles, pingsEverSeen, connState, accepted, late>>
  BY DEF StrayWatchdogFires
<1>2. StreamTypeOK' /\ WatchInv' /\ StreamInv'
  BY <1>1 DEF SubInv, StreamTypeOK, WatchInv, StreamInv
<1>3. EpochsInv' /\ WayInv' /\ RowsInv'
  BY <1>1, SameWay, SameRows
<1> QED
  BY <1>2, <1>3 DEF SubInv

-----------------------------------------------------------------------------
(* The theorems *)

LEMMA NextInv == SubInv /\ [StreamNext]_streamVars => SubInv'
<1> SUFFICES ASSUME SubInv, [StreamNext]_streamVars PROVE SubInv'
  OBVIOUS
<1>1. CASE UNCHANGED streamVars
  <2>1. /\ UNCHANGED <<mode, log, faults, destroyed, lastSeq, epoch, stream, timers>>
        /\ UNCHANGED <<reconnectTimer, cycles, watchdog, pingsEverSeen, connState, accepted, late>>
    BY <1>1 DEF streamVars
  <2>2. StreamTypeOK' /\ WatchInv' /\ StreamInv'
    BY <2>1 DEF SubInv, StreamTypeOK, WatchInv, StreamInv
  <2>3. EpochsInv' /\ WayInv' /\ RowsInv'
    BY <2>1, SameWay, SameRows
  <2> QED
    BY <2>2, <2>3 DEF SubInv
<1>2. ASSUME NEW c \in cycles, CycleStep(c) PROVE SubInv'
  BY <1>2, HangInv, SupersededInv, ReplayPageInv, ReplayThrowsInv, ReplayFailsInv,
     ReplayRefusedInv, TicketGrantedInv, TicketFailsInv DEF CycleStep
<1>3. CASE StreamStep
  BY <1>3, PreludeInv, PreludeRefusedInv, MessageInv, PingInv, StreamEndsInv, HalfOpenInv
     DEF StreamStep
<1>4. CASE StreamNext
  BY <1>2, <1>3, <1>4, PublishInv, UnsubscribeInv, TimerFiresInv, ForcedInv, StrayInv DEF StreamNext
<1> QED
  BY <1>1, <1>4

LEMMA AlwaysInv == StreamSafety => []SubInv
BY InitInv, NextInv, PTL DEF StreamSafety

\* Every variable of a subscription keeps its type.  (StreamSafety is StreamSpec
\* without its fairness: what holds of the one holds of the other.)
THEOREM TypeCorrect == StreamSafety => []StreamTypeOK
<1>1. SubInv => StreamTypeOK
  BY DEF SubInv
<1> QED
  BY <1>1, AlwaysInv, PTL

\* Whatever fails, hangs, is superseded or unsubscribes from within a callback:
\* a subscription that was not torn down is never without a way forward and
\* never on two at once, and from the first ping on the watchdog stands over it.
THEOREM OneWayForward == StreamSafety => []ExactlyOneWayForward
BY AlwaysInv, InvImplies, PTL

\* However long the log, however often the stream breaks and whatever the size
\* of a replay page: the rows handed on are the server's, each once, in order.
THEOREM RowsInOrder == StreamSafety => []NoGapNoDuplicate
BY AlwaysInv, InvImplies, PTL
=============================================================================
