----------------------------- MODULE MessagePins -----------------------------
(***************************************************************************)
(* Pinned messages of a room: ui/pinned-banner.ts (the carousel above the  *)
(* list) and the pin handlers of ui/message-list.ts: the first listPins(), *)
(* the user's own toggles, which are optimistic, and the pin and unpin     *)
(* events of the stream.                                                   *)
(*                                                                         *)
(* The server pins newest first, ignores what is so already, and emits one *)
(* event per change, in order; a gap of the stream loses events.  Whether  *)
(* the user has closed the banner is left out.                             *)
(***************************************************************************)
EXTENDS Naturals, Sequences, SequencesExt, Sublists

CONSTANTS
    Pinnable,       \* messages of the room, all of them rendered
    MaxPinEvents    \* bound on events on their way

ASSUME PinsAssumption == MaxPinEvents \in Nat \ {0}

VARIABLES
    pins,           \* the server's, newest first
    pinEvents,      \* emitted and not yet delivered
    listing,        \* listPins(): "asked", "taken", "done", and what was taken
    banner,         \* #pins of the banner
    pinIndex,       \* #currentIndex
    pressed,        \* messages whose pin button is pressed
    toggles,        \* [Pinnable -> the toggle in flight (#inflight)]
    bannerGone,     \* the list is destroyed
    unsure          \* history: messages whose events were lost or overtaken

pinVars == <<pins, pinEvents, listing, banner, pinIndex, pressed, toggles,
             bannerGone, unsure>>

Idle == [stage |-> "idle", was |-> FALSE, touched |-> FALSE]
\* A toggle is touched when something else has set the banner since the click.
Toggles == [stage : {"idle", "asked", "applied"}, was : BOOLEAN, touched : BOOLEAN]

PinsTypeOK ==
    /\ pins \in Seq(Pinnable) /\ IsInjective(pins)
    /\ pinEvents \in Seq([op : {"pin", "unpin"}, msg : Pinnable])
    /\ listing \in [stage : {"asked", "taken", "done"}, taken : Seq(Pinnable)]
    /\ banner \in Seq(Pinnable)
    /\ pinIndex \in Nat
    /\ pressed \subseteq Pinnable
    /\ toggles \in [Pinnable -> Toggles]
    /\ bannerGone \in BOOLEAN
    /\ unsure \subseteq Pinnable

PinsInit ==
    /\ pins \in {<<>>} \cup {<<m>> : m \in Pinnable}
    /\ pinEvents = <<>>
    /\ listing = [stage |-> "asked", taken |-> <<>>]
    /\ banner = <<>>
    /\ pinIndex = 0
    /\ pressed = {}
    /\ toggles = [m \in Pinnable |-> Idle]
    /\ bannerGone = FALSE
    /\ unsure = {}

Without(s, m) == Kept(s, {i \in DOMAIN s : s[i] # m})
Pinned(m) == m \in ToSet(banner)

\* Mutant of AddPin: a pin that is there already is put in front again.
AddPinAgain(m) ==
    /\ banner' = <<m>> \o banner
    /\ pressed' = pressed \cup {m}
    /\ UNCHANGED pinIndex

\* addPin() and #updateBubblePinState(); the index stays where it is.
AddPin(m) ==
    /\ banner' = IF Pinned(m) THEN banner ELSE <<m>> \o banner
    /\ pressed' = pressed \cup {m}
    /\ UNCHANGED pinIndex

\* removePin() and #updateBubblePinState().
RemovePin(m) ==
    /\ banner' = Without(banner, m)
    /\ pinIndex' = IF Pinned(m) /\ pinIndex >= Len(banner')
                   THEN IF banner' = <<>> THEN 0 ELSE Len(banner') - 1
                   ELSE pinIndex
    /\ pressed' = pressed \ {m}

-----------------------------------------------------------------------------
(* The server *)

ServerPins(m, op) ==
    IF (op = "pin") = (m \in ToSet(pins))
    THEN UNCHANGED <<pins, pinEvents>>
    ELSE /\ pins' = IF op = "pin" THEN <<m>> \o pins ELSE Without(pins, m)
         /\ pinEvents' = Append(pinEvents, [op |-> op, msg |-> m])
         /\ Len(pinEvents') <= MaxPinEvents

OtherPins(m) ==
    /\ \E op \in {"pin", "unpin"} : ServerPins(m, op)
    /\ UNCHANGED <<listing, banner, pinIndex, pressed, toggles, bannerGone, unsure>>

\* A break of the stream: rows are replayed, events are not.
PinEventIsLost ==
    /\ pinEvents # <<>>
    /\ unsure' = unsure \cup {Head(pinEvents).msg}
    /\ pinEvents' = Tail(pinEvents)
    /\ UNCHANGED <<pins, listing, banner, pinIndex, pressed, toggles, bannerGone>>

-----------------------------------------------------------------------------
(* listPins() *)

PinsAreTaken ==
    /\ listing.stage = "asked"
    /\ listing' = [stage |-> "taken", taken |-> pins]
    /\ UNCHANGED <<pins, pinEvents, banner, pinIndex, pressed, toggles,
                   bannerGone, unsure>>

\* setPins() takes the place of what events have brought meanwhile; only the
\* buttons of the messages in the answer are refreshed.
PinsArrive ==
    /\ listing.stage = "taken"
    /\ listing' = [stage |-> "done", taken |-> <<>>]
    /\ IF bannerGone
       THEN UNCHANGED <<banner, pinIndex, pressed>>
       ELSE /\ banner' = listing.taken
            /\ pinIndex' = 0
            /\ pressed' = pressed \cup ToSet(listing.taken)
    /\ toggles' = [m \in Pinnable |->
                        [toggles[m] EXCEPT !.touched = toggles[m].stage # "idle"]]
    /\ UNCHANGED <<pins, pinEvents, bannerGone, unsure>>

PinsFail ==
    /\ listing.stage # "done"
    /\ listing' = [stage |-> "done", taken |-> <<>>]
    /\ unsure' = Pinnable       \* the banner keeps what it has
    /\ UNCHANGED <<pins, pinEvents, banner, pinIndex, pressed, toggles, bannerGone>>

-----------------------------------------------------------------------------
(* The stream and the user *)

\* #handleMutation() on a pin or an unpin.
PinEventArrives ==
    /\ ~bannerGone
    /\ pinEvents # <<>>
    /\ LET e == Head(pinEvents)
       IN /\ IF e.op = "pin" THEN AddPin(e.msg) ELSE RemovePin(e.msg)
          /\ toggles' = [toggles EXCEPT ![e.msg].touched = toggles[e.msg].stage # "idle"]
          /\ unsure' = IF listing.stage = "taken" THEN unsure \cup {e.msg} ELSE unsure
    /\ pinEvents' = Tail(pinEvents)
    /\ UNCHANGED <<pins, listing, bannerGone>>

\* #togglePin(): one at a time for a message, shown before it is asked for.
TogglePin(m) ==
    /\ ~bannerGone
    /\ toggles[m].stage = "idle"
    /\ IF Pinned(m) THEN RemovePin(m) ELSE AddPin(m)
    /\ toggles' = [toggles EXCEPT ![m] = [stage |-> "asked", was |-> Pinned(m), touched |-> FALSE]]
    /\ unsure' = IF listing.stage = "taken" THEN unsure \cup {m} ELSE unsure
    /\ UNCHANGED <<pins, pinEvents, listing, bannerGone>>

ToggleIsApplied(m) ==
    /\ toggles[m].stage = "asked"
    /\ ServerPins(m, IF toggles[m].was THEN "unpin" ELSE "pin")
    /\ toggles' = [toggles EXCEPT ![m].stage = "applied"]
    /\ UNCHANGED <<listing, banner, pinIndex, pressed, bannerGone, unsure>>

ToggleSucceeds(m) ==
    /\ toggles[m].stage = "applied"
    /\ toggles' = [toggles EXCEPT ![m] = Idle]
    /\ UNCHANGED <<pins, pinEvents, listing, banner, pinIndex, pressed,
                   bannerGone, unsure>>

\* The request was refused, or its answer lost: back to what was shown before,
\* whatever an event has said since.
ToggleFails(m) ==
    /\ toggles[m].stage # "idle"
    /\ toggles' = [toggles EXCEPT ![m] = Idle]
    /\ IF bannerGone
       THEN UNCHANGED <<banner, pinIndex, pressed>>
       ELSE IF toggles[m].was THEN AddPin(m) ELSE RemovePin(m)
    /\ unsure' = IF toggles[m].touched \/ listing.stage = "taken" THEN unsure \cup {m} ELSE unsure
    /\ UNCHANGED <<pins, pinEvents, listing, bannerGone>>

\* #cycle(): back and forth through the carousel.
Cycle ==
    /\ ~bannerGone
    /\ Len(banner) > 1
    /\ \E delta \in {1, Len(banner) - 1} : pinIndex' = (pinIndex + delta) % Len(banner)
    /\ UNCHANGED <<pins, pinEvents, listing, banner, pressed, toggles,
                   bannerGone, unsure>>

DestroyPins ==
    /\ ~bannerGone
    /\ bannerGone' = TRUE
    /\ UNCHANGED <<pins, pinEvents, listing, banner, pinIndex, pressed, toggles, unsure>>

PinsNext ==
    \/ PinEventIsLost
    \/ PinsAreTaken
    \/ PinsArrive
    \/ PinsFail
    \/ PinEventArrives
    \/ Cycle
    \/ DestroyPins
    \/ \E m \in Pinnable :
        \/ OtherPins(m)
        \/ TogglePin(m)
        \/ ToggleIsApplied(m)
        \/ ToggleSucceeds(m)
        \/ ToggleFails(m)

-----------------------------------------------------------------------------
(* Properties *)

\* Once the first list is in, with no event and no toggle on its way, the banner
\* and the pin buttons show exactly what the server has pinned, each once, and
\* the carousel stands at an entry: own
\* clicks, other users' clicks and events cross each other in any order.  Not
\* repaired, and so excused, are events lost in a gap, events and toggles that
\* the answer of listPins() had not seen, a failed listPins(), and a rollback
\* over an event or over that answer.
PinsAgree ==
    /\ IsInjective(banner)
    /\ banner # <<>> => pinIndex < Len(banner)
    /\ (~bannerGone /\ listing.stage = "done" /\ pinEvents = <<>>) =>
        \A m \in Pinnable \ unsure :
            toggles[m].stage = "idle" =>
                /\ Pinned(m) <=> m \in ToSet(pins)
                /\ m \in pressed <=> m \in ToSet(pins)
=============================================================================
