---------------------------- MODULE MCWidgetParts ----------------------------
(***************************************************************************)
(* The parts of the widget, for TLC, each by itself as in MCSdkParts: they *)
(* share the element that makes and destroys them, and no state.           *)
(***************************************************************************)
EXTENDS MessageRows, MessagePins, WidgetLifecycle, Composer, VoiceRecording, VoicePlayback,
        Ephemera, Reconnector

VARIABLE part

vars == <<part, rowsVars, pinVars, widgetVars, composerVars, voiceVars, playbackVars,
          ephemeraVars, reconnectorVars>>

Overlays == {"typing", "presence", "receipts", "thread"}

Init ==
    /\ part \in Overlays \cup {"rows", "pins", "element", "composer", "recording", "playback",
                               "reconnector"}
    /\ RowsInit        /\ (part # "rows" => log = <<>>)
    /\ PinsInit        /\ (part # "pins" => pins = <<>>)
    /\ WidgetInit      /\ (part # "element" =>
                            /\ setup = [mode |-> "inline", anonRead |-> FALSE, writeMint |-> FALSE]
                            /\ attrs = [room |-> Nobody, jwt |-> Nobody])
    /\ ComposerInit    /\ (part # "composer" => optimistic)
    /\ VoiceInit
    /\ PlaybackInit    /\ (part # "playback" => voiceSource = "url")
    /\ EphemeraInit
    /\ ReconnectorInit

Next ==
    \/ /\ part = "rows" /\ RowsNext
       /\ UNCHANGED <<part, pinVars, widgetVars, composerVars, voiceVars, playbackVars,
                      ephemeraVars, reconnectorVars>>
    \/ /\ part = "pins" /\ PinsNext
       /\ UNCHANGED <<part, rowsVars, widgetVars, composerVars, voiceVars, playbackVars,
                      ephemeraVars, reconnectorVars>>
    \/ /\ part = "element" /\ WidgetNext
       /\ UNCHANGED <<part, rowsVars, pinVars, composerVars, voiceVars, playbackVars,
                      ephemeraVars, reconnectorVars>>
    \/ /\ part = "composer" /\ ComposerNext
       /\ UNCHANGED <<part, rowsVars, pinVars, widgetVars, voiceVars, playbackVars,
                      ephemeraVars, reconnectorVars>>
    \/ /\ part = "recording" /\ VoiceNext
       /\ UNCHANGED <<part, rowsVars, pinVars, widgetVars, composerVars, playbackVars,
                      ephemeraVars, reconnectorVars>>
    \/ /\ part = "playback" /\ PlaybackNext
       /\ UNCHANGED <<part, rowsVars, pinVars, widgetVars, composerVars, voiceVars,
                      ephemeraVars, reconnectorVars>>
    \/ /\ \/ part = "typing" /\ TypingNext
          \/ part = "presence" /\ PresenceNext
          \/ part = "receipts" /\ ReceiptsNext
          \/ part = "thread" /\ ThreadNext
       /\ UNCHANGED <<part, rowsVars, pinVars, widgetVars, composerVars, voiceVars,
                      playbackVars, reconnectorVars>>
    \/ /\ part = "reconnector" /\ ReconnectorNext
       /\ UNCHANGED <<part, rowsVars, pinVars, widgetVars, composerVars, voiceVars,
                      playbackVars, ephemeraVars>>

Fairness == ComposerFairness /\ VoiceFairness /\ ReconnectorFairness

Spec == Init /\ [][Next]_vars /\ Fairness
=============================================================================
