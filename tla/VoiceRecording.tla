---------------------------- MODULE VoiceRecording ----------------------------
(***************************************************************************)
(* Recording a voice message: the hold-to-record gesture of                *)
(* chat-widget/src/ui/voice-gesture.ts, the recorder of                    *)
(* voice-core/src/recorder.ts and the voice part of ui/composer.ts, which  *)
(* owns the recorder, the analyser tap and the recording chip, up to the   *)
(* preview that is sent or discarded.                                      *)
(*                                                                         *)
(* The permission prompt, MediaRecorder's events, the decoding of peaks    *)
(* and the upload each take any time.  What follows a settled promise in   *)
(* microtasks is part of the action that settles it: no pointer event can  *)
(* come between.  MaxRecordings bounds the calls of createVoiceRecorder(). *)
(***************************************************************************)
EXTENDS Naturals

CONSTANT MaxRecordings

ASSUME VoiceAssumption == MaxRecordings \in Nat \ {0}

VARIABLES
    press,          \* the gesture has a pressOrigin
    locked, willCancel, starting,
    pendingRelease, \* "none", "up", "cancel"
    byKey,          \* the start under way came from the keyboard
    isRecording,    \* #isRecording
    voiceRecorder,  \* #voiceRecorder: a recording or NoRecording
    recordings,     \* [Recordings -> stage of the recorder and of its stop()]
    tap,            \* #voiceTap: the recording it listens to, or NoRecording
    controls,       \* the chip shows Stop and Cancel instead of the slide hint
    preview,        \* "none", "blob" (peaks being decoded), "shown"
    previewSending, \* #sending, by #sendVoicePreview()
    composerGone    \* #destroyed

voiceVars == <<press, locked, willCancel, starting, pendingRelease, byKey, isRecording,
               voiceRecorder, recordings, tap, controls, preview, previewSending, composerGone>>
gestureVars == <<press, locked, willCancel, starting, pendingRelease, byKey>>
previewVars == <<preview, previewSending>>

Recordings == 1..MaxRecordings
NoRecording == 0
\* prompt: getUserMedia() is pending.  recording: MediaRecorder runs.  broken:
\* it failed.  ending, dropped: stopped or cancelled, onstop is to come.
\* reading: onstop has come, the blob is being read.  peaks: being decoded.
\* leaked: the microphone was granted, MediaRecorder was not to be had.
RecordingStages == {"unused", "prompt", "recording", "broken", "ending", "dropped",
                    "reading", "peaks", "leaked", "closed"}
MicIsOn(r) == recordings[r] \in {"recording", "ending", "dropped", "leaked"}

VoiceTypeOK ==
    /\ {press, locked, willCancel, starting, byKey, isRecording, controls,
        previewSending, composerGone} \subseteq BOOLEAN
    /\ pendingRelease \in {"none", "up", "cancel"}
    /\ {voiceRecorder, tap} \subseteq Recordings \cup {NoRecording}
    /\ recordings \in [Recordings -> RecordingStages]
    /\ preview \in {"none", "blob", "shown"}

VoiceInit ==
    /\ press = FALSE
    /\ locked = FALSE
    /\ willCancel = FALSE
    /\ starting = FALSE
    /\ pendingRelease = "none"
    /\ byKey = FALSE
    /\ isRecording = FALSE
    /\ voiceRecorder = NoRecording
    /\ recordings = [r \in Recordings |-> "unused"]
    /\ tap = NoRecording
    /\ controls = FALSE
    /\ preview = "none"
    /\ previewSending = FALSE
    /\ composerGone = FALSE

-----------------------------------------------------------------------------
(* The composer: #startRecording(), #stopRecording(), #cancelRecording() *)

Unused == {r \in Recordings : recordings[r] = "unused"}

\* The promise of #startRecording() settles in refusal at once.
StartIsRefused == isRecording \/ previewSending

\* #startRecording() up to getUserMedia(): the previous preview goes.
Prompt ==
    /\ Unused # {}
    /\ isRecording' = TRUE
    /\ recordings' = [recordings EXCEPT ![CHOOSE r \in Unused : \A q \in Unused : r <= q] = "prompt"]
    /\ preview' = "none"

\* #resetRecordingUI().
ResetChip ==
    /\ isRecording' = FALSE
    /\ voiceRecorder' = NoRecording
    /\ tap' = NoRecording
    /\ controls' = FALSE

\* #stopRecording() up to recorder.stop(): the tap goes first.  A broken
\* recorder's promise has been rejected already.  A chip that stays shows c.
Stop(c) ==
    IF ~isRecording \/ voiceRecorder = NoRecording
    THEN controls' = c /\ UNCHANGED <<isRecording, voiceRecorder, recordings, tap>>
    ELSE IF recordings[voiceRecorder] = "broken"
    THEN /\ recordings' = [recordings EXCEPT ![voiceRecorder] = "closed"]
         /\ ResetChip
    ELSE /\ recordings' = [recordings EXCEPT ![voiceRecorder] = "ending"]
         /\ voiceRecorder' = NoRecording
         /\ tap' = NoRecording
         /\ controls' = c
         /\ UNCHANGED isRecording

\* #cancelRecording(): the same order.
Cancel(c) ==
    IF ~isRecording \/ voiceRecorder = NoRecording
    THEN controls' = c /\ UNCHANGED <<isRecording, voiceRecorder, recordings, tap>>
    ELSE /\ recordings' = [recordings EXCEPT ![voiceRecorder] =
                               IF @ = "recording" THEN "dropped" ELSE "closed"]
         /\ ResetChip

-----------------------------------------------------------------------------
(* The gesture *)

\* The primary pointer goes down on the mic button.
PointerDown ==
    /\ ~composerGone
    /\ ~isRecording /\ ~starting
    /\ willCancel' = FALSE
    /\ locked' = FALSE
    /\ controls' = (controls /\ ~locked)
    /\ pendingRelease' = "none"
    /\ IF StartIsRefused
       THEN /\ press' = FALSE
            /\ UNCHANGED <<starting, byKey, isRecording, recordings, preview>>
       ELSE /\ Prompt
            /\ press' = TRUE
            /\ starting' = TRUE
            /\ byKey' = FALSE
    /\ UNCHANGED <<voiceRecorder, tap, previewSending, composerGone>>

\* Enter or Space: straight to locked mode, once the microphone is granted.
KeyDown ==
    /\ ~composerGone
    /\ ~isRecording /\ ~starting
    /\ ~StartIsRefused
    /\ willCancel' = FALSE
    /\ Prompt
    /\ starting' = TRUE
    /\ byKey' = TRUE
    /\ UNCHANGED <<press, locked, pendingRelease, voiceRecorder, tap, controls,
                   previewSending, composerGone>>

\* Up past the threshold and back, or left until it latches.
PointerMove ==
    /\ ~composerGone
    /\ press /\ ~locked
    /\ \/ willCancel' = ~willCancel /\ UNCHANGED <<press, locked, controls>>
       \/ willCancel' = FALSE /\ press' = FALSE /\ locked' = TRUE /\ controls' = TRUE
    /\ UNCHANGED <<starting, pendingRelease, byKey, isRecording, voiceRecorder, recordings,
                   tap, previewVars, composerGone>>

\* finishUnlockedRelease(): a quick tap latches, a hold stops or cancels.
Release(kind, quick) ==
    LET cancel == kind = "cancel" \/ willCancel
    IN /\ press' = FALSE
       /\ willCancel' = FALSE
       /\ IF isRecording /\ ~cancel /\ quick /\ press
          THEN /\ locked' = TRUE
               /\ controls' = TRUE
               /\ UNCHANGED <<isRecording, voiceRecorder, recordings, tap>>
          ELSE /\ IF cancel THEN Cancel(controls) ELSE Stop(controls)
               /\ UNCHANGED locked

\* pointerup or pointercancel; while the microphone is being acquired it is
\* kept for later.
PointerUp ==
    /\ ~composerGone
    /\ ~locked
    /\ \E kind \in {"up", "cancel"}, quick \in BOOLEAN :
        IF starting
        THEN /\ pendingRelease' = kind
             /\ UNCHANGED <<press, locked, willCancel, isRecording, voiceRecorder, recordings,
                            tap, controls>>
        ELSE Release(kind, quick) /\ UNCHANGED pendingRelease
    /\ UNCHANGED <<starting, byKey, previewVars, composerGone>>

\* The chip's buttons: through the gesture when it is locked.
ChipButton ==
    /\ ~composerGone
    /\ controls /\ isRecording
    /\ locked' = FALSE
    /\ Stop(~locked) \/ Cancel(~locked)
    /\ UNCHANGED <<press, willCancel, starting, pendingRelease, byKey, previewVars, composerGone>>

-----------------------------------------------------------------------------
(* What the browser answers *)

\* The gesture hears that nothing was started.
StartFailed ==
    IF byKey
    THEN UNCHANGED <<press, locked, willCancel, pendingRelease, controls>>
    ELSE /\ press' = FALSE /\ locked' = FALSE /\ willCancel' = FALSE
         /\ pendingRelease' = "none"
         /\ controls' = (controls /\ ~locked)

\* getUserMedia() resolves: the recorder starts and the composer takes it over;
\* then the gesture replays the release that came meanwhile.
Granted(r) ==
    /\ recordings[r] = "prompt"
    /\ starting' = FALSE
    /\ IF composerGone
       THEN /\ recordings' = [recordings EXCEPT ![r] = "dropped"]
            /\ isRecording' = FALSE
            /\ StartFailed
            /\ UNCHANGED <<voiceRecorder, tap>>
       ELSE LET dropped == ~byKey /\ (pendingRelease = "cancel" \/ (pendingRelease = "up" /\ willCancel))
                latched == byKey \/ (pendingRelease = "up" /\ ~willCancel)
            IN /\ recordings' = [recordings EXCEPT ![r] = IF dropped THEN "dropped" ELSE "recording"]
               /\ isRecording' = ~dropped
               /\ voiceRecorder' = IF dropped THEN NoRecording ELSE r
               /\ tap' \in IF dropped THEN {NoRecording} ELSE {r, NoRecording}
               /\ locked' = (locked \/ latched)
               /\ controls' = (latched /\ ~locked)
               /\ willCancel' = (willCancel /\ ~dropped)
               /\ press' = (press /\ (byKey \/ pendingRelease = "none"))
               /\ pendingRelease' = IF byKey THEN pendingRelease ELSE "none"
    /\ UNCHANGED <<byKey, previewVars, composerGone>>

\* The microphone is refused.
Denied(r) ==
    /\ recordings[r] = "prompt"
    /\ recordings' = [recordings EXCEPT ![r] = "closed"]
    /\ isRecording' = FALSE
    /\ starting' = FALSE
    /\ StartFailed
    /\ UNCHANGED <<byKey, voiceRecorder, tap, previewVars, composerGone>>

\* The microphone is granted, but MediaRecorder is missing, refuses the mime type
\* or will not start: createVoiceRecorder() rejects with the tracks running, and
\* #startRecording() has no recorder that it could stop.
RecorderThrows(r) ==
    /\ recordings[r] = "prompt"
    /\ recordings' = [recordings EXCEPT ![r] = "leaked"]
    /\ isRecording' = FALSE
    /\ starting' = FALSE
    /\ StartFailed
    /\ UNCHANGED <<byKey, voiceRecorder, tap, previewVars, composerGone>>

\* Mutant of AutoStop: nobody stops in onAutoStop, MediaRecorder is stopped
\* under the tap.
AutoStopAlone(r) ==
    /\ recordings[r] = "recording"
    /\ recordings' = [recordings EXCEPT ![r] = "ending"]
    /\ UNCHANGED <<isRecording, voiceRecorder, tap, controls, gestureVars, previewVars, composerGone>>

\* MAX_VOICE_MS is reached: onAutoStop stops in the composer's order.
AutoStop(r) ==
    /\ recordings[r] = "recording"
    /\ IF voiceRecorder = r
       THEN Stop(controls)
       ELSE /\ recordings' = [recordings EXCEPT ![r] = "ending"]
            /\ UNCHANGED <<isRecording, voiceRecorder, tap, controls>>
    /\ UNCHANGED <<gestureVars, previewVars, composerGone>>

\* MediaRecorder fails: its tracks are stopped, the composer is not told.
Breaks(r) ==
    /\ recordings[r] = "recording"
    /\ recordings' = [recordings EXCEPT ![r] = "broken"]
    /\ UNCHANGED <<isRecording, voiceRecorder, tap, controls, gestureVars, previewVars, composerGone>>

\* onstop: the tracks are stopped; a cancelled recording ends there.
StopFires(r) ==
    /\ recordings[r] \in {"ending", "dropped"}
    /\ recordings' = [recordings EXCEPT ![r] = IF @ = "dropped" THEN "closed" ELSE "reading"]
    /\ UNCHANGED <<isRecording, voiceRecorder, tap, controls, gestureVars, previewVars, composerGone>>

\* recorder.stop() settles.  Too short, too long or unreadable: nothing is kept.
ResultIsBad(r) ==
    /\ recordings[r] = "reading"
    /\ recordings' = [recordings EXCEPT ![r] = "closed"]
    /\ ResetChip
    /\ UNCHANGED <<gestureVars, previewVars, composerGone>>

ResultIsGood(r) ==
    /\ recordings[r] = "reading"
    /\ recordings' = [recordings EXCEPT ![r] = "peaks"]
    /\ preview' = "blob"
    /\ UNCHANGED <<isRecording, voiceRecorder, tap, controls, gestureVars, previewSending, composerGone>>

PeaksAreDecoded(r) ==
    /\ recordings[r] = "peaks"
    /\ recordings' = [recordings EXCEPT ![r] = "closed"]
    /\ preview' = "shown"
    /\ ResetChip
    /\ UNCHANGED <<gestureVars, previewSending, composerGone>>

-----------------------------------------------------------------------------
(* The preview, and the end *)

SendPreview ==
    /\ ~composerGone
    /\ preview = "shown" /\ ~previewSending
    /\ previewSending' = TRUE
    /\ UNCHANGED <<gestureVars, isRecording, voiceRecorder, recordings, tap, controls,
                   preview, composerGone>>

\* uploadAttachment() and sendAttachmentMessage() settle.
PreviewSettles ==
    /\ previewSending
    /\ previewSending' = FALSE
    /\ preview' \in IF composerGone THEN {preview} ELSE {preview, "none"}
    /\ UNCHANGED <<gestureVars, isRecording, voiceRecorder, recordings, tap, controls, composerGone>>

DiscardPreview ==
    /\ ~composerGone
    /\ preview = "shown" /\ ~previewSending
    /\ preview' = "none"
    /\ UNCHANGED <<gestureVars, isRecording, voiceRecorder, recordings, tap, controls,
                   previewSending, composerGone>>

\* destroy(): listeners, tap, recorder, preview, in that order.
DestroyComposer ==
    /\ ~composerGone
    /\ composerGone' = TRUE
    /\ tap' = NoRecording
    /\ voiceRecorder' = NoRecording
    /\ recordings' = IF voiceRecorder = NoRecording THEN recordings
                     ELSE [recordings EXCEPT ![voiceRecorder] =
                               IF @ = "recording" THEN "dropped" ELSE "closed"]
    /\ preview' = "none"
    /\ UNCHANGED <<gestureVars, isRecording, controls, previewSending>>

BrowserStep ==
    \E r \in Recordings :
        \/ Granted(r)
        \/ Denied(r)
        \/ RecorderThrows(r)
        \/ AutoStop(r)
        \/ Breaks(r)
        \/ StopFires(r)
        \/ ResultIsBad(r)
        \/ ResultIsGood(r)
        \/ PeaksAreDecoded(r)

VoiceNext ==
    \/ PointerDown
    \/ KeyDown
    \/ PointerMove
    \/ PointerUp
    \/ ChipButton
    \/ BrowserStep
    \/ SendPreview
    \/ PreviewSettles
    \/ DiscardPreview
    \/ DestroyComposer

\* MediaRecorder's stop event comes, a started recording hits its cap, and a
\* blob is read and decoded in the end.
VoiceFairness ==
    \A r \in Recordings :
        WF_voiceVars(StopFires(r) \/ AutoStop(r) \/ ResultIsBad(r) \/ PeaksAreDecoded(r))

-----------------------------------------------------------------------------
(* Properties *)

\* A recording in progress is one the composer still holds: a second start during
\* the prompt, a release before the grant or a destroy() during it never leaves a
\* recording nobody can end.
NoOrphanedMicrophone ==
    \A r \in Recordings : recordings[r] = "recording" => voiceRecorder = r /\ ~composerGone

\* The analyser's AudioContext is closed before the tracks it listens to are
\* stopped, on every path that stops them but MediaRecorder's own failure.
TapClosesFirst ==
    tap # NoRecording => recordings[tap] \in {"recording", "broken"}

\* The microphone does not stay on: what was started is ended by the user, by
\* the cap or by destroy(), in the composer's order, and is never without an
\* owner meanwhile.  One exception: where MediaRecorder throws after the grant
\* nothing stops the tracks (createVoiceRecorder, and the catch of
\* #startRecording).  (That the user can end it before the cap does is not so:
\* #startRecording() resets the chip's controls after the gesture has latched.)
MicrophoneIsEnded ==
    /\ [](NoOrphanedMicrophone /\ TapClosesFirst)
    /\ \A r \in Recordings : MicIsOn(r) ~> ~MicIsOn(r) \/ recordings[r] = "leaked"
=============================================================================
