---------------------------- MODULE VoicePlayback ----------------------------
(***************************************************************************)
(* Playing a voice message: the player of voice-core/src/player.ts inside  *)
(* the bubble of chat-widget/src/ui/voice-bubble.ts, which hands it a blob *)
(* in memory, an authenticated loader or a plain URL.                      *)
(*                                                                         *)
(* The audio element is the browser's: play() settles any time later, a    *)
(* pause() before that makes it reject.  MaxPlays bounds the calls of      *)
(* play() under way.                                                       *)
(***************************************************************************)
EXTENDS Naturals

CONSTANT MaxPlays

ASSUME PlaybackAssumption == MaxPlays \in Nat \ {0}

VARIABLES
    voiceSource,    \* "url", "blob", "load"
    loading,        \* loadPromise: "pending", "ok", "failed"
    aborted,        \* the widget's signal
    source,         \* audio.src: "none", "plain", "object"
    objectUrl,      \* the object URL: "none", "live", "revoked"
    playerPhase,
    playsWaiting,   \* play() calls that await loadPromise
    playsPending,   \* audio.play() calls that have not settled
    sounding,       \* the element is not paused
    playerGone

playbackVars == <<voiceSource, loading, aborted, source, objectUrl, playerPhase, playsWaiting,
                  playsPending, sounding, playerGone>>

PlaybackTypeOK ==
    /\ voiceSource \in {"url", "blob", "load"}
    /\ loading \in {"pending", "ok", "failed"}
    /\ {aborted, sounding, playerGone} \subseteq BOOLEAN
    /\ source \in {"none", "plain", "object"}
    /\ objectUrl \in {"none", "live", "revoked"}
    /\ playerPhase \in {"idle", "playing", "paused", "ended", "error"}
    /\ playsWaiting \in 0..MaxPlays /\ playsPending \in Nat

\* createVoiceBubble() and createVoicePlayer().
PlaybackInit ==
    /\ voiceSource \in {"url", "blob", "load"}
    /\ loading = IF voiceSource = "load" THEN "pending" ELSE "ok"
    /\ aborted = FALSE
    /\ source = CASE voiceSource = "url" -> "plain" [] voiceSource = "blob" -> "object"
                  [] OTHER -> "none"
    /\ objectUrl = IF voiceSource = "blob" THEN "live" ELSE "none"
    /\ playerPhase = "idle"
    /\ playsWaiting = 0
    /\ playsPending = 0
    /\ sounding = FALSE
    /\ playerGone = FALSE

Show(phase) == playerPhase' = IF playerGone THEN playerPhase ELSE phase

\* Mutant of LoadArrives: does not ask whether the player is still there.
LoadArrivesUnasked ==
    /\ loading = "pending"
    /\ loading' = "ok"
    /\ objectUrl' = IF aborted THEN "revoked" ELSE "live"
    /\ source' = "object"
    /\ UNCHANGED <<voiceSource, aborted, playerPhase, playsWaiting, playsPending, sounding, playerGone>>

\* The bubble's load() and the player's continuation: an aborted load hands on
\* a URL it has revoked, a player that is gone revokes what it is handed.
LoadArrives ==
    /\ loading = "pending"
    /\ loading' = "ok"
    /\ objectUrl' = IF aborted \/ playerGone THEN "revoked" ELSE "live"
    /\ source' = IF playerGone THEN source ELSE "object"
    /\ UNCHANGED <<voiceSource, aborted, playerPhase, playsWaiting, playsPending, sounding, playerGone>>

LoadFails ==
    /\ loading = "pending"
    /\ loading' = "failed"
    /\ Show("error")
    /\ UNCHANGED <<voiceSource, aborted, source, objectUrl, playsWaiting, playsPending, sounding,
                   playerGone>>

\* The play button (disabled in error): toggle().  A pause rejects what is
\* pending: that, too, is shown as an error.
Toggle ==
    /\ ~playerGone
    /\ playerPhase # "error"
    /\ IF playerPhase = "playing"
       THEN /\ sounding' = FALSE
            /\ playerPhase' = IF playsPending > 0 THEN "error"
                              ELSE IF sounding THEN "paused" ELSE playerPhase
            /\ playsPending' = 0
            /\ UNCHANGED playsWaiting
       ELSE /\ playsWaiting < MaxPlays
            /\ playsWaiting' = playsWaiting + 1
            /\ UNCHANGED <<sounding, playerPhase, playsPending>>
    /\ UNCHANGED <<voiceSource, loading, aborted, source, objectUrl, playerGone>>

\* play() after loadPromise.
PlayGoesOn ==
    /\ playsWaiting > 0
    /\ loading # "pending"
    /\ playsWaiting' = playsWaiting - 1
    /\ IF playerGone \/ loading = "failed"
       THEN UNCHANGED <<playerPhase, playsPending, sounding>>
       ELSE /\ playsPending' = playsPending + 1
            /\ sounding' = TRUE
            /\ playerPhase' = "playing"
    /\ UNCHANGED <<voiceSource, loading, aborted, source, objectUrl, playerGone>>

\* audio.play() resolves, or rejects: no permission, no data, a dead URL.
PlaysSettle ==
    /\ playsPending > 0
    /\ playsPending' = 0
    /\ \/ UNCHANGED <<sounding, playerPhase>>
       \/ sounding' = FALSE /\ Show("error")
    /\ UNCHANGED <<voiceSource, loading, aborted, source, objectUrl, playsWaiting, playerGone>>

\* The element's own `ended` and `error` events.
AudioEnds ==
    /\ sounding /\ playsPending = 0
    /\ sounding' = FALSE
    /\ Show("ended") \/ Show("error")
    /\ UNCHANGED <<voiceSource, loading, aborted, source, objectUrl, playsWaiting, playsPending,
                   playerGone>>

AbortBubble ==
    /\ ~aborted
    /\ aborted' = TRUE
    /\ UNCHANGED <<voiceSource, loading, source, objectUrl, playerPhase, playsWaiting,
                   playsPending, sounding, playerGone>>

\* destroy(): silence, the object URL of a blob or of a loader revoked.
DestroyPlayer ==
    /\ ~playerGone
    /\ playerGone' = TRUE
    /\ sounding' = FALSE
    /\ playsPending' = 0
    /\ objectUrl' = IF source = "object" THEN "revoked" ELSE objectUrl
    /\ source' = "none"
    /\ UNCHANGED <<voiceSource, loading, aborted, playerPhase, playsWaiting>>

PlaybackNext ==
    \/ LoadArrives
    \/ LoadFails
    \/ Toggle
    \/ PlayGoesOn
    \/ PlaysSettle
    \/ AudioEnds
    \/ AbortBubble
    \/ DestroyPlayer

-----------------------------------------------------------------------------
(* Properties *)

\* A destroyed player is silent and has no object URL, whatever loads and plays
\* were under way; a player never sounds while its button offers to play.
PlayerLeavesNothing ==
    /\ playerGone => ~sounding /\ objectUrl # "live"
    /\ ~playerGone => (sounding => playerPhase = "playing")
=============================================================================
