------------------------------ MODULE Composer ------------------------------
(***************************************************************************)
(* packages/chat-widget/src/ui/composer.ts and ui/attachment-picker.ts,    *)
(* with the client element.ts gives the composer: the draft, the reply     *)
(* target and product card that ride the next message, the tray of files   *)
(* that upload as soon as they are picked, and the three ways a message    *)
(* leaves - detached from the tray, optimistically, or blocking the        *)
(* composer when the client has no optimistic methods.                     *)
(*                                                                         *)
(* The voice preview, which replaces send() while it is shown, is          *)
(* VoiceRecording's subject; what becomes of a message in the SDK is       *)
(* Outbox's.                                                               *)
(***************************************************************************)
EXTENDS Naturals, Sequences, FiniteSets, Sublists

CONSTANTS
    Texts,              \* what a user types
    OverLong,           \* those of them longer than MAX_BODY_CHARS
    NoText,             \* the empty text
    Riders,             \* "card", "reply": what may go with a message
    Files,              \* the files a user picks, each once
    MAX_ATTACHMENTS,
    MaxPosts            \* bound on messages sent

ASSUME ComposerAssumption ==
    /\ NoText \notin Texts /\ OverLong \subseteq Texts
    /\ MAX_ATTACHMENTS \in Nat \ {0} /\ MaxPosts \in Nat

VARIABLES
    optimistic,     \* the client has the two optimistic methods
    draft,          \* the textarea
    lastText,       \* #lastText
    riders,         \* those of Riders that go with the next message
    errorChip,      \* NoChip, or the text its Retry sends, LastText for #lastText
    sending,        \* #sending: the composer is locked
    tray,           \* the picker's #items
    upload,         \* [Files -> the state of a StagedAttachment]
    posts,          \* the messages, in the order #send() made them
    retryable,      \* posts in the element's #pendingRetries
    cancelledFiles, \* history: files the user took back
    discarded       \* the composer and its picker are destroyed

composerVars == <<optimistic, draft, lastText, riders, errorChip, sending, tray, upload,
                  posts, retryable, cancelledFiles, discarded>>

NoChip == "no chip"
LastText == "last text"

\* running: #upload() is under way; settled: donePromise has resolved; hasId:
\* attachmentId is set.
Unpicked == [status |-> "unpicked", running |-> FALSE, halted |-> FALSE,
             settled |-> FALSE, hasId |-> FALSE]

ComposerTypeOK ==
    /\ optimistic \in BOOLEAN
    /\ draft \in Texts \cup {NoText}
    /\ lastText \in Texts \cup {NoText}
    /\ riders \subseteq Riders
    /\ errorChip \in Texts \cup {NoText, NoChip, LastText}
    /\ sending \in BOOLEAN
    /\ tray \in Seq(Files)
    /\ upload \in [Files -> [status : {"unpicked", "uploading", "done", "error"},
                             running : BOOLEAN, halted : BOOLEAN,
                             settled : BOOLEAN, hasId : BOOLEAN]]
    /\ \A i \in DOMAIN posts :
        /\ posts[i].text \in Texts \cup {NoText}
        /\ posts[i].stage \in {"detached", "awaiting", "ready", "rejected", "posting",
                               "sent", "failed", "void"}
        /\ posts[i].identified \subseteq Files
    /\ retryable \subseteq DOMAIN posts
    /\ discarded \in BOOLEAN

ComposerInit ==
    /\ optimistic \in BOOLEAN
    /\ draft = NoText
    /\ lastText = NoText
    /\ riders = {}
    /\ errorChip = NoChip
    /\ sending = FALSE
    /\ tray = <<>>
    /\ upload = [f \in Files |-> Unpicked]
    /\ posts = <<>>
    /\ retryable = {}
    /\ cancelledFiles = {}
    /\ discarded = FALSE

InTray == {tray[i] : i \in DOMAIN tray}

-----------------------------------------------------------------------------
(* The draft *)

\* The textarea is disabled while a blocking send is under way.
Type(t) ==
    /\ ~discarded /\ ~sending
    /\ draft' = t
    /\ UNCHANGED <<optimistic, lastText, riders, errorChip, sending, tray, upload, posts,
                   retryable, cancelledFiles, discarded>>

\* setReplyTarget(), setProductCard(), and the buttons that take them back.
SetRiders ==
    /\ ~discarded
    /\ riders' \in SUBSET Riders \ {riders}
    /\ UNCHANGED <<optimistic, draft, lastText, errorChip, sending, tray, upload, posts,
                   retryable, cancelledFiles, discarded>>

\* A recording that could not start or was too short: #renderErrorChip() without
\* a text of its own.
VoiceErrorShown ==
    /\ ~discarded
    /\ errorChip' = LastText
    /\ UNCHANGED <<optimistic, draft, lastText, riders, sending, tray, upload, posts,
                   retryable, cancelledFiles, discarded>>

-----------------------------------------------------------------------------
(* The picker *)

\* Mutant of Flushed: a failed upload wakes nobody.
FlushedWhenDone(ps, files, up) ==
    [i \in DOMAIN ps |->
        IF ps[i].stage = "awaiting" /\ \A f \in files : up[f].status = "done"
        THEN [ps[i] EXCEPT !.stage = "ready"] ELSE ps[i]]

\* #flushAwaiters() over the sends that wait for the tray, once it is files.
Flushed(ps, files, up) ==
    LET Waiting(s) == [i \in DOMAIN ps |->
                        IF ps[i].stage = "awaiting" THEN [ps[i] EXCEPT !.stage = s] ELSE ps[i]]
    IN  IF \E f \in files : up[f].status = "error" THEN Waiting("rejected")
        ELSE IF \A f \in files : up[f].status = "done" THEN Waiting("ready")
        ELSE ps

\* handleFiles() of a valid file, from the dialog, a paste or a drop (which a
\* locked composer still takes); past the limit it is refused.
Pick(f) ==
    /\ ~discarded
    /\ upload[f] = Unpicked
    /\ Len(tray) < MAX_ATTACHMENTS
    /\ tray' = Append(tray, f)
    /\ upload' = [upload EXCEPT ![f].status = "uploading", ![f].running = TRUE]
    /\ UNCHANGED <<optimistic, draft, lastText, riders, errorChip, sending, posts,
                   retryable, cancelledFiles, discarded>>

\* #upload() returns.  A destroyed picker leaves the item as it is; donePromise
\* resolves all the same.
UploadEnds(f, status) ==
    /\ upload[f].running
    /\ upload[f].halted => status = "error"
    /\ upload' = [upload EXCEPT ![f].running = FALSE, ![f].settled = TRUE, ![f].halted = FALSE,
                                ![f].status = IF discarded THEN @ ELSE status,
                                ![f].hasId = ~discarded /\ status = "done"]
    /\ posts' = IF discarded THEN posts ELSE Flushed(posts, InTray, upload')
    /\ UNCHANGED <<optimistic, draft, lastText, riders, errorChip, sending, tray,
                   retryable, cancelledFiles, discarded>>

\* The card's Retry button.  It calls #upload() again; donePromise stays that of
\* the first call.
RetryUpload(f) ==
    /\ ~discarded /\ ~sending
    /\ f \in InTray /\ upload[f].status = "error"
    /\ upload' = [upload EXCEPT ![f].status = "uploading", ![f].running = TRUE,
                                ![f].hasId = FALSE]
    /\ UNCHANGED <<optimistic, draft, lastText, riders, errorChip, sending, tray, posts,
                   retryable, cancelledFiles, discarded>>

\* The card's x, disabled while the composer is locked (setSendLocked()).
CancelUpload(f) ==
    /\ ~discarded /\ ~sending
    /\ f \in InTray
    /\ tray' = Kept(tray, {i \in DOMAIN tray : tray[i] # f})
    /\ upload' = [upload EXCEPT ![f].halted = upload[f].running]
    /\ cancelledFiles' = cancelledFiles \cup {f}
    /\ posts' = Flushed(posts, InTray \ {f}, upload')
    /\ UNCHANGED <<optimistic, draft, lastText, riders, errorChip, sending, retryable,
                   discarded>>

-----------------------------------------------------------------------------
(* send() *)

Identified(files) == {f \in files : upload[f].hasId}

Post(text, files, stage) ==
    [text |-> text, files |-> files, stage |-> stage, identified |-> Identified(files),
     blocking |-> ~optimistic]

Sendable(text) ==
    /\ ~discarded
    /\ text \notin OverLong
    /\ text # NoText \/ tray # <<>> \/ "card" \in riders
    /\ Len(posts) < MaxPosts

ComposerCleared == draft' = NoText /\ lastText' = NoText /\ riders' = {}

\* Mutant of SendDetached: leaves the tray as it is.
SendDetachedKeepingTray(text) ==
    /\ optimistic /\ tray # <<>>
    /\ posts' = Append(posts, Post(text, InTray, "detached"))
    /\ retryable' = retryable \cup {Len(posts) + 1}
    /\ ComposerCleared
    /\ UNCHANGED <<tray, sending>>

\* detachAndAwaitUploads() and sendAttachmentMessageOptimistic(): the tray is
\* the message's from here on.
SendDetached(text) ==
    /\ optimistic /\ tray # <<>>
    /\ posts' = Append(posts, Post(text, InTray, "detached"))
    /\ tray' = <<>>
    /\ retryable' = retryable \cup {Len(posts) + 1}
    /\ ComposerCleared
    /\ UNCHANGED sending

\* sendTextOptimistic()
SendOptimistic(text) ==
    /\ optimistic /\ tray = <<>>
    /\ posts' = Append(posts, Post(text, {}, "posting"))
    /\ ComposerCleared
    /\ UNCHANGED <<tray, retryable, sending>>

\* awaitAllUploaded() rejects, resolves or waits.
Awaited ==
    CASE \E f \in InTray : upload[f].status = "error" -> "rejected"
      [] \A f \in InTray : upload[f].status = "done"  -> "ready"
      [] OTHER                                         -> "awaiting"

SendBlocking(text) ==
    /\ ~optimistic
    /\ sending' = TRUE
    /\ lastText' = text
    /\ posts' = Append(posts, IF tray = <<>> THEN Post(text, {}, "posting")
                                             ELSE Post(text, InTray, Awaited))
    /\ UNCHANGED <<draft, riders, tray, retryable>>

Send(text) ==
    /\ Sendable(text)
    /\ errorChip' = NoChip
    /\ SendDetached(text) \/ SendOptimistic(text) \/ SendBlocking(text)
    /\ UNCHANGED <<optimistic, upload, cancelledFiles, discarded>>

\* The button or Ctrl+Enter.
SendDraft == ~sending /\ Send(draft)

\* The error chip's Retry: what it sends again takes along what is staged now.
RetrySend ==
    /\ errorChip # NoChip
    /\ Send(IF errorChip = LastText THEN lastText ELSE errorChip)

\* The uploads of a detached message have settled.
DetachedReady(i) ==
    /\ posts[i].stage = "detached"
    /\ \A f \in posts[i].files : upload[f].settled
    /\ posts' = [posts EXCEPT ![i].stage =
                                IF \E f \in posts[i].files : upload[f].status = "error"
                                THEN "failed" ELSE "posting",
                              ![i].identified = Identified(posts[i].files)]
    /\ UNCHANGED <<optimistic, draft, lastText, riders, errorChip, sending, tray, upload,
                   retryable, cancelledFiles, discarded>>

\* After awaitAllUploaded(): the tray is read again, it may have emptied.
BlockingGoesOn(i) ==
    /\ posts[i].stage = "ready"
    /\ IF tray = <<>> /\ posts[i].text = NoText
       THEN /\ posts' = [posts EXCEPT ![i].stage = "void"]
            /\ sending' = FALSE
       ELSE /\ posts' = [posts EXCEPT ![i].stage = "posting", ![i].files = InTray,
                                      ![i].identified = Identified(InTray)]
            /\ UNCHANGED sending
    /\ UNCHANGED <<optimistic, draft, lastText, riders, errorChip, tray, upload,
                   retryable, cancelledFiles, discarded>>

ChipAfter(i) == errorChip' = IF discarded THEN errorChip ELSE posts[i].text

BlockingRejected(i) ==
    /\ posts[i].stage = "rejected"
    /\ posts' = [posts EXCEPT ![i].stage = "failed"]
    /\ sending' = FALSE
    /\ ChipAfter(i)
    /\ UNCHANGED <<optimistic, draft, lastText, riders, tray, upload, retryable,
                   cancelledFiles, discarded>>

\* clearStaged() discards what the tray holds now.
PostSucceeds(i) ==
    /\ posts[i].stage = "posting"
    /\ retryable' = retryable \ {i}
    /\ LET sent == [posts EXCEPT ![i].stage = "sent"] IN
        IF posts[i].blocking
        THEN /\ sending' = FALSE
             /\ IF discarded
                THEN posts' = sent /\ UNCHANGED <<draft, lastText, riders, tray, upload>>
                ELSE /\ ComposerCleared
                     /\ tray' = <<>>
                     /\ upload' = [f \in Files |->
                            IF f \in InTray /\ upload[f].status = "uploading"
                            THEN [upload[f] EXCEPT !.halted = TRUE] ELSE upload[f]]
                     /\ posts' = Flushed(sent, {}, upload)
        ELSE posts' = sent /\ UNCHANGED <<draft, lastText, riders, sending, tray, upload>>
    /\ UNCHANGED <<optimistic, errorChip, cancelledFiles, discarded>>

\* A text's failure comes back to the composer, an attachment message's goes to
\* its bubble.
PostFails(i) ==
    /\ posts[i].stage = "posting"
    /\ posts' = [posts EXCEPT ![i].stage = "failed"]
    /\ sending' = (sending /\ ~posts[i].blocking)
    /\ IF posts[i].blocking \/ posts[i].files = {} THEN ChipAfter(i) ELSE UNCHANGED errorChip
    /\ UNCHANGED <<optimistic, draft, lastText, riders, tray, upload, retryable,
                   cancelledFiles, discarded>>

\* The Retry of a failed bubble: restoreText().
RestoreText(i) ==
    /\ ~discarded
    /\ i \in retryable /\ posts[i].stage = "failed"
    /\ retryable' = retryable \ {i}
    /\ draft' = posts[i].text
    /\ lastText' = posts[i].text
    /\ UNCHANGED <<optimistic, riders, errorChip, sending, tray, upload, posts,
                   cancelledFiles, discarded>>

\* destroy() of the composer and its picker, whose awaiters are dropped.
Discard ==
    /\ ~discarded
    /\ discarded' = TRUE
    /\ tray' = <<>>
    /\ upload' = [f \in Files |->
                    IF f \in InTray /\ upload[f].status = "uploading"
                    THEN [upload[f] EXCEPT !.halted = TRUE] ELSE upload[f]]
    /\ errorChip' = NoChip
    /\ retryable' = {}
    /\ posts' = [i \in DOMAIN posts |->
                    IF posts[i].stage = "awaiting" THEN [posts[i] EXCEPT !.stage = "void"]
                    ELSE posts[i]]
    /\ UNCHANGED <<optimistic, draft, lastText, riders, sending, cancelledFiles>>

ComposerNext ==
    \/ \E t \in Texts \cup {NoText} : Type(t)
    \/ SetRiders
    \/ VoiceErrorShown
    \/ \E f \in Files :
        \/ Pick(f)
        \/ UploadEnds(f, "done")
        \/ UploadEnds(f, "error")
        \/ RetryUpload(f)
        \/ CancelUpload(f)
    \/ SendDraft
    \/ RetrySend
    \/ \E i \in DOMAIN posts :
        \/ DetachedReady(i)
        \/ BlockingGoesOn(i)
        \/ BlockingRejected(i)
        \/ PostSucceeds(i)
        \/ PostFails(i)
        \/ RestoreText(i)
    \/ Discard

\* Requests are answered, promises run their reactions; the user owes nothing.
ComposerFairness ==
    /\ \A f \in Files :
        WF_composerVars(UploadEnds(f, "done") \/ UploadEnds(f, "error"))
    /\ \A i \in 1..MaxPosts :
        WF_composerVars(/\ i \in DOMAIN posts
                        /\ \/ DetachedReady(i)
                           \/ BlockingGoesOn(i)
                           \/ BlockingRejected(i)
                           \/ PostSucceeds(i)
                           \/ PostFails(i))

-----------------------------------------------------------------------------
(* Safety *)

\* With the optimistic client a file that was picked and not taken back is in
\* the tray or in exactly one message, however uploads fail, are retried or
\* outlive the send: detaching neither loses a file nor sends it twice.
FilesGoOutOnce ==
    optimistic => \A f \in Files :
        LET carriers == {i \in DOMAIN posts : f \in posts[i].files} IN
        /\ Cardinality(carriers) <= 1
        /\ upload[f] # Unpicked /\ f \notin cancelledFiles /\ ~discarded
             => (f \in InTray) # (carriers # {})

\* A message leaves when the uploads of its files are complete: each of them has
\* the id under which it was stored ("a promise that resolves when all their
\* uploads complete", detachAndAwaitUploads()).
PostedFilesAreUploaded ==
    \A i \in DOMAIN posts :
        posts[i].stage \in {"posting", "sent"} => posts[i].files = posts[i].identified

(* Liveness *)

\* A blocking send gives the composer back, also when its files fail before it
\* waits for them or while it does.
ComposerIsGivenBack == sending ~> (~sending \/ discarded)
=============================================================================
