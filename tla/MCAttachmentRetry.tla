-------------------------- MODULE MCAttachmentRetry --------------------------
(* The composer over a client with the optimistic methods, as element.ts     *)
(* gives it one, for TLC.                                                    *)
EXTENDS Composer

Init == ComposerInit /\ optimistic

Spec == Init /\ [][ComposerNext]_composerVars
=============================================================================
