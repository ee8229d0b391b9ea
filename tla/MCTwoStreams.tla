---------------------------- MODULE MCTwoStreams ----------------------------
(* MessageRows by itself for TLC, as the run deleted_text_returns checks it. *)
EXTENDS MessageRows

Spec == RowsInit /\ [][RowsNext]_rowsVars
=============================================================================
