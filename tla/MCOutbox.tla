------------------------------ MODULE MCOutbox ------------------------------
(* Outbox for TLC: two texts, or a text and an attachment message, through *)
(* a reload, lost requests and evictions (Outbox.cfg), and a page with no  *)
(* fault at all, whose flush meets an upload under way: it marks the       *)
(* attachment (OutboxLiveUpload.cfg) and sends the text behind it          *)
(* (OutboxOvertaken.cfg).                                                  *)
EXTENDS Outbox

CONSTANTS t1, t2, a1

\* This page sends two of the three messages.
MCInit ==
    /\ Init
    /\ \E m \in {t2, a1} : pc = [n \in Messages |-> IF n = m THEN "lost" ELSE "idle"]

MCSpec == MCInit /\ [][Next]_vars /\ Fairness
=============================================================================
