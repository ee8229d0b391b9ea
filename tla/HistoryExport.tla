--------------------------- MODULE HistoryExport ---------------------------
(***************************************************************************)
(* packages/chat-sdk/src/export.ts: exportRoomHistory(), page by page      *)
(* through list(), while the room lives on: messages come, old ones cannot *)
(* always be unsealed, the host may abort.  The server's pages are those   *)
(* of #fetchRows(): up to `limit' rows after a cursor, has_more and the    *)
(* last row's seq as the next cursor.                                      *)
(***************************************************************************)
EXTENDS Naturals, Sequences, FiniteSets

CONSTANTS
    MaxSeq,     \* bound on the room's messages
    Limit       \* opts.limit

ASSUME ExportAssumption == MaxSeq \in Nat /\ Limit \in Nat \ {0}

VARIABLES
    history,    \* the room: seqs 1..history
    page,       \* the page on its way to the export: [from, state]
    exported,   \* rows pushed so far: [seq, sealed]
    counts,     \* [exported, failed]
    exportStage,\* "idle", "fetching", "done", "aborted"
    signalled,  \* opts.signal is aborted
    oldest      \* history at the start of the export

exportVars == <<history, page, exported, counts, exportStage, signalled, oldest>>

ExportInit ==
    /\ history \in 0..MaxSeq
    /\ page = [from |-> 0, state |-> "none"]
    /\ exported = <<>>
    /\ counts = [exported |-> 0, failed |-> 0]
    /\ exportStage = "idle"
    /\ signalled = FALSE
    /\ oldest = 0

StartExport ==
    /\ exportStage = "idle"
    /\ exportStage' = "fetching"
    /\ page' = [from |-> 0, state |-> "asked"]
    /\ oldest' = history
    /\ UNCHANGED <<history, exported, counts, signalled>>

MessageArrives ==
    /\ history < MaxSeq
    /\ history' = history + 1
    /\ UNCHANGED <<page, exported, counts, exportStage, signalled, oldest>>

\* toExportRow(): a row that was not unsealed says so and counts as failed.
ExportRow(seq, unsealed) == [seq |-> seq, sealed |-> seq \notin unsealed]

PageRows(from, last, unsealed) ==
    [i \in 1..(last - from) |-> ExportRow(from + i, unsealed)]

\* Mutant of NextCursor: one short of the page's last row.
NextCursorShort(last) == last - 1

\* The cursor of the page after this one.
NextCursor(last) == last

\* A page of the room of this moment; of its rows some are unsealed.  An
\* aborted signal lets a row through undecrypted, so it may come to none.
PageArrives ==
    LET last == IF history < page.from + Limit THEN history ELSE page.from + Limit
        more == last < history
    IN
    /\ page.state = "asked"
    /\ \E unsealed \in SUBSET (page.from + 1 .. last) :
        /\ exported' = exported \o PageRows(page.from, last, unsealed)
        /\ counts' = [exported |-> counts.exported + Cardinality(unsealed),
                      failed |-> counts.failed
                                    + Cardinality((page.from + 1 .. last) \ unsealed)]
    /\ IF ~more
       THEN exportStage' = "done" /\ page' = [page EXCEPT !.state = "none"]
       ELSE IF signalled
       THEN exportStage' = "aborted" /\ page' = [page EXCEPT !.state = "none"]
       ELSE /\ page' = [from |-> NextCursor(last), state |-> "asked"]
            /\ UNCHANGED exportStage
    /\ UNCHANGED <<history, signalled, oldest>>

\* The signal rejects the request of the page, or the request fails.
PageRejected ==
    /\ page.state = "asked"
    /\ exportStage' = "aborted"
    /\ page' = [page EXCEPT !.state = "none"]
    /\ UNCHANGED <<history, exported, counts, signalled, oldest>>

Signal ==
    /\ ~signalled
    /\ signalled' = TRUE
    /\ UNCHANGED <<history, page, exported, counts, exportStage, oldest>>

ExportNext == StartExport \/ MessageArrives \/ PageArrives \/ PageRejected \/ Signal

\* A finished export holds every message the room had when it began, and the
\* later ones up to some moment, once each, in order, and its two counters add
\* up to its rows, whatever arrived between two pages and whatever failed.
ExportIsComplete ==
    /\ \A i \in DOMAIN exported : exported[i].seq = i
    /\ counts.exported + counts.failed = Len(exported)
    /\ counts.failed = Cardinality({i \in DOMAIN exported : exported[i].sealed})
    /\ exportStage = "done" => Len(exported) >= oldest
=============================================================================
