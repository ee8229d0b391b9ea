--------------------------- MODULE BatchedWrites ---------------------------
(***************************************************************************)
(* The two writes of packages/chat-sdk/src/client.ts that take more than   *)
(* one request: batchAppend(), which sends the same bytes again until an   *)
(* attempt is answered, and batchAddMembers(), which works through the     *)
(* user ids chunk by chunk and says, when a chunk fails, what is left.     *)
(*                                                                         *)
(* A request may reach the server after its caller gave it up, and its     *)
(* answer may be lost.  batchAppend() is one transaction that upserts by   *)
(* message id, so a batch is stored or not, however often it arrives.      *)
(***************************************************************************)
EXTENDS Naturals, FiniteSets

CONSTANTS
    MaxAttempts,        \* BATCH_APPEND_MAX_ATTEMPTS, or opts.maxAttempts
    MaxUsers,           \* bound on the user ids of a bulk
    Chunk               \* BATCH_ADD_MEMBERS_CHUNK

ASSUME BatchAssumption ==
    MaxAttempts \in Nat \ {0} /\ MaxUsers \in Nat /\ Chunk \in Nat \ {0}

VARIABLES
    append,     \* the batchAppend() call: [stage, attempt, ending]
    cancelled,  \* opts.signal is aborted
    underway,   \* attempts whose request may still reach the server
    stored,     \* the server has the batch
    bulk,       \* the batchAddMembers() call: [stage, size, offset, confirmed, ...]
    enrolled    \* user ids the server has as members

appendVars == <<append, cancelled, underway, stored>>
bulkVars == <<bulk, enrolled>>
batchVars == <<appendVars, bulkVars>>

Users(n) == 1..n

BatchTypeOK ==
    /\ append \in [stage : {"idle", "inFlight", "sleeping", "settled"},
                   attempt : 0..MaxAttempts,
                   ending : {"none", "ok", "permanent", "gaveUp", "rateLimited", "aborted"}]
    /\ cancelled \in BOOLEAN
    /\ underway \subseteq 1..MaxAttempts
    /\ stored \in BOOLEAN
    /\ bulk.stage \in {"idle", "inFlight", "done", "failed", "malformed", "invalid"}
    /\ enrolled \subseteq Users(MaxUsers)

BatchInit ==
    /\ append = [stage |-> "idle", attempt |-> 0, ending |-> "none"]
    /\ cancelled = FALSE
    /\ underway = {}
    /\ stored = FALSE
    /\ \E n \in 0..MaxUsers :
        bulk = [stage |-> "idle", size |-> n, offset |-> 0, confirmed |-> {},
                failedChunk |-> {}, remaining |-> {}]
    /\ enrolled = {}

-----------------------------------------------------------------------------
(* batchAppend() *)

\* The head of the loop: an aborted signal is thrown, else the bytes leave.
Attempt(n) ==
    IF cancelled
    THEN /\ append' = [append EXCEPT !.stage = "settled", !.ending = "aborted"]
         /\ UNCHANGED underway
    ELSE /\ append' = [append EXCEPT !.stage = "inFlight", !.attempt = n]
         /\ underway' = underway \cup {n}

StartAppend ==
    /\ append.stage = "idle"
    /\ Attempt(1)
    /\ UNCHANGED <<cancelled, stored, bulkVars>>

SettleAppend(how) == append' = [append EXCEPT !.stage = "settled", !.ending = how]

\* A failure that may pass: the last attempt gives up, a wait the server asks
\* for beyond the cap ends the call, else the backoff begins, which an aborted
\* signal ends at once (abortableSleep).
Transient(tooLong) ==
    IF append.attempt = MaxAttempts THEN SettleAppend("gaveUp")
    ELSE IF tooLong THEN SettleAppend("rateLimited")
    ELSE IF cancelled THEN SettleAppend("aborted")
    ELSE append' = [append EXCEPT !.stage = "sleeping"]

\* The server commits the batch of an attempt, whoever still waits for it.
ServerStores(n) ==
    /\ n \in underway
    /\ stored' = TRUE
    /\ UNCHANGED <<append, cancelled, underway, bulkVars>>

\* An answer: 200 after the commit; 429, with a wait that may be too long, or
\* 5xx; any other 4xx, which is never retried.
AnswerAppend(kind) ==
    /\ append.stage = "inFlight"
    /\ ~cancelled
    /\ underway' = underway \ {append.attempt}
    /\ CASE kind = "ok" -> stored /\ SettleAppend("ok")
         [] kind = "serverError" -> Transient(FALSE)
         [] kind = "limited" -> Transient(FALSE)
         [] kind = "limitedForLong" -> Transient(TRUE)
         [] kind = "refused" -> SettleAppend("permanent")
    /\ UNCHANGED <<cancelled, stored, bulkVars>>

\* The fetch rejects: no network, or the attempt's own timer aborted it.  The
\* request stays under way.
AppendTimesOut ==
    /\ append.stage = "inFlight"
    /\ ~cancelled
    /\ Transient(FALSE)
    /\ UNCHANGED <<cancelled, underway, stored, bulkVars>>

\* The caller's abort reaches the fetch or the sleep of the moment.
AbortSeen ==
    /\ cancelled
    /\ append.stage \in {"inFlight", "sleeping"}
    /\ SettleAppend("aborted")
    /\ UNCHANGED <<cancelled, underway, stored, bulkVars>>

\* Mutant of BackoffOver: the new attempt has the number of the old one.
BackoffUncounted ==
    /\ append.stage = "sleeping"
    /\ ~cancelled
    /\ Attempt(append.attempt)
    /\ UNCHANGED <<cancelled, stored, bulkVars>>

BackoffOver ==
    /\ append.stage = "sleeping"
    /\ ~cancelled
    /\ Attempt(append.attempt + 1)
    /\ UNCHANGED <<cancelled, stored, bulkVars>>

CancelAppend ==
    /\ ~cancelled
    /\ cancelled' = TRUE
    /\ UNCHANGED <<append, underway, stored, bulkVars>>

-----------------------------------------------------------------------------
(* batchAddMembers() *)

Slice(from) == {u \in Users(bulk.size) : from < u /\ u <= from + Chunk}

\* Mutant of Rest: the failed chunk is counted as untried too.
RestWithFailed(from) == {u \in Users(bulk.size) : from < u}

Rest(from) == {u \in Users(bulk.size) : u > from + Chunk}

StartBulk ==
    /\ bulk.stage = "idle"
    /\ bulk' = [bulk EXCEPT !.stage = IF bulk.size = 0 THEN "invalid" ELSE "inFlight"]
    /\ UNCHANGED <<enrolled, appendVars>>

\* The server takes the chunk on its way, before or after its answer is lost.
ServerEnrols ==
    /\ bulk.stage \in {"inFlight", "failed", "malformed"}
    /\ enrolled' = enrolled \cup
            IF bulk.stage = "inFlight" THEN Slice(bulk.offset) ELSE bulk.failedChunk
    /\ UNCHANGED <<bulk, appendVars>>

\* A good answer lists the chunk under added and updated; the next follows.
ChunkConfirmed ==
    /\ bulk.stage = "inFlight"
    /\ Slice(bulk.offset) \subseteq enrolled
    /\ bulk' = [bulk EXCEPT
            !.confirmed = @ \cup Slice(bulk.offset),
            !.offset = @ + Chunk,
            !.stage = IF bulk.offset + Chunk < bulk.size THEN "inFlight" ELSE "done"]
    /\ UNCHANGED <<enrolled, appendVars>>

\* The request fails, or an error comes back: SDKChatBatchError.
ChunkFails ==
    /\ bulk.stage = "inFlight"
    /\ bulk' = [bulk EXCEPT !.stage = "failed", !.failedChunk = Slice(bulk.offset),
                            !.remaining = Rest(bulk.offset)]
    /\ UNCHANGED <<enrolled, appendVars>>

\* A 2xx answer without the two lists: a plain error, which carries nothing.
ChunkMalformed ==
    /\ bulk.stage = "inFlight"
    /\ bulk' = [bulk EXCEPT !.stage = "malformed"]
    /\ UNCHANGED <<enrolled, appendVars>>

BatchNext ==
    \/ StartAppend
    \/ \E n \in 1..MaxAttempts : ServerStores(n)
    \/ \E kind \in {"ok", "serverError", "limited", "limitedForLong", "refused"} :
            AnswerAppend(kind)
    \/ AppendTimesOut
    \/ AbortSeen
    \/ BackoffOver
    \/ CancelAppend
    \/ StartBulk
    \/ ServerEnrols
    \/ ChunkConfirmed
    \/ ChunkFails
    \/ ChunkMalformed

\* The timer of an attempt, the listener on the signal and the backoff's timer.
AppendFairness ==
    /\ WF_batchVars(AppendTimesOut)
    /\ WF_batchVars(AbortSeen)
    /\ WF_batchVars(BackoffOver)

-----------------------------------------------------------------------------

\* batchAppend() settles, on a server that never answers and on one that
\* always asks for more time, whenever the caller aborts.
AppendSettles == append.stage = "inFlight" ~> append.stage = "settled"

\* What an SDKChatBatchError carries is the exact residue: every id is
\* confirmed, in doubt or untried, in one of the three only, the confirmed ones
\* are members and no untried one is.
ResidueIsExact ==
    bulk.stage = "failed" =>
        /\ bulk.confirmed \cup bulk.failedChunk \cup bulk.remaining = Users(bulk.size)
        /\ Cardinality(bulk.confirmed) + Cardinality(bulk.failedChunk)
                + Cardinality(bulk.remaining) = bulk.size
        /\ bulk.confirmed \subseteq enrolled
        /\ bulk.remaining \cap enrolled = {}
        /\ bulk.failedChunk # {}
=============================================================================
