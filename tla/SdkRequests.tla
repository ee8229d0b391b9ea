---------------------------- MODULE SdkRequests ----------------------------
(***************************************************************************)
(* The request wrappers of packages/chat-sdk/src: one fetch, its failure   *)
(* or status turned into a code, and what of the answer is looked at.      *)
(* client.ts, catalog.ts, push.ts, roster.ts, attachments.ts, and the two  *)
(* mints, anon-read.ts and named-write.ts, each with codes of its own.     *)
(*                                                                         *)
(* A wrapper keeps no state, so the state is one call: made, then settled. *)
(* BatchedWrites models the two calls that retry or send several requests. *)
(***************************************************************************)
EXTENDS Naturals

CONSTANTS
    Statuses,           \* HTTP statuses a server may answer with
    ArgumentLengths     \* code points of a reaction

ASSUME StatusesAssumption == Statuses \subseteq 200..599 /\ ArgumentLengths \subseteq Nat

VARIABLES
    request,    \* the call made: its method, and the length of its reaction
    settled     \* how it ended: [value : BOOLEAN, code : STRING]

requestVars == <<request, settled>>

\* A fetch rejects, by the network or by the caller's signal, or answers; of
\* a body it matters whether it parses and has the fields looked at.
Reply ==
    {[fetch |-> f, status |-> 0, body |-> "none"] : f \in {"unreachable", "aborted"}}
    \cup [fetch : {"answered"}, status : Statuses, body : {"good", "missing", "unparsable"}]

Ok(reply) == reply.status \in 200..299

Value == [value |-> TRUE, code |-> "none"]
Thrown(code) == [value |-> FALSE, code |-> code]

\* An error of another class than the wrapper's own: a SyntaxError of
\* resp.json(), a TypeError on a missing field, the caller's abort.
Escaped == Thrown("escaped")

-----------------------------------------------------------------------------
(* client.ts *)

\* httpStatusToCode()
StatusCode(status) ==
    CASE status = 401 -> "unauthorized"
      [] status = 403 -> "forbidden"
      [] status = 404 -> "not_found"
      [] status = 429 -> "rate_limited"
      [] status \in (400..499) \ {401, 403, 404, 429} -> "invalid_args"
      [] OTHER -> "server_error"

\* Mutant of PermanentCodes: takes a limit on the rate for a refusal.
PermanentCodesAndLimits ==
    {"crypto_mode_poisoned", "crypto_mode_mismatch", "crypto_mode_undiscovered",
     "invalid_args", "unsupported", "forbidden", "not_found", "rate_limited"}

\* PERMANENT_OUTBOX_FAILURE_CODES: a later flush cannot succeed.
PermanentCodes ==
    {"crypto_mode_poisoned", "crypto_mode_mismatch", "crypto_mode_undiscovered",
     "invalid_args", "unsupported", "forbidden", "not_found"}

\* The common shape; `read' is what becomes of the body of a good answer.
Fetched(reply, read) ==
    CASE reply.fetch # "answered" -> Thrown("network")
      [] reply.fetch = "answered" /\ ~Ok(reply) -> Thrown(StatusCode(reply.status))
      [] reply.fetch = "answered" /\ Ok(reply) -> read

Unread(reply) == Fetched(reply, Value)
ReadBody(reply) == Fetched(reply, IF reply.body = "unparsable" THEN Escaped ELSE Value)

\* The wire-contract assertion: a named field must be there.
Asserted(reply) ==
    Fetched(reply, CASE reply.body = "unparsable" -> Escaped
                     [] reply.body = "missing" -> Thrown("server_error")
                     [] reply.body = "good" -> Value)

\* An answer whose missing rows break the mapping that follows.
Mapped(reply) == Fetched(reply, IF reply.body = "good" THEN Value ELSE Escaped)

EphemeralCall(method, reply) ==
    CASE method \in {"sendTyping", "sendPresence", "markRead"} -> Unread(reply)
      [] method = "getPresence" -> Asserted(reply)

RoomCall(method, reply) == Asserted(reply)

RoomListCall(method, reply) == Mapped(reply)

MemberCall(method, reply) ==
    IF method = "addMember" THEN Asserted(reply) ELSE Unread(reply)

ShareLinkCall(method, reply) == Asserted(reply)

ContentCall(method, reply) ==
    IF method \in {"send", "sendProductCard"} THEN ReadBody(reply) ELSE Unread(reply)

PinCall(method, reply) ==
    IF method = "listPins" THEN Mapped(reply) ELSE Unread(reply)

\* 1 to 32 code points, or no request at all.
ReactionCall(method, length, reply) ==
    IF method = "getReactions" THEN ReadBody(reply)
    ELSE IF length \notin 1..32 THEN Thrown("invalid_args")
    ELSE Unread(reply)

\* A page: the caller's abort stays an abort, and has_more needs a cursor.
PageCall(method, reply) ==
    IF reply.fetch = "aborted" THEN Escaped ELSE Asserted(reply)

-----------------------------------------------------------------------------
(* The other modules *)

RosterCall(method, reply) ==
    IF reply.status = 404 THEN Value
    ELSE Fetched(reply, IF reply.body = "unparsable" THEN Escaped ELSE Value)

PresignCall(method, reply) ==
    IF reply.fetch = "answered" /\ ~Ok(reply) THEN Thrown("server_error") ELSE ReadBody(reply)

\* SDKCatalogClient.request(): an empty or unparsable 2xx body is no content,
\* which the methods that map a product trip over.
CatalogCall(method, reply) ==
    CASE reply.fetch = "aborted" -> Thrown("aborted")
      [] reply.fetch = "unreachable" -> Thrown("network")
      [] reply.fetch = "answered" /\ Ok(reply) ->
            IF method = "deleteProduct" \/ (reply.body = "good" /\ reply.status # 204)
            THEN Value ELSE Escaped
      [] reply.status \in {400, 413, 422} -> Thrown("validation_error")
      [] reply.status = 404 -> Thrown("not_found")
      [] reply.status = 409 -> Thrown("conflict")
      [] reply.status >= 500 -> Thrown("server_5xx")
      [] OTHER -> Thrown("server_4xx")

\* mintAnonReadToken(), mintNamedWriteToken(): an answer that cannot be read is
\* a failed mint, and a named-write token must be an EdDSA one.
MintCall(method, reply) ==
    CASE reply.fetch # "answered" -> Thrown("mint_failed")
      [] reply.fetch = "answered" /\ Ok(reply) ->
            IF reply.body = "good" THEN Value ELSE Thrown("mint_failed")
      [] reply.status = 403 ->
            Thrown(IF method = "mintAnonReadToken" THEN "not_anon_readable" ELSE "forbidden")
      [] reply.status = 429 -> Thrown("rate_limited")
      [] reply.status = 503 /\ method = "mintAnonReadToken" -> Thrown("disabled")
      [] reply.status = 401 /\ method = "mintNamedWriteToken" -> Thrown("unauthorized")
      [] OTHER -> Thrown("mint_failed")

-----------------------------------------------------------------------------

Methods ==
    [EphemeralCall |-> {"sendTyping", "sendPresence", "markRead", "getPresence"},
     RoomCall |-> {"createRoom", "getRoom", "updateRoom"},
     RoomListCall |-> {"listRooms"},
     MemberCall |-> {"addMember", "removeMember"},
     ShareLinkCall |-> {"mintShareLink", "joinByLink"},
     ContentCall |-> {"send", "sendProductCard", "updateMessage", "deleteMessage", "deleteRoom"},
     PinCall |-> {"pinMessage", "unpinMessage", "listPins"},
     ReactionCall |-> {"sendReaction", "removeReaction", "getReactions"},
     PageCall |-> {"list"},
     RosterCall |-> {"fetchRoster"},
     PresignCall |-> {"presignAttachment"},
     CatalogCall |-> {"createProduct", "getProduct", "listProducts", "updateProduct",
                      "deleteProduct"},
     MintCall |-> {"mintAnonReadToken", "mintNamedWriteToken"}]

Pending == [value |-> FALSE, code |-> "pending"]

Outcome(family, method, length, reply) ==
    CASE family = "EphemeralCall" -> EphemeralCall(method, reply)
      [] family = "RoomCall" -> RoomCall(method, reply)
      [] family = "RoomListCall" -> RoomListCall(method, reply)
      [] family = "MemberCall" -> MemberCall(method, reply)
      [] family = "ShareLinkCall" -> ShareLinkCall(method, reply)
      [] family = "ContentCall" -> ContentCall(method, reply)
      [] family = "PinCall" -> PinCall(method, reply)
      [] family = "ReactionCall" -> ReactionCall(method, length, reply)
      [] family = "PageCall" -> PageCall(method, reply)
      [] family = "RosterCall" -> RosterCall(method, reply)
      [] family = "PresignCall" -> PresignCall(method, reply)
      [] family = "CatalogCall" -> CatalogCall(method, reply)
      [] family = "MintCall" -> MintCall(method, reply)

NoRequest ==
    [family |-> "none", method |-> "none", length |-> 0,
     reply |-> [fetch |-> "none", status |-> 0, body |-> "none"]]

RequestInit == request = NoRequest /\ settled = Pending

Call(family, method, length, reply) ==
    /\ request = NoRequest
    /\ request' = [family |-> family, method |-> method, length |-> length, reply |-> reply]
    /\ settled' = Outcome(family, method, length, reply)

RequestNext ==
    \E family \in DOMAIN Methods, length \in ArgumentLengths, reply \in Reply :
        \E method \in Methods[family] : Call(family, method, length, reply)

\* What a code promises about trying again is one thing across the client: an
\* outcome whose code the outbox takes for permanent is never one that
\* batchAppend() would retry (the network, 429, 5xx), and whatever is left is
\* what a fresh token or a later moment can mend.  (presignAttachment() is not
\* among them: it has one code for every status.  A 3xx, which fetch() returns
\* when there is no Location to follow, has `server_error', httpStatusToCode()'s
\* fallback: the outbox tries again, batchAppend() would not.)
RetryRulesAgree ==
    LET reply == request.reply
        client == request.family \notin {"none", "CatalogCall", "MintCall", "PresignCall"}
        transient == reply.fetch = "unreachable" \/ reply.status = 429 \/ reply.status >= 500
    IN client /\ settled.code \notin {"escaped", "pending"} /\ request.length \in 1..32 =>
        /\ transient => ~settled.value /\ settled.code \notin PermanentCodes
        /\ ~settled.value /\ settled.code \notin PermanentCodes
            => transient \/ reply.status \in {0, 401} \cup 300..399 \/ Ok(reply)
=============================================================================
