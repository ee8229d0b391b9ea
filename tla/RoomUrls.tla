------------------------------ MODULE RoomUrls ------------------------------
(***************************************************************************)
(* packages/url-contract/src: room ids, their checksum, and the URLs that  *)
(* carry them.  An id is minted, put in a URL beside its secret, shared    *)
(* (by a messenger, or typed with a slip of one key) and parsed.           *)
(*                                                                         *)
(* A code AAAA-0000 is its eight values in CHECKSUM_ALPHABET, a typed code *)
(* nine, the last the checksum; a character outside the alphabet is the    *)
(* value -1.  The other ids are opaque.  A URL is its route, its id, the   *)
(* form of its fragment and its query flag.                                *)
(***************************************************************************)
EXTENDS Integers, Sequences

CONSTANTS
    Payloads,       \* the payloads a random group code may have
    MaxDraws        \* 8, the draws messengerSafeBase64Url16() makes

\* CHECKSUM_ALPHABET = DIGITS + FULL_LETTERS: 10 digits, then 24 letters.
N == 34
Digits == 0..9
FullLetters == 10..33
GroupLetters == 16..21      \* G H J K L M

ASSUME UrlAssumption ==
    /\ Payloads \subseteq [1..8 -> 0..33]
    /\ \A p \in Payloads : /\ p[1] \in GroupLetters
                           /\ \A i \in 2..4 : p[i] \in FullLetters
                           /\ \A i \in 5..8 : p[i] \in Digits
    /\ MaxDraws \in Nat \ {0}

VARIABLES
    urlStage,   \* "start", "drawing", "minted", "built", "parsed", "refused"
    draws,      \* draws of the opaque id made so far
    minted,     \* [kind, id]
    url,        \* [prefix, id, fragment, audio]
    slip,       \* what happened on the way: "none", "key", "swap"
    parsedUrl   \* what parseRoomUrl() makes of it

urlVars == <<urlStage, draws, minted, url, slip, parsedUrl>>

Null == "null"

\* An id: 22 base64url characters, a server's dashed UUID, or a code.
Id(form, chars) == [form |-> form, chars |-> chars]
NoId == Id(Null, <<>>)
Code(chars) == Id("code", chars)
RealKinds == {"1to1", "group", "burner", "sealed"}

-----------------------------------------------------------------------------
(* checksum.ts *)

\* Mutant of Weighted: a weight that 34 divides with.
WeightedByTwo(i, v) == IF i % 2 = 0 THEN (v * 2) % N ELSE v

\* luhnCheckValue(): the rightmost of the eight values has weight 3, the next
\* 1, and so on.
Weighted(i, v) == IF i % 2 = 0 THEN (v * 3) % N ELSE v
LuhnSum(p) ==
    Weighted(1, p[1]) + Weighted(2, p[2]) + Weighted(3, p[3]) + Weighted(4, p[4])
      + Weighted(5, p[5]) + Weighted(6, p[6]) + Weighted(7, p[7]) + Weighted(8, p[8])
LuhnCheckValue(p) == (N - (LuhnSum(p) % N)) % N

Payload(code) == [i \in 1..8 |-> code[i]]
AppendChecksum(p) == [i \in 1..9 |-> IF i = 9 THEN LuhnCheckValue(p) ELSE p[i]]

\* verifyChecksum(): every value in the alphabet, and the last one theirs.
VerifyChecksum(code) ==
    /\ \A i \in 1..8 : code[i] \in 0..(N - 1)
    /\ code[9] = LuhnCheckValue(Payload(code))

-----------------------------------------------------------------------------
(* parse.ts, brands.ts *)

IsBare(p) == (\A i \in 1..4 : p[i] \in FullLetters) /\ (\A i \in 5..8 : p[i] \in Digits)

\* parseRoomCode(): opaque ids; a bare code of unknown kind; a typed code whose
\* checksum holds and whose first letter is a group's.
ParseRoomCode(id) ==
    LET chars == id.chars
    IN IF id.form \in {"opaque", "uuid"} THEN [roomId |-> id, kind |-> "opaque"]
       ELSE IF Len(chars) = 8 /\ IsBare(chars) THEN [roomId |-> id, kind |-> "legacy-bare"]
       ELSE IF Len(chars) = 9 /\ VerifyChecksum(chars) /\ IsBare(Payload(chars))
                 /\ chars[1] \in GroupLetters
       THEN [roomId |-> Code(Payload(chars)), kind |-> "group"]
       ELSE [roomId |-> NoId, kind |-> Null]

\* isValidRoomId(): a typed code of any first letter will do.
IsValidRoomId(id) ==
    \/ id.form \in {"opaque", "uuid"}
    \/ Len(id.chars) = 8 /\ IsBare(id.chars)
    \/ Len(id.chars) = 9 /\ IsBare(Payload(id.chars)) /\ VerifyChecksum(id.chars)

-----------------------------------------------------------------------------
(* url.ts *)

Fragments == {"none", "call", "burner", "malformed"}
Url(prefix, id, fragment, audio) ==
    [prefix |-> prefix, id |-> id, fragment |-> fragment, audio |-> audio]

\* buildCall1to1Url(), buildGroupCallUrl(), buildBurnerChatUrl(),
\* buildSealedChatUrl(); a one-to-one URL has a fragment and the flag only if
\* the options say so.
UrlsOf(room) ==
    CASE room.kind = "1to1" ->
            [prefix : {""}, id : {room.id}, fragment : {"none", "call"}, audio : BOOLEAN]
      [] room.kind = "group" -> {Url("/r/", room.id, "none", FALSE)}
      [] room.kind = "burner" -> {Url("/c/", room.id, "burner", FALSE)}
      [] room.kind = "sealed" -> {Url("/m/", room.id, "none", FALSE)}

Refusal == [roomId |-> NoId, kind |-> Null, fragment |-> "none", audio |-> FALSE]

\* parseRoomUrl(), past the short links: a fragment that is neither form is no
\* fragment, one on another's route is an error.
ParseRoomUrl(u) ==
    LET code == ParseRoomCode(u.id)
        fragment == IF u.fragment \in {"call", "burner"} THEN u.fragment ELSE "none"
    IN IF \/ code.kind = Null
          \/ fragment = "call" /\ u.prefix # ""
          \/ fragment = "burner" /\ u.prefix # "/c/"
       THEN Refusal
       ELSE [roomId |-> code.roomId, kind |-> code.kind, fragment |-> fragment,
             audio |-> u.audio]

-----------------------------------------------------------------------------
(* From the minting of an id to the parsing of its URL *)

UrlInit ==
    /\ urlStage = "start"
    /\ draws = 0
    /\ minted = [kind |-> Null, id |-> NoId]
    /\ url = Url(Null, NoId, "none", FALSE)
    /\ slip = "none"
    /\ parsedUrl = Refusal

\* generateRoomCode('group').
MintGroup ==
    /\ urlStage = "start"
    /\ \E p \in Payloads : minted' = [kind |-> "group", id |-> Code(AppendChecksum(p))]
    /\ urlStage' = "minted"
    /\ UNCHANGED <<draws, url, slip, parsedUrl>>

\* generateRoomCode() of another kind, or the server's mint.
MintOpaque ==
    /\ urlStage = "start"
    /\ \E kind \in RealKinds \ {"group"} :
        \/ minted' = [kind |-> kind, id |-> NoId] /\ urlStage' = "drawing"
        \/ minted' = [kind |-> kind, id |-> Id("uuid", <<>>)] /\ urlStage' = "minted"
    /\ UNCHANGED <<draws, url, slip, parsedUrl>>

\* messengerSafeBase64Url16(): a draw is safe to share or not; it gives up
\* rather than return one that is not.
Draw ==
    /\ urlStage = "drawing"
    /\ draws' = draws + 1
    /\ \/ minted' = [minted EXCEPT !.id = Id("opaque", <<>>)] /\ urlStage' = "minted"
       \/ urlStage' = (IF draws + 1 = MaxDraws THEN "refused" ELSE "drawing") /\ UNCHANGED minted
    /\ UNCHANGED <<url, slip, parsedUrl>>

Build ==
    /\ urlStage = "minted"
    /\ url' \in UrlsOf(minted)
    /\ urlStage' = "built"
    /\ UNCHANGED <<draws, minted, slip, parsedUrl>>

\* A group's code is read out and typed: one key is another, or two neighbours
\* are swapped.
Mistype ==
    /\ urlStage = "built" /\ slip = "none" /\ minted.kind = "group"
    /\ \/ /\ \E i \in 1..9, v \in -1..33 :
                /\ v # url.id.chars[i]
                /\ url' = [url EXCEPT !.id.chars[i] = v]
          /\ slip' = "key"
       \/ /\ \E i \in 1..8 :
                /\ url.id.chars[i] # url.id.chars[i + 1]
                /\ url' = [url EXCEPT !.id.chars[i] = url.id.chars[i + 1],
                                       !.id.chars[i + 1] = url.id.chars[i]]
          /\ slip' = "swap"
    /\ UNCHANGED <<urlStage, draws, minted, parsedUrl>>

\* A URL is put together by hand: another route, another fragment.
Reroute ==
    /\ urlStage = "built" /\ slip = "none"
    /\ \E p \in {"", "/r/", "/c/", "/m/"}, f \in Fragments :
        url' = [url EXCEPT !.prefix = p, !.fragment = f]
    /\ slip' = "route"
    /\ UNCHANGED <<urlStage, draws, minted, parsedUrl>>

Parse ==
    /\ urlStage = "built"
    /\ parsedUrl' = ParseRoomUrl(url)
    /\ urlStage' = "parsed"
    /\ UNCHANGED <<draws, minted, url, slip>>

UrlNext == MintGroup \/ MintOpaque \/ Draw \/ Build \/ Mistype \/ Reroute \/ Parse

-----------------------------------------------------------------------------
(* Properties *)

\* A shared URL opens the room it was made for, with its secret; a code typed
\* with one wrong key opens no room at all, and two keys swapped only where the
\* weights cannot tell them apart ("swaps where (b - a) = 0 (mod 17)"); a
\* secret is never taken for that of another route.
UrlOpensItsRoom ==
    urlStage = "parsed" =>
        /\ slip = "none" =>
            /\ parsedUrl.roomId = IF minted.kind = "group"
                                  THEN Code(Payload(minted.id.chars)) ELSE minted.id
            /\ parsedUrl.kind = IF minted.kind = "group" THEN "group" ELSE "opaque"
            /\ parsedUrl.fragment = url.fragment
            /\ parsedUrl.audio = url.audio
        /\ slip = "key" => parsedUrl = Refusal /\ ~IsValidRoomId(url.id)
        /\ slip = "swap" /\ parsedUrl # Refusal =>
            \E i \in 1..7 : /\ minted.id.chars[i] # url.id.chars[i]
                            /\ minted.id.chars[i] % 17 = minted.id.chars[i + 1] % 17
        /\ parsedUrl.fragment = "call" => url.prefix = ""
        /\ parsedUrl.fragment = "burner" => url.prefix = "/c/"
=============================================================================
