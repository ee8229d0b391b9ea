----------------------------- MODULE WireFormats -----------------------------
(***************************************************************************)
(* packages/wire-codec/src: the shared dictionaries of a process (dicts.ts)*)
(* and the frames built with them (codec.ts, envelope-v2.ts,               *)
(* mesh-bundle.ts).                                                        *)
(*                                                                         *)
(* A dictionary's bytes are named by the loader generation that fetched    *)
(* them; compressed bytes by the dictionary they need; an envelope by      *)
(* whether its fields fit the compact shapes.  The choice of the options   *)
(* is the negotiation's, over what each peer advertises, which is fixed at *)
(* build time, while what it has loaded is not.                            *)
(***************************************************************************)
EXTENDS Integers, Sequences, FiniteSets

CONSTANTS
    DictOrder,      \* ALL_DICTS, in priority order
    MaxSwaps,       \* bound on setDictLoader() calls
    MaxFetches,     \* bound on fetches of a dictionary at a time
    NoDict          \* no dictionary: 0x00, undefined

Dicts == {DictOrder[i] : i \in DOMAIN DictOrder}

ASSUME WireAssumption ==
    /\ MaxSwaps \in Nat /\ MaxFetches \in Nat \ {0}
    /\ DictOrder \in Seq(Dicts) /\ NoDict \notin Dicts

VARIABLES
    loaderGeneration,   \* _loaderGeneration
    dictCache,          \* [Dicts -> the generation of its bytes, or NoBytes]
    inFlightDict,       \* inFlight has an entry: [Dicts -> BOOLEAN]
    dictFetches,        \* [Dicts -> [generations -> fetches on their way]]
    codecStage,         \* "cold", "starting", "preloading", "ready", "failed"
    preload,            \* [at, on]: index in DictOrder; generation awaited
    exchange            \* the frame built last and what became of it

dictVars == <<loaderGeneration, dictCache, inFlightDict, dictFetches>>
wireVars == <<loaderGeneration, dictCache, inFlightDict, dictFetches, codecStage, preload,
              exchange>>

NoBytes == -1
Generations == 0..MaxSwaps
NoExchange == [kind |-> "none"]

WireTypeOK ==
    /\ loaderGeneration \in Generations
    /\ dictCache \in [Dicts -> Generations \cup {NoBytes}]
    /\ inFlightDict \in [Dicts -> BOOLEAN]
    /\ dictFetches \in [Dicts -> [Generations -> 0..MaxFetches]]
    /\ codecStage \in {"cold", "starting", "preloading", "ready", "failed"}
    /\ preload \in [at : 1..Len(DictOrder) + 1, on : Generations \cup {NoBytes}]

WireInit ==
    /\ loaderGeneration = 0
    /\ dictCache = [d \in Dicts |-> NoBytes]
    /\ inFlightDict = [d \in Dicts |-> FALSE]
    /\ dictFetches = [d \in Dicts |-> [g \in Generations |-> 0]]
    /\ codecStage = "cold"
    /\ preload = [at |-> 1, on |-> NoBytes]
    /\ exchange = NoExchange

-----------------------------------------------------------------------------
(* The dictionaries *)

Fetching(d) == \E g \in Generations : dictFetches[d][g] > 0

\* loadDict() past the cache and the shared fetch.
BeginFetch(d) ==
    /\ dictFetches[d][loaderGeneration] < MaxFetches
    /\ dictFetches' = [dictFetches EXCEPT ![d][loaderGeneration] = @ + 1]
    /\ inFlightDict' = [inFlightDict EXCEPT ![d] = TRUE]

\* loadDict() by the host.
LoadDict(d) ==
    /\ dictCache[d] = NoBytes
    /\ ~inFlightDict[d]
    /\ BeginFetch(d)
    /\ exchange' = NoExchange
    /\ UNCHANGED <<loaderGeneration, dictCache, codecStage, preload>>

\* Mutant of KeptFetch: keeps what a replaced loader has fetched.
KeptFetchOfAny(d, g) == [dictCache EXCEPT ![d] = g]

\* What a fetch begun under generation g leaves in the cache: nothing, once the
\* loader has been swapped.
KeptFetch(d, g) ==
    IF g = loaderGeneration THEN [dictCache EXCEPT ![d] = g] ELSE dictCache

\* A fetch settles, well or not; `finally' drops the shared entry of that name,
\* whose ever it is by now.  A preload that awaits it swallows the failure.
FetchSettles(d, g) ==
    /\ dictFetches[d][g] > 0
    /\ dictFetches' = [dictFetches EXCEPT ![d][g] = @ - 1]
    /\ inFlightDict' = [inFlightDict EXCEPT ![d] = FALSE]
    /\ \/ dictCache' = KeptFetch(d, g)
       \/ UNCHANGED dictCache
    /\ LET awaited == /\ codecStage = "preloading"
                      /\ preload.on = g
                      /\ DictOrder[preload.at] = d
       IN \/ awaited /\ preload' = [at |-> preload.at + 1, on |-> NoBytes]
          \/ (~awaited \/ dictFetches[d][g] > 1) /\ UNCHANGED preload
    /\ exchange' = NoExchange
    /\ UNCHANGED <<loaderGeneration, codecStage>>

\* setDictLoader(), setDictBaseUrl().
SetDictLoader ==
    /\ loaderGeneration < MaxSwaps
    /\ loaderGeneration' = loaderGeneration + 1
    /\ dictCache' = [d \in Dicts |-> NoBytes]
    /\ inFlightDict' = [d \in Dicts |-> FALSE]
    /\ exchange' = NoExchange
    /\ UNCHANGED <<dictFetches, codecStage, preload>>

-----------------------------------------------------------------------------
(* ensureWireCodecReady() *)

\* The first call; later ones share its promise, whatever came of it.
EnsureWireCodecReady ==
    /\ codecStage = "cold"
    /\ codecStage' = "starting"
    /\ exchange' = NoExchange
    /\ UNCHANGED <<loaderGeneration, dictCache, inFlightDict, dictFetches, preload>>

ZstdInit ==
    /\ codecStage = "starting"
    /\ codecStage' \in {"preloading", "failed"}
    /\ exchange' = NoExchange
    /\ UNCHANGED <<loaderGeneration, dictCache, inFlightDict, dictFetches, preload>>

\* The loop over ALL_DICTS: cached, or joins a fetch, or begins one.  The fetch
\* joined is the shared one, begun since the last swap.
PreloadDict ==
    /\ codecStage = "preloading" /\ preload.on = NoBytes
    /\ preload.at <= Len(DictOrder)
    /\ LET d == DictOrder[preload.at]
       IN IF dictCache[d] # NoBytes
          THEN preload' = [preload EXCEPT !.at = @ + 1] /\ UNCHANGED <<inFlightDict, dictFetches>>
          ELSE /\ preload' = [preload EXCEPT !.on = loaderGeneration]
               /\ IF inFlightDict[d] THEN UNCHANGED <<inFlightDict, dictFetches>>
                                     ELSE BeginFetch(d)
    /\ exchange' = NoExchange
    /\ UNCHANGED <<loaderGeneration, dictCache, codecStage>>

CodecReady ==
    /\ codecStage = "preloading"
    /\ preload.at > Len(DictOrder)
    /\ codecStage' = "ready"
    /\ exchange' = NoExchange
    /\ UNCHANGED <<loaderGeneration, dictCache, inFlightDict, dictFetches, preload>>

-----------------------------------------------------------------------------
(* Negotiation *)

Envelope2 == "envelope-v2"
Envelope3 == "envelope-v3"
AllCaps == {"json", "cbor", "cbor+zstd", Envelope2, Envelope3} \cup Dicts

\* negotiateCap(), negotiateDict(), negotiateEnvelopeVersion(): what this build
\* and every peer of the room advertise.
NegotiateCap(shared) ==
    IF "cbor+zstd" \in shared THEN "cbor+zstd" ELSE IF "cbor" \in shared THEN "cbor" ELSE "json"

NegotiateDict(shared) ==
    IF Dicts \cap shared = {} THEN NoDict
    ELSE DictOrder[CHOOSE i \in DOMAIN DictOrder :
            DictOrder[i] \in shared /\ \A j \in 1..(i - 1) : DictOrder[j] \notin shared]

NegotiateEnvelopeVersion(peers, shared) ==
    CASE peers = {} -> 1
      [] peers # {} /\ Envelope3 \in shared -> 3
      [] peers # {} /\ Envelope3 \notin shared /\ Envelope2 \in shared -> 2
      [] OTHER -> 1

\* capToOpts() and what is layered over it.
Negotiated(peers) ==
    LET shared == {cap \in AllCaps : \A p \in peers : cap \in p.caps}
        cap == NegotiateCap(shared)
    IN [cbor |-> cap # "json", zstd |-> cap = "cbor+zstd",
        dict |-> NegotiateDict(shared),
        envelope |-> NegotiateEnvelopeVersion(peers, shared)]

-----------------------------------------------------------------------------
(* Envelopes and frames *)

\* An id that is a UUID, one of 36 characters that parseInt() reads as one, and
\* any other; a ts within 32 bits of ROOM_EPOCH or not; a kind with a byte or
\* not; a sender or none.
Envelopes ==
    {e \in [id : {"uuid", "lenient", "other"}, ts : {"near", "far"},
            kind : {"known", "new"}, from : {"sender", "missing"}] :
        Cardinality({e.id, "uuid"}) + Cardinality({e.ts, "near"})
            + Cardinality({e.kind, "known"}) <= 4}

\* canEncodeAsV2(), canEncodeAsV3().
CanEncodeAsV2(e) == e.id \in {"uuid", "lenient"} /\ e.ts = "near" /\ e.kind = "known"
CanEncodeAsV3(e, peerIndex) == CanEncodeAsV2(e) /\ peerIndex \in 0..255 /\ e.from = "sender"

\* toV2(), toV3() and their inverses: 16 bytes are formatted as the UUID they
\* spell; the peer index names the sender to who knows the frame's epoch.
Compact(e, v) == [e EXCEPT !.id = "bytes", !.from = IF v = 3 THEN "index" ELSE @]
Expanded(c, resolved) ==
    [c EXCEPT !.id = "uuid",
              !.kind = IF @ = "new" THEN "chat-unknown-future" ELSE @,
              !.from = IF @ = "index" THEN IF resolved THEN "sender" ELSE "missing" ELSE @]

Frame(magic, dict, body) == [magic |-> magic, dict |-> dict, body |-> body]

\* encode(), by a process that holds some dictionaries: v3, v2, a dictionary
\* that is not loaded, an envelope that does not fit, each falls back.
Encode(e, opts, peerIndex, held) ==
    LET v3 == opts.envelope = 3 /\ CanEncodeAsV3(e, peerIndex)
        v2 == ~v3 /\ opts.envelope \in {2, 3} /\ CanEncodeAsV2(e)
        dict == IF opts.dict \in held THEN opts.dict ELSE NoDict
    IN CASE opts.zstd /\ v3 -> Frame("0xCA", dict, Compact(e, 3))
         [] opts.zstd /\ v2 -> Frame("0xC8", dict, Compact(e, 2))
         [] opts.zstd /\ ~v3 /\ ~v2 /\ dict # NoDict -> Frame("0xC7", dict, e)
         [] opts.zstd /\ ~v3 /\ ~v2 /\ dict = NoDict -> Frame("0xC6", NoDict, e)
         [] ~opts.zstd /\ opts.cbor -> Frame("cbor", NoDict, e)
         [] OTHER -> Frame("{", NoDict, e)

Failed(code) == [error |-> code]
Read(value) == [value |-> value]

\* decode(), by its first byte.
Decode(f, ready, held, resolved) ==
    IF f.magic \in {"{", "cbor"} THEN Read(f.body)
    ELSE IF ~ready THEN Failed("ZSTD_NOT_INITIALIZED")
    ELSE IF f.dict # NoDict /\ f.dict \notin Dicts THEN Failed("UNKNOWN_DICT_ID")
    ELSE IF f.dict # NoDict /\ f.dict \notin held THEN Failed("DICT_NOT_LOADED")
    ELSE Read(IF f.magic \in {"0xC8", "0xCA"} THEN Expanded(f.body, resolved) ELSE f.body)

\* validateZstdFrame(): the size a frame states for its content, by the bytes
\* of the field and its value in units of 2^28: four bytes are joined with `|',
\* which yields a signed 32-bit number.
StatedSize(field, units) == IF field = 4 /\ units >= 8 THEN units - 16 ELSE units
SizeIsAccepted(field, units, cap) == field # 0 /\ StatedSize(field, units) <= cap

\* encodeHttpBody(), decodeHttpBody(): the server's frames hold JSON, name the
\* dictionary in two bytes, and know no compact envelope.
EncodeHttpBody(hint, held) ==
    Frame(IF hint \in held THEN "0xC7" ELSE "0xC6", IF hint \in held THEN hint ELSE NoDict, "json")
DecodeHttpBody(f, ready, held) ==
    IF f.magic = "{" THEN Read(f.body)
    ELSE IF f.magic = "0xC8" THEN Failed("PEER_ENVELOPE_FORMAT")
    ELSE IF f.magic \notin {"0xC6", "0xC7"} THEN Failed("UNKNOWN_MAGIC")
    ELSE Decode(f, ready, held, FALSE)

\* encodeMeshBundle(), decodeMeshBundle(), meshBundleSignedRange(): lengths only.
MeshHeader == 61
MeshSignature == 64
MeshBodyCap == 1500
MeshLength(body) == MeshHeader + body + MeshSignature
EncodeMeshBundle(body, fieldsFit) ==
    IF ~fieldsFit THEN Failed("MESH_BUNDLE_FIELD_INVALID")
    ELSE IF body > MeshBodyCap THEN Failed("MESH_BUNDLE_TOO_LARGE")
    ELSE Read([declared |-> body, length |-> MeshLength(body)])
DecodeMeshBundle(w) ==
    IF w.length < MeshLength(0) THEN Failed("MESH_BUNDLE_TRUNCATED")
    ELSE IF w.declared > MeshBodyCap THEN Failed("MESH_BUNDLE_TOO_LARGE")
    ELSE IF w.length # MeshLength(w.declared) THEN Failed("MESH_BUNDLE_TRUNCATED")
    ELSE Read(w.declared)
MeshBundleSignedRange(w) ==
    IF w.length < MeshLength(0) \/ w.declared + MeshHeader > w.length
    THEN Failed("MESH_BUNDLE_TRUNCATED") ELSE Read(MeshHeader + w.declared)

-----------------------------------------------------------------------------
(* What is exchanged *)

\* Peers as other builds and other starts leave them: what they advertise and
\* which dictionaries they have loaded.
Peers ==
    LET first == {DictOrder[1]}
        last == {DictOrder[Len(DictOrder)]}
        modern == {"json", "cbor", "cbor+zstd", Envelope2}
    IN {[caps |-> {"json"}, held |-> {}],
        [caps |-> {"json", "cbor"}, held |-> {}],
        [caps |-> modern \cup last, held |-> last],
        [caps |-> AllCaps, held |-> Dicts],
        [caps |-> AllCaps, held |-> first],
        [caps |-> AllCaps, held |-> {}]}

\* What a frame asks of its reader's build (external: the other peer's).
Needs(f) ==
    CASE f.magic = "{" -> {"json"}
      [] f.magic = "cbor" -> {"cbor"}
      [] f.magic \in {"0xC6", "0xC7"} -> {"cbor+zstd"}
      [] f.magic = "0xC8" -> {"cbor+zstd", Envelope2}
      [] f.magic = "0xCA" -> {"cbor+zstd", Envelope3}

ReadBy(p, f, resolved) ==
    IF Needs(f) \cup ({f.dict} \ {NoDict}) \subseteq p.caps
    THEN Decode(f, TRUE, p.held, resolved)
    ELSE Failed("UNREADABLE")

Held == {d \in Dicts : dictCache[d] # NoBytes}

\* One envelope to a room of one or two others, as one of them reads it.  A
\* frame is looked at before the next is made, which bounds the model.
\* Compressing needs a codec that is ready.
SendEnvelope ==
    /\ exchange = NoExchange
    /\ \E p, q \in Peers, e \in Envelopes, resolved \in BOOLEAN :
        LET opts == Negotiated({p, q})
            f == Encode(e, opts, 7, Held)
        IN /\ opts.zstd => codecStage = "ready"
           /\ exchange' = [kind |-> "peer", sent |-> e, frame |-> f, reader |-> p,
                           got |-> ReadBy(p, f, resolved), resolved |-> resolved]
    /\ UNCHANGED <<loaderGeneration, dictCache, inFlightDict, dictFetches, codecStage, preload>>

\* A frame of a later build: a kind, or a dictionary, this one has not met.
ReceiveEnvelope ==
    /\ exchange = NoExchange
    /\ \E magic \in {"0xC8", "0xCA"}, dict \in Dicts \cup {NoDict, "later"},
            kind \in {"known", "new"}, resolved \in BOOLEAN :
        LET f == Frame(magic, dict,
                       Compact([id |-> "uuid", ts |-> "near", kind |-> kind, from |-> "sender"],
                               IF magic = "0xCA" THEN 3 ELSE 2))
        IN exchange' = [kind |-> "foreign", frame |-> f, resolved |-> resolved,
                        got |-> Decode(f, codecStage = "ready", Held, resolved)]
    /\ UNCHANGED <<loaderGeneration, dictCache, inFlightDict, dictFetches, codecStage, preload>>

\* A request body; the server carries every dictionary.
PostBody ==
    /\ exchange = NoExchange
    /\ codecStage = "ready"
    /\ \E hint \in Dicts \cup {NoDict} :
        LET f == EncodeHttpBody(hint, Held)
        IN exchange' = [kind |-> "http", frame |-> f, got |-> DecodeHttpBody(f, TRUE, Dicts)]
    /\ UNCHANGED <<loaderGeneration, dictCache, inFlightDict, dictFetches, codecStage, preload>>

\* A bundle over a medium that may cut it short or run two together.
RelayBundle ==
    /\ exchange = NoExchange
    /\ \E body \in {0, 1, MeshBodyCap, MeshBodyCap + 1}, fit \in BOOLEAN, extra \in {-64, -1, 0, 1} :
        LET w == EncodeMeshBundle(body, fit)
        IN exchange' =
            IF w = Failed("MESH_BUNDLE_FIELD_INVALID") \/ w = Failed("MESH_BUNDLE_TOO_LARGE")
            THEN [kind |-> "mesh", body |-> body, extra |-> extra, got |-> w, signed |-> w]
            ELSE LET wire == [w.value EXCEPT !.length = @ + extra]
                 IN [kind |-> "mesh", body |-> body, extra |-> extra,
                     got |-> DecodeMeshBundle(wire), signed |-> MeshBundleSignedRange(wire)]
    /\ UNCHANGED <<loaderGeneration, dictCache, inFlightDict, dictFetches, codecStage, preload>>

WireNext ==
    \/ \E d \in Dicts : LoadDict(d)
    \/ \E d \in Dicts, g \in Generations : FetchSettles(d, g)
    \/ SetDictLoader
    \/ EnsureWireCodecReady
    \/ ZstdInit
    \/ PreloadDict
    \/ CodecReady
    \/ SendEnvelope
    \/ ReceiveEnvelope
    \/ PostBody
    \/ RelayBundle

-----------------------------------------------------------------------------
(* Properties *)

\* However loads, failures and loader swaps interleave, no dictionary in the
\* cache comes from a loader that has been replaced ("the in-flight result is
\* discarded rather than written into the new-loader cache").
NoStaleDictionary == \A d \in Dicts : dictCache[d] \in {NoBytes, loaderGeneration}

\* What every peer of a room advertises is enough to read what the room is
\* sent: each reader gets the envelope as it was, save that a sender it cannot
\* resolve is missing and never another, unless the frame needs a dictionary
\* which that reader failed to load.  (Ids are taken to be UUIDs: see README.)
NegotiatedIsReadable ==
    exchange.kind = "peer" /\ exchange.sent.id # "lenient" =>
        IF exchange.frame.dict \in Dicts \ exchange.reader.held
        THEN exchange.got = Failed("DICT_NOT_LOADED")
        ELSE exchange.got = Read(
                IF exchange.frame.magic = "0xCA" /\ ~exchange.resolved
                THEN [exchange.sent EXCEPT !.from = "missing"] ELSE exchange.sent)

\* A later build's kind is read as one unknown, never as one of this build's; a
\* body is read by the server as it was posted, its dictionary loaded here or
\* not; a bundle is read whole or refused, and what is signed is what is read.
ForeignFramesAreSafe ==
    /\ exchange.kind = "foreign" /\ "value" \in DOMAIN exchange.got =>
         exchange.got.value.kind = IF exchange.frame.body.kind = "new"
                                     THEN "chat-unknown-future" ELSE "known"
    /\ exchange.kind = "http" => exchange.got = Read("json")
    /\ exchange.kind = "mesh" /\ "value" \in DOMAIN exchange.got =>
        /\ exchange.extra = 0
        /\ exchange.got = Read(exchange.body)
        /\ exchange.signed = Read(MeshHeader + exchange.body)

\* The three of them: what is read is what was sent, whatever was loaded,
\* negotiated and swapped on the way.
FramesAreReadAsSent == NoStaleDictionary /\ NegotiatedIsReadable /\ ForeignFramesAreSafe
=============================================================================
