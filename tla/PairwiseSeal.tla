---------------------------- MODULE PairwiseSeal ----------------------------
(***************************************************************************)
(* packages/crypto-primitives/src/pairwise-seal.ts and envelope.ts: sealed *)
(* messages between two devices over a channel that loses, repeats,        *)
(* reorders, misdirects and garbles envelopes.  sealMessage() binds every  *)
(* field; openMessage() checks them, awaits the cipher and only then marks *)
(* the message in the caller's replay window, so calls may overlap.        *)
(*                                                                         *)
(* The inner ciphertext of a decoded envelope is a view: a caller that     *)
(* uses its buffer again during the call changes it.  MaxSeals bounds the  *)
(* calls of sealMessage(), each with an ephemeral key of its own.          *)
(***************************************************************************)
EXTENDS Naturals, Sequences, Primitives

CONSTANTS Ids,      \* message ids
          Opens,    \* calls of openMessage()
          MaxSeals

Us == <<"device", "us">>
Devices == {Us, <<"device", "neighbour">>}
Friend == <<"contact", "friend">>
Contacts == {Friend, <<"contact", "acquaintance">>}   \* keys the caller may look up
FlagBits == {0, 1}

VARIABLES sealed,    \* what sealMessage() was called with, in order
          carried,   \* the envelopes the channel has
          opening,   \* the calls of openMessage()
          window     \* the caller's replay window

sealVars == <<sealed, carried, opening, window>>

NotCalled == [stage |-> "idle"]

SealInit ==
    /\ sealed = <<>>
    /\ carried = {}
    /\ opening = [c \in Opens |-> NotCalled]
    /\ window = {}

-----------------------------------------------------------------------------
(* sealMessage() *)

\* Mutant of BindingDigest: the flags are sent, but not bound.
DigestWithoutFlags(flags, id, addr, sender) == <<"digest", 2, 0, id, addr, sender>>

\* computeBindingDigest().
BindingDigest(flags, id, addr, sender) == <<"digest", 2, flags, id, addr, sender>>

PairwiseKey(shared, recipientPub, eph) ==
    DeriveKey(shared, <<recipientPub, eph>>, "oxp/pairwise/v1")
Aad(sender, digest) == <<"oxp/pw/v1", sender, digest>>

\* With the ephemeral pair and the nonce drawn for this call.
SealMessage(args, drawn) ==
    LET to == PublicKey(args.to)
        eph == PublicKey(drawn)
        digest == BindingDigest(args.flags, args.msgId, PeerIdTarget(to), args.from)
        key == PairwiseKey(SharedSecret(drawn, to), to, eph)
        inner == [eph |-> eph, nonce |-> <<"nonce", drawn>>,
                  body |-> AesGcmSeal(key, <<"nonce", drawn>>, Aad(args.from, digest), args.text)]
    IN [version |-> 2, flags |-> args.flags, msgId |-> args.msgId,
        recipientAddr |-> PeerIdTarget(to),
        senderSig |-> Signature(args.from, <<digest, inner>>),
        fits |-> TRUE, inner |-> inner]

\* An id may be sealed again: for another device, or by a sender that retries.
Seal(args) ==
    /\ Len(sealed) < MaxSeals
    /\ sealed' = Append(sealed, args)
    /\ carried' = carried \cup {SealMessage(args, <<"drawn", Len(sealed)>>)}
    /\ UNCHANGED <<opening, window>>

-----------------------------------------------------------------------------
(* The channel *)

\* What becomes of an envelope on its way: nothing, or one field is changed.
\* (`fits': the length field agrees with the bytes that came, 98 at least.)
Arrivals(e) ==
    {e}
    \cup {[e EXCEPT !.version = 1], [e EXCEPT !.fits = FALSE], [e EXCEPT !.senderSig = Garbage],
          [e EXCEPT !.inner.eph = Garbage], [e EXCEPT !.inner.body = Garbage]}
    \cup {[e EXCEPT !.flags = f] : f \in FlagBits}
    \cup {[e EXCEPT !.msgId = id] : id \in Ids}
    \cup {[e EXCEPT !.recipientAddr = PeerIdTarget(PublicKey(d))] : d \in Devices}

-----------------------------------------------------------------------------
(* openMessage() *)

\* decodeMessageEnvelope(): magic, version and exact length.
Decodes(e) == e.version = 2 /\ e.fits

\* Up to the cipher nothing is awaited; the message is not marked yet.
Accepts(e, expected) ==
    LET digest == BindingDigest(e.flags, e.msgId, e.recipientAddr, expected) IN
    /\ Decodes(e)
    /\ e.recipientAddr = PeerIdTarget(PublicKey(Us))
    /\ Verifies(e.senderSig, <<digest, e.inner>>, expected)
    /\ e.msgId \notin window
    /\ SharedSecret(Us, e.inner.eph) # Failure

OpenMessage(c, e, genuine, expected) ==
    /\ opening[c] = NotCalled
    /\ opening' = [opening EXCEPT ![c] =
            [stage |-> IF Accepts(e, expected) THEN "opening" ELSE "refused",
             envelope |-> e, expected |-> expected, text |-> Failure,
             genuine |-> genuine, seen |-> window, intact |-> TRUE]]
    /\ UNCHANGED <<sealed, carried, window>>

\* The caller uses its buffer again: what is still read of it is the inner
\* ciphertext, the other fields are copies.
BufferReused(c) ==
    /\ opening[c].stage = "opening"
    /\ opening' = [opening EXCEPT ![c].envelope.inner.body = Garbage, ![c].intact = FALSE]
    /\ UNCHANGED <<sealed, carried, window>>

Opened(e, expected) ==
    LET us == PublicKey(Us)
        digest == BindingDigest(e.flags, e.msgId, e.recipientAddr, expected)
    IN AesGcmOpen(PairwiseKey(SharedSecret(Us, e.inner.eph), us, e.inner.eph), e.inner.nonce,
                  Aad(expected, digest), e.inner.body)

\* aesGcmOpen() settles: only a message that opened is marked.
OpenSettles(c) ==
    LET call == opening[c]
        text == Opened(call.envelope, call.expected)
    IN /\ call.stage = "opening"
       /\ opening' = [opening EXCEPT ![c].stage = IF text = Failure THEN "refused" ELSE "opened",
                                     ![c].text = text]
       /\ window' = IF text = Failure THEN window ELSE window \cup {call.envelope.msgId}
       /\ UNCHANGED <<sealed, carried>>

SealNext ==
    \/ \E id \in Ids, to \in Devices, flags \in FlagBits :
           Seal([msgId |-> id, to |-> to, from |-> Friend, flags |-> flags, text |-> <<"text", id>>])
    \/ \E c \in Opens :
        \/ \E e \in carried, expected \in Contacts :
               \E arrived \in Arrivals(e) : OpenMessage(c, arrived, arrived = e, expected)
        \/ BufferReused(c)
        \/ OpenSettles(c)

-----------------------------------------------------------------------------
(* Properties *)

\* What is opened was sealed, by the contact it is taken to come from, for this
\* device, under that id and with those flags.
OpenedAsSealed ==
    \A c \in Opens : opening[c].stage = "opened" =>
        [msgId |-> opening[c].envelope.msgId, to |-> Us, from |-> opening[c].expected,
         flags |-> opening[c].envelope.flags, text |-> opening[c].text]
            \in {sealed[i] : i \in DOMAIN sealed}

\* A message arrives: an envelope that came as it left, to the right device and
\* under the right contact, is opened unless its message was opened before.  In
\* particular nothing but the message itself can take its place in the window.
NoFalseRefusal ==
    \A c \in Opens :
        LET call == opening[c] IN
        /\ call.stage = "refused" /\ call.genuine /\ call.intact
        /\ call.envelope.recipientAddr = PeerIdTarget(PublicKey(Us))
        /\ call.envelope.senderSig[2] = call.expected
        => \E d \in Opens : /\ opening[d].stage = "opened"
                            /\ opening[d].envelope.msgId = call.envelope.msgId

\* Two calls that opened the same message overlapped.
OpenedOnceInTurn ==
    \A c \in Opens :
        opening[c].stage = "opened" => opening[c].envelope.msgId \notin opening[c].seen

\* The three of them (openMessage()'s checks and their order).
MessagesOpenAsSealed == OpenedAsSealed /\ NoFalseRefusal /\ OpenedOnceInTurn
=============================================================================
