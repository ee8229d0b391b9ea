---------------------------- MODULE Introductions ----------------------------
(***************************************************************************)
(* packages/intro-protocol/src: what two introduced parties derive from    *)
(* each other's keys (intro-crypto.ts), compare with each other            *)
(* (intro-safety-number.ts) and send (intro-wire.ts), each from its own    *)
(* side and whichever accepts first.  The functions are stateless; their   *)
(* caller, an application's handshake over sealed payloads that may be     *)
(* repeated or late, is external and modelled by the order the functions'  *)
(* comments ask for.                                                       *)
(*                                                                         *)
(* Public keys are numbered in the order of their bytes, and a private key *)
(* has the number of its public key.                                       *)
(***************************************************************************)
EXTENDS Naturals, Primitives

CONSTANT Keys   \* the public keys there are

ASSUME KeysAssumption == Keys \subseteq Nat

Parties == {"one", "two"}
Peer(p) == IF p = "one" THEN "two" ELSE "one"

\* Transport properties: plain ones; an array with a hole, which JSON makes null
\* (z.unknown() lets it pass); a bigint, which JSON refuses though the schema does not.
PropsKinds == {"plain", "hole", "bigint"}
StableProps == {"plain"}

VARIABLES introducer,   \* the introducer's key
          side,         \* what each party has
          wire          \* the messages sent, which may arrive repeatedly

introVars == <<introducer, side, wire>>

\* Keys before they are derived and after they are wiped.
NoKey == <<"none">>

NewSide(longTerm, eph, props) ==
    [longTerm |-> longTerm, eph |-> eph, props |-> props, stage |-> "invited",
     peer |-> NoKey, sessionId |-> NoKey, master |-> NoKey, safetyNumber |-> NoKey]

IntroInit ==
    /\ introducer \in Keys
    /\ side \in [Parties -> {NewSide(l, e, props) : l \in Keys, e \in Keys, props \in PropsKinds}]
    /\ side["one"].longTerm # side["two"].longTerm
    /\ side["one"].eph # side["two"].eph
    /\ wire = {}

-----------------------------------------------------------------------------
(* intro-crypto.ts, intro-safety-number.ts *)

\* isAliceRole(), lexLess(): the lesser in the order of bytes.
IsAliceRole(local, peer) == local < peer
Ordered(a, b) == IF IsAliceRole(a, b) THEN <<a, b>> ELSE <<b, a>>

\* Mutant of DeriveSessionId: in the order the caller passed them.
SessionIdAsPassed(intro, alice, bob) == <<"SESSION_ID", intro, <<alice, bob>>>>

DeriveSessionId(intro, alice, bob) == <<"SESSION_ID", intro, Ordered(alice, bob)>>

DeriveMasterKey(ownEph, peerEph, aliceEph, bobEph) ==
    DeriveKey(SharedSecret(ownEph, PublicKey(peerEph)), "MASTER_KEY", <<aliceEph, bobEph>>)

DeriveMacKeys(master) ==
    [alice |-> HkdfExpand(master, "ALICE_MAC_KEY"), bob |-> HkdfExpand(master, "BOB_MAC_KEY")]

\* buildAuthTranscript(): two parties with one long-term key are refused.
BuildAuthTranscript(intro, own, peer) ==
    IF own.longTerm = peer.longTerm THEN Failure
    ELSE IF IsAliceRole(own.longTerm, peer.longTerm) THEN <<"transcript", intro, own, peer>>
    ELSE <<"transcript", intro, peer, own>>

ComputeAuthMac(key, sid, transcript) == Hmac(key, <<"AUTH_MAC", sid, transcript>>)
VerifyAuthMac(key, sid, transcript, mac) == mac = ComputeAuthMac(key, sid, transcript)

AuthNonce(key, sid, transcript) == Hmac(key, <<"AUTH_NONCE", sid, transcript>>)
ComputeAuthSig(longTerm, key, sid, transcript) ==
    Signature(longTerm, <<"AUTH_SIGN", AuthNonce(key, sid, transcript)>>)
VerifyAuthSig(longTerm, key, sid, transcript, sig) ==
    Verifies(sig, <<"AUTH_SIGN", AuthNonce(key, sid, transcript)>>, longTerm)

ComputeActivateMac(key, sid) == Hmac(key, <<"ACTIVATE_MAC", sid>>)
VerifyActivateMac(key, sid, mac) == mac = ComputeActivateMac(key, sid)

SealAead(master, label, sid, plain) == <<"xchacha", master, <<label, sid>>, plain>>
OpenAead(master, label, sid, env) ==
    IF <<env[2], env[3]>> = <<master, <<label, sid>>>> THEN env[4] ELSE Failure

DeriveSafetyNumber(alice, bob, master) == <<"safety number", Ordered(alice, bob), master>>

\* encodeIntroMessage(), decodeIntroMessage(): the properties as they come out.
OnWire(props) == IF props = "hole" THEN "null" ELSE props
Encodes(props) == props # "bigint"

-----------------------------------------------------------------------------
(* The caller *)

Announced(p) == [longTerm |-> side[p].longTerm, eph |-> side[p].eph, props |-> side[p].props]
Known(p) == side[p].peer
Transcript(p) == BuildAuthTranscript(introducer, Announced(p), Known(p))

MacKey(p, own) ==
    LET keys == DeriveMacKeys(side[p].master)
    IN IF IsAliceRole(side[p].longTerm, Known(p).longTerm) = own THEN keys.alice ELSE keys.bob

\* intro_accept_v1; a message that cannot be encoded ends the introduction.
Accept(p) ==
    /\ side[p].stage = "invited"
    /\ side' = [side EXCEPT ![p].stage = IF Encodes(side[p].props) THEN "accepted" ELSE "failed"]
    /\ wire' = IF Encodes(side[p].props)
               THEN wire \cup {[kind |-> "accept", from |-> p,
                                party |-> [Announced(p) EXCEPT !.props = OnWire(@)]]}
               ELSE wire
    /\ UNCHANGED introducer

\* The peer's acceptance: everything is derived, and the ephemeral key wiped.
AcceptArrives(p, m) ==
    /\ side[p].stage = "accepted"
    /\ m.kind = "accept" /\ m.from = Peer(p)
    /\ LET own == side[p]
           alice == IsAliceRole(own.longTerm, m.party.longTerm)
           master == IF alice THEN DeriveMasterKey(own.eph, m.party.eph, own.eph, m.party.eph)
                              ELSE DeriveMasterKey(own.eph, m.party.eph, m.party.eph, own.eph)
       IN side' = [side EXCEPT ![p] =
                     [@ EXCEPT !.stage = "keyed", !.peer = m.party, !.master = master,
                        !.sessionId = DeriveSessionId(introducer, own.eph, m.party.eph),
                        !.safetyNumber = DeriveSafetyNumber(own.longTerm, m.party.longTerm, master)]]
    /\ UNCHANGED <<introducer, wire>>

\* intro_auth_v1.
SendAuth(p) ==
    /\ side[p].stage = "keyed"
    /\ side' = [side EXCEPT ![p].stage = "authenticating"]
    /\ LET sid == side[p].sessionId
           key == MacKey(p, TRUE)
           proof == <<ComputeAuthMac(key, sid, Transcript(p)),
                      ComputeAuthSig(side[p].longTerm, key, sid, Transcript(p))>>
       IN wire' = wire \cup {[kind |-> "auth", from |-> p, sessionId |-> sid,
                              sealed |-> SealAead(side[p].master, "AUTH_MAC", sid, proof)]}
    /\ UNCHANGED introducer

\* verifySessionIdRedundancy(), then the AEAD.
PayloadOf(p, m, label) ==
    IF m.sessionId = side[p].sessionId
    THEN OpenAead(side[p].master, label, side[p].sessionId, m.sealed) ELSE Failure

AuthVerifies(p, proof) ==
    LET key == MacKey(p, FALSE)
        sid == side[p].sessionId
    IN /\ VerifyAuthMac(key, sid, Transcript(p), proof[1])
       /\ VerifyAuthSig(Known(p).longTerm, key, sid, Transcript(p), proof[2])

\* What verifies is answered with intro_activate_v1.
AuthArrives(p, m) ==
    /\ side[p].stage = "authenticating"
    /\ m.kind = "auth" /\ m.from = Peer(p)
    /\ LET proof == PayloadOf(p, m, "AUTH_MAC")
           sid == side[p].sessionId
           good == proof # Failure /\ AuthVerifies(p, proof)
       IN /\ side' = [side EXCEPT ![p].stage = IF good THEN "authenticated" ELSE "aborted"]
          /\ wire' = IF good
                     THEN wire \cup {[kind |-> "activate", from |-> p, sessionId |-> sid,
                                      sealed |-> SealAead(side[p].master, "ACTIVATE_MAC", sid,
                                                          ComputeActivateMac(MacKey(p, TRUE), sid))]}
                     ELSE wire
    /\ UNCHANGED introducer

\* The keys are wiped when the handshake is over.
ActivateArrives(p, m) ==
    /\ side[p].stage = "authenticated"
    /\ m.kind = "activate" /\ m.from = Peer(p)
    /\ LET mac == PayloadOf(p, m, "ACTIVATE_MAC")
           good == mac # Failure /\ VerifyActivateMac(MacKey(p, FALSE), side[p].sessionId, mac)
       IN side' = [side EXCEPT ![p] = [@ EXCEPT !.stage = IF good THEN "active" ELSE "aborted",
                                                !.master = NoKey]]
    /\ UNCHANGED <<introducer, wire>>

IntroNext ==
    \E p \in Parties :
        \/ Accept(p)
        \/ SendAuth(p)
        \/ \E m \in wire : AcceptArrives(p, m) \/ AuthArrives(p, m) \/ ActivateArrives(p, m)

-----------------------------------------------------------------------------
(* Properties *)

IntroStages == {"invited", "accepted", "failed", "keyed", "authenticating", "authenticated",
                "active", "aborted"}

IntroTypeOK ==
    LET masters == {DeriveMasterKey(k[1], k[2], k[3], k[4]) : k \in Keys \X Keys \X Keys \X Keys}
    IN
    /\ introducer \in Keys
    /\ side \in [Parties ->
            [longTerm : Keys, eph : Keys, props : PropsKinds, stage : IntroStages,
             peer : [longTerm : Keys, eph : Keys, props : PropsKinds \cup {"null"}] \cup {NoKey},
             sessionId : {DeriveSessionId(k[1], k[2], k[3]) : k \in Keys \X Keys \X Keys}
                            \cup {NoKey},
             master : masters \cup {NoKey},
             safetyNumber : {DeriveSafetyNumber(k[1], k[2], m) : k \in Keys \X Keys, m \in masters}
                            \cup {NoKey}]]

Derived(p) == side[p].stage \notin {"invited", "accepted", "failed"}

\* Whatever order the keys have and whoever comes first, both parties name the
\* session alike and read the same safety number to each other.
SidesAgree ==
    Derived("one") /\ Derived("two") =>
        /\ side["one"].sessionId = side["two"].sessionId
        /\ side["one"].safetyNumber = side["two"].safetyNumber

\* Two honest parties whose properties JSON leaves alone never take each other
\* for an impostor.
NoFalseAlarm ==
    (\A p \in Parties : side[p].props \in StableProps) => \A p \in Parties : side[p].stage # "aborted"

\* A party that has authenticated its peer sees the peer as it sees itself.
AuthenticatedIsShared ==
    \A p \in Parties :
        side[p].stage \in {"authenticated", "active"} => side[p].peer = Announced(Peer(p))

IntroductionAgrees == SidesAgree /\ NoFalseAlarm /\ AuthenticatedIsShared
=============================================================================
