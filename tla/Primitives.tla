----------------------------- MODULE Primitives -----------------------------
(***************************************************************************)
(* packages/crypto-primitives/src as terms: what a key, a ciphertext, a    *)
(* signature is made of, and what opens or verifies it.  The curves, the   *)
(* ciphers and the hashes are external libraries and taken to be perfect:  *)
(* two terms are equal only if they were made from the same parts.         *)
(* A private key is named by its key pair; what a function throws is       *)
(* Failure.  kem.ts and xchacha.ts are called from neither of the packages *)
(* that are modelled, and left out.                                        *)
(***************************************************************************)
Failure == <<"thrown">>

\* Bytes that nobody made.
Garbage == <<"garbage">>

\* x25519.ts: a public key that is none, or of low order, is refused.
PublicKey(pair) == <<"public", pair>>
SharedSecret(pair, pub) == IF pub[1] = "public" THEN <<"shared", {pair, pub[2]}>> ELSE Failure

\* hkdf.ts: extract, then expand.
HkdfExtract(ikm, salt) == <<"prk", ikm, salt>>
HkdfExpand(prk, info) == <<"okm", prk, info>>
DeriveKey(ikm, salt, info) == HkdfExpand(HkdfExtract(ikm, salt), info)

\* peer-id.ts.
PeerIdTarget(pub) == <<"address", pub>>

\* aead.ts: the tag covers the nonce and the additional data.
AesGcmSeal(key, nonce, aad, plain) == <<"gcm", key, nonce, aad, plain>>
AesGcmOpen(key, nonce, aad, sealed) ==
    IF sealed[1] = "gcm" /\ <<sealed[2], sealed[3], sealed[4]>> = <<key, nonce, aad>>
    THEN sealed[5] ELSE Failure

\* Ed25519 and HMAC, as the packages use them.
Signature(pair, bytes) == <<"signature", pair, bytes>>
Verifies(sig, bytes, pair) == sig = Signature(pair, bytes)
Hmac(key, bytes) == <<"hmac", key, bytes>>
=============================================================================
