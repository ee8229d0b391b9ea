----------------------------- MODULE MCSdkParts -----------------------------
(***************************************************************************)
(* The parts of the SDK, the wire codec, the URL contract and the crypto   *)
(* packages that touch neither each other's state nor the chain, the       *)
(* outbox and the MLS groups, for TLC.  A behaviour is one of any of them: *)
(* `part' names it, and the others keep their one initial state, so that   *)
(* no part is multiplied by another.                                       *)
(***************************************************************************)
EXTENDS CryptoMode, SdkRequests, BatchedWrites, HistoryExport, PushRegistration,
        WireFormats, RoomUrls, PairwiseSeal, Introductions

VARIABLE part

vars == <<part, cryptoVars, requestVars, batchVars, exportVars, pushVars, wireVars, urlVars,
          sealVars, introVars>>

Dictionaries == <<"ru", "fa">>

\* A code at random, one of letters and digits that weigh alike (10 and 27, 16
\* and 33), and one at both ends of the alphabet.
GroupPayloads ==
    {<<16, 10, 27, 33, 0, 9, 9, 0>>, <<21, 33, 16, 16, 1, 2, 3, 4>>, <<17, 10, 32, 15, 7, 7, 0, 5>>}

\* One introduction, for the behaviours that are not about introductions.
AnyIntroduction ==
    /\ introducer = 1
    /\ side["one"] = NewSide(1, 1, "plain")
    /\ side["two"] = NewSide(2, 2, "plain")

Init ==
    /\ part \in {"modes", "requests", "batches", "export", "push", "wire", "urls", "seal",
               "intro"}
    /\ CryptoInit  /\ (part # "modes" => e2ee = "none" /\ expected = Nothing)
    /\ RequestInit
    /\ BatchInit   /\ (part # "batches" => bulk.size = 0)
    /\ ExportInit  /\ (part # "export" => history = 0)
    /\ PushInit    /\ (part # "push" => permission = "default" /\ browser = NoEndpoint)
    /\ WireInit
    /\ UrlInit
    /\ SealInit
    /\ IntroInit   /\ (part # "intro" => AnyIntroduction)

Next ==
    \/ /\ part = "modes" /\ CryptoNext
       /\ UNCHANGED <<part, requestVars, batchVars, exportVars, pushVars, wireVars,
                     urlVars, sealVars, introVars>>
    \/ /\ part = "requests" /\ RequestNext
       /\ UNCHANGED <<part, cryptoVars, batchVars, exportVars, pushVars, wireVars,
                     urlVars, sealVars, introVars>>
    \/ /\ part = "batches" /\ BatchNext
       /\ UNCHANGED <<part, cryptoVars, requestVars, exportVars, pushVars, wireVars,
                     urlVars, sealVars, introVars>>
    \/ /\ part = "export" /\ ExportNext
       /\ UNCHANGED <<part, cryptoVars, requestVars, batchVars, pushVars, wireVars,
                     urlVars, sealVars, introVars>>
    \/ /\ part = "push" /\ PushNext
       /\ UNCHANGED <<part, cryptoVars, requestVars, batchVars, exportVars, wireVars,
                     urlVars, sealVars, introVars>>
    \/ /\ part = "wire" /\ WireNext
       /\ UNCHANGED <<part, cryptoVars, requestVars, batchVars, exportVars, pushVars,
                     urlVars, sealVars, introVars>>
    \/ /\ part = "urls" /\ UrlNext
       /\ UNCHANGED <<part, cryptoVars, requestVars, batchVars, exportVars, pushVars,
                     wireVars, sealVars, introVars>>
    \/ /\ part = "seal" /\ SealNext
       /\ UNCHANGED <<part, cryptoVars, requestVars, batchVars, exportVars, pushVars,
                     wireVars, urlVars, introVars>>
    \/ /\ part = "intro" /\ IntroNext
       /\ UNCHANGED <<part, cryptoVars, requestVars, batchVars, exportVars, pushVars,
                     wireVars, urlVars, sealVars>>

Spec == Init /\ [][Next]_vars /\ AppendFairness
=============================================================================
