-------------------------- MODULE SdkPartsProofs ---------------------------
(***************************************************************************)
(* Proofs about the parts of packages/chat-sdk, packages/crypto and        *)
(* packages/wire-codec that the run sdk_parts checks, one section for      *)
(* each; they share no state.                                              *)
(***************************************************************************)
EXTENDS PushRegistration, BatchedWrites, HistoryExport, SdkRequests, CryptoMode,
        WireFormats, RoomUrls, PairwiseSeal, Introductions, SharedLemmas

-----------------------------------------------------------------------------
(* The one fact of the idealised primitives that the proofs below use. *)

\* x25519.ts: either end of an exchange computes the same secret.
LEMMA ExchangeAgrees ==
    ASSUME NEW a, NEW b
    PROVE  SharedSecret(a, PublicKey(b)) = SharedSecret(b, PublicKey(a))
BY DEF SharedSecret, PublicKey

-----------------------------------------------------------------------------
(***************************************************************************)
(* Proofs about PushRegistration, for any number of overlapping calls and  *)
(* of endpoints.                                                           *)
(***************************************************************************)

PushSpec == PushInit /\ [][PushNext]_pushVars

Early == {"idle", "keying", "finding", "creating", "reading"}
Late == {"posting", "deleting", "removing"}

\* A call has a subscription in hand from the step on that looks for one, and
\* keeps it; it keeps an error only from the server's answer on.
HandsMatchStages ==
    \A c \in PushCalls :
        /\ pushCall[c].stage \in Early => pushCall[c].held = NoEndpoint
        /\ pushCall[c].stage \in Late => pushCall[c].held # NoEndpoint
        /\ pushCall[c].fault => pushCall[c].stage \in {"removing", "refused", "failed"}

\* Endpoints are new: nobody holds one that the browser has yet to create.
EndpointsAreNew ==
    /\ browser # NoEndpoint => browser <= created
    /\ \A c \in PushCalls : pushCall[c].held # NoEndpoint => pushCall[c].held <= created

\* The call is over, and the browser has removed what it held.
Gone(c) == \/ pushCall[c].stage = "unsubscribed"
           \/ pushCall[c].stage = "failed" /\ pushCall[c].fault

BrowserForgot ==
    \A c \in PushCalls : pushCall[c].held # NoEndpoint /\ Gone(c) => browser # pushCall[c].held

\* The server's answer was good, and no other call can register it again.
Accepted(c) == \/ pushCall[c].stage = "unsubscribed"
               \/ pushCall[c].stage = "removing" /\ ~pushCall[c].fault
Alone(c) == \A d \in PushCalls \ {c} : pushCall[d].held # pushCall[c].held

ServerForgot ==
    \A c \in PushCalls :
        pushCall[c].held # NoEndpoint /\ Accepted(c) /\ Alone(c) => pushCall[c].held \notin devices

PushInv == PushTypeOK /\ HandsMatchStages /\ EndpointsAreNew /\ BrowserForgot /\ ServerForgot

LEMMA PushInvImplies == PushInv => NoLeakedSubscription
BY DEF PushInv, BrowserForgot, ServerForgot, Gone, Accepted, Alone, NoLeakedSubscription

LEMMA PushInitInv == PushInit => PushInv
<1> SUFFICES ASSUME PushInit PROVE PushInv
  OBVIOUS
<1>1. \A c \in PushCalls : pushCall[c] = [stage |-> "idle", held |-> NoEndpoint, fault |-> FALSE]
  BY DEF PushInit
<1>2. PushTypeOK
  <2>1. pushCall \in [PushCalls -> [stage : PushStage, held : Endpoints \cup {NoEndpoint},
                                    fault : BOOLEAN]]
    BY DEF PushInit, PushStage
  <2>2. browser \in Endpoints \cup {NoEndpoint} /\ created \in 0..MaxEndpoint
    BY EndpointAssumption DEF EndpointAssumption, PushInit, Endpoints
  <2>3. devices \subseteq Endpoints
    BY <2>2 DEF PushInit
  <2> QED
    BY <2>1, <2>2, <2>3 DEF PushInit, PushTypeOK
<1>3. EndpointsAreNew
  BY <1>1, EndpointAssumption DEF EndpointAssumption, PushInit, EndpointsAreNew
<1> QED
  BY <1>1, <1>2, <1>3 DEF PushInv, HandsMatchStages, BrowserForgot, ServerForgot, Gone, Accepted,
                          Early, Late

\* What a step of one call does to the calls: the others stay, and its own hand
\* stays or is filled.
LEMMA OnePushCall ==
    ASSUME PushInv, NEW c \in PushCalls, NEW s \in PushStage,
           NEW h \in Endpoints \cup {NoEndpoint}, NEW f \in BOOLEAN,
           pushCall' = [pushCall EXCEPT ![c] = [stage |-> s, held |-> h, fault |-> f]]
    PROVE  /\ pushCall' \in [PushCalls -> [stage : PushStage, held : Endpoints \cup {NoEndpoint},
                                           fault : BOOLEAN]]
           /\ pushCall'[c].stage = s /\ pushCall'[c].held = h /\ pushCall'[c].fault = f
           /\ \A d \in PushCalls : d # c => pushCall'[d] = pushCall[d]
BY DEF PushInv, PushTypeOK

\* A call that reaches another stage keeps its hand and its error.
LEMMA ReachedCall ==
    ASSUME PushInv, NEW c \in PushCalls, NEW s, Reaches(c, s)
    PROVE  pushCall' = [pushCall EXCEPT ![c] = [stage |-> s, held |-> pushCall[c].held,
                                                fault |-> pushCall[c].fault]]
<1> DEFINE e == pushCall[c]
<1>1. e \in [stage : PushStage, held : Endpoints \cup {NoEndpoint}, fault : BOOLEAN]
  BY DEF PushInv, PushTypeOK
<1> HIDE DEF e
<1>2. [e EXCEPT !.stage = s] = [stage |-> s, held |-> e.held, fault |-> e.fault]
  BY <1>1
<1>3. pushCall' = [pushCall EXCEPT ![c] = [e EXCEPT !.stage = s]]
  BY Zenon DEF Reaches, e
<1> QED
  BY <1>2, <1>3 DEF e

\* A step of one call that has nothing to remove, in whatever stage.
LEMMA QuietStep ==
    ASSUME PushInv, NEW c \in PushCalls, NEW s \in PushStage,
           NEW h \in Endpoints \cup {NoEndpoint},
           s \in {"unsubscribed", "removing"} => h = NoEndpoint,
           h = pushCall[c].held \/ (pushCall[c].held = NoEndpoint /\ h = browser),
           s \in Early => h = NoEndpoint,
           s \in Late => h # NoEndpoint,
           pushCall[c].fault => s = "refused",
           pushCall' = [pushCall EXCEPT ![c] = [stage |-> s, held |-> h,
                                                fault |-> pushCall[c].fault]],
           vapid' \in BOOLEAN,
           UNCHANGED <<permission, browser, created, devices>>
    PROVE  PushInv'
<1>1. /\ pushCall' \in [PushCalls -> [stage : PushStage, held : Endpoints \cup {NoEndpoint},
                                      fault : BOOLEAN]]
      /\ pushCall'[c].stage = s /\ pushCall'[c].held = h
      /\ pushCall'[c].fault = pushCall[c].fault
      /\ \A d \in PushCalls : d # c => pushCall'[d] = pushCall[d]
  <2>1. pushCall[c].fault \in BOOLEAN
    BY DEF PushInv, PushTypeOK
  <2> QED
    BY <2>1, OnePushCall
<1>2. PushTypeOK'
  BY <1>1 DEF PushInv, PushTypeOK
<1>3. HandsMatchStages'
  BY <1>1 DEF PushInv, HandsMatchStages
<1>4. EndpointsAreNew'
  BY <1>1 DEF PushInv, EndpointsAreNew
<1>5. BrowserForgot'
  BY <1>1 DEF PushInv, BrowserForgot, Gone
<1>6. ServerForgot'
  <2> SUFFICES ASSUME NEW d \in PushCalls, pushCall'[d].held # NoEndpoint, Accepted(d)', Alone(d)'
               PROVE  pushCall'[d].held \notin devices
    BY DEF ServerForgot
  <2>1. d # c /\ pushCall'[d] = pushCall[d]
    BY <1>1 DEF Accepted
  <2>2. Alone(d)
    BY <1>1, <2>1 DEF Alone
  <2> QED
    BY <2>1, <2>2 DEF PushInv, ServerForgot, Accepted
<1> QED
  BY <1>2, <1>3, <1>4, <1>5, <1>6 DEF PushInv

\* The server is asked to forget, and the call goes on to the browser.
LEMMA DeleteInv ==
    ASSUME PushInv, NEW c \in PushCalls, DeleteSettles(c)
    PROVE  PushInv'
<1>1. PICK forgot \in BOOLEAN, fault \in BOOLEAN :
        /\ ~fault => forgot
        /\ devices' = IF forgot THEN devices \ {pushCall[c].held} ELSE devices
        /\ pushCall' = [pushCall EXCEPT ![c].stage = "removing", ![c].fault = fault]
  BY Zenon DEF DeleteSettles
<1>2. /\ pushCall[c].stage = "deleting"
      /\ UNCHANGED <<permission, vapid, browser, created>>
      /\ pushCall[c].held \in Endpoints \cup {NoEndpoint} /\ pushCall[c].held # NoEndpoint
  BY DEF DeleteSettles, PushInv, PushTypeOK, HandsMatchStages, Late
<1>3. /\ pushCall' \in [PushCalls -> [stage : PushStage, held : Endpoints \cup {NoEndpoint},
                                      fault : BOOLEAN]]
      /\ pushCall'[c].stage = "removing" /\ pushCall'[c].held = pushCall[c].held
      /\ pushCall'[c].fault = fault
      /\ \A d \in PushCalls : d # c => pushCall'[d] = pushCall[d]
  BY <1>1 DEF PushInv, PushTypeOK, PushStage
<1>4. PushTypeOK'
  BY <1>1, <1>2, <1>3 DEF PushInv, PushTypeOK
<1>5. HandsMatchStages'
  BY <1>2, <1>3 DEF PushInv, HandsMatchStages, Early, Late
<1>6. EndpointsAreNew' /\ BrowserForgot'
  BY <1>2, <1>3 DEF PushInv, EndpointsAreNew, BrowserForgot, Gone
<1>7. ServerForgot'
  <2> SUFFICES ASSUME NEW d \in PushCalls, pushCall'[d].held # NoEndpoint, Accepted(d)', Alone(d)'
               PROVE  pushCall'[d].held \notin devices'
    BY DEF ServerForgot
  <2>1. CASE d = c
    BY <1>1, <1>3, <2>1 DEF Accepted
  <2>2. CASE d # c
    <3>1. pushCall'[d] = pushCall[d] /\ Alone(d) /\ Accepted(d)
      BY <1>3, <2>2 DEF Alone, Accepted
    <3> QED
      BY <1>1, <3>1 DEF PushInv, ServerForgot
  <2> QED
    BY <2>1, <2>2
<1> QED
  BY <1>4, <1>5, <1>6, <1>7 DEF PushInv

\* The server registers what a call holds; the call is not one that is over.
LEMMA RegisteredInv ==
    ASSUME PushInv, NEW c \in PushCalls, Registered(c)
    PROVE  PushInv'
<1>1. PICK s \in {"subscribed", "failed"} :
        pushCall' = [pushCall EXCEPT ![c] = [stage |-> s, held |-> pushCall[c].held,
                                             fault |-> pushCall[c].fault]]
  BY ReachedCall DEF Registered
<1>2. /\ pushCall[c].stage = "posting" /\ devices' = devices \cup {pushCall[c].held}
      /\ UNCHANGED <<permission, vapid, browser, created>>
      /\ pushCall[c].held \in Endpoints /\ pushCall[c].held # NoEndpoint
      /\ pushCall[c].fault = FALSE
  BY DEF Registered, PushInv, PushTypeOK, HandsMatchStages, Late
<1>3. /\ pushCall' \in [PushCalls -> [stage : PushStage, held : Endpoints \cup {NoEndpoint},
                                      fault : BOOLEAN]]
      /\ pushCall'[c].stage = s /\ pushCall'[c].held = pushCall[c].held
      /\ pushCall'[c].fault = FALSE
      /\ \A d \in PushCalls : d # c => pushCall'[d] = pushCall[d]
  BY <1>1, <1>2, OnePushCall, ZenonT(30) DEF PushStage
<1>4. PushTypeOK'
  BY <1>2, <1>3 DEF PushInv, PushTypeOK
<1>5. HandsMatchStages'
  BY <1>2, <1>3 DEF PushInv, HandsMatchStages, Early, Late
<1>6. EndpointsAreNew' /\ BrowserForgot'
  BY <1>2, <1>3 DEF PushInv, EndpointsAreNew, BrowserForgot, Gone
<1>7. ServerForgot'
  <2> SUFFICES ASSUME NEW d \in PushCalls, pushCall'[d].held # NoEndpoint, Accepted(d)', Alone(d)'
               PROVE  pushCall'[d].held \notin devices'
    BY DEF ServerForgot
  <2>1. d # c /\ pushCall'[d] = pushCall[d]
    BY <1>3 DEF Accepted
  <2>2. Alone(d) /\ Accepted(d) /\ pushCall[d].held # pushCall[c].held
    BY <1>3, <2>1 DEF Alone, Accepted
  <2> QED
    BY <1>2, <2>1, <2>2 DEF PushInv, ServerForgot
<1> QED
  BY <1>4, <1>5, <1>6, <1>7 DEF PushInv

\* Only the browser changes, and to nothing or to something new.
LEMMA BrowserStep ==
    ASSUME PushInv,
           permission' \in {"default", "granted", "denied"},
           \/ browser' \in {browser, NoEndpoint} /\ created' = created
           \/ created < MaxEndpoint /\ created' = created + 1 /\ browser' = created + 1,
           UNCHANGED <<vapid, devices, pushCall>>
    PROVE  PushInv'
<1>1. /\ created' \in 0..MaxEndpoint /\ created <= created' /\ created \in Nat
      /\ browser' \in Endpoints \cup {NoEndpoint}
      /\ browser' # NoEndpoint => browser' <= created'
  BY EndpointAssumption DEF EndpointAssumption, PushInv, PushTypeOK, EndpointsAreNew, Endpoints
<1>2. PushTypeOK'
  BY <1>1 DEF PushInv, PushTypeOK
<1>3. \A c \in PushCalls : pushCall[c].held \in Endpoints \cup {NoEndpoint}
  BY DEF PushInv, PushTypeOK
<1>4. EndpointsAreNew'
  BY <1>1, <1>3 DEF PushInv, EndpointsAreNew, Endpoints
<1>5. BrowserForgot'
  BY <1>1, <1>3 DEF PushInv, EndpointsAreNew, BrowserForgot, Gone, Endpoints
<1>6. HandsMatchStages' /\ ServerForgot'
  BY DEF PushInv, HandsMatchStages, ServerForgot, Accepted, Alone
<1> QED
  BY <1>2, <1>4, <1>5, <1>6 DEF PushInv

\* The browser creates a subscription for a call, which takes it in hand.
LEMMA CreatedInv ==
    ASSUME PushInv, NEW c \in PushCalls, Created(c)
    PROVE  PushInv'
<1>1. /\ pushCall[c].stage = "creating" /\ pushCall[c].held = NoEndpoint
      /\ pushCall[c].fault = FALSE /\ pushCall[c] \in [stage : PushStage,
            held : Endpoints \cup {NoEndpoint}, fault : BOOLEAN]
  BY DEF Created, PushInv, PushTypeOK, HandsMatchStages, Early
<1>2. CASE browser # NoEndpoint
  <2>1. /\ pushCall' = [pushCall EXCEPT ![c] = [stage |-> "posting", held |-> browser,
                                               fault |-> pushCall[c].fault]]
        /\ vapid' \in BOOLEAN
        /\ browser \in Endpoints \cup {NoEndpoint}
        /\ UNCHANGED <<permission, browser, created, devices>>
    BY <1>1, <1>2 DEF Created, Holds, PushInv, PushTypeOK
  <2> QED
    BY <1>1, <1>2, <2>1, QuietStep DEF PushStage, Early
<1>3. CASE browser = NoEndpoint
  <2>1. /\ pushCall' = [pushCall EXCEPT ![c] = [stage |-> "posting", held |-> created + 1,
                                               fault |-> FALSE]]
        /\ created < MaxEndpoint /\ created' = created + 1 /\ browser' = created + 1
        /\ UNCHANGED <<permission, vapid, devices>>
    BY <1>1, <1>3 DEF Created, Holds, PushInv, PushTypeOK
  <2>2. /\ created \in Nat /\ created + 1 \in Endpoints /\ created + 1 # NoEndpoint
        /\ created + 1 \in 0..MaxEndpoint
    BY <2>1, EndpointAssumption DEF EndpointAssumption, PushInv, PushTypeOK, Endpoints
  <2>3. /\ pushCall' \in [PushCalls -> [stage : PushStage, held : Endpoints \cup {NoEndpoint},
                                        fault : BOOLEAN]]
        /\ pushCall'[c].stage = "posting" /\ pushCall'[c].held = created + 1
        /\ pushCall'[c].fault = FALSE
        /\ \A d \in PushCalls : d # c => pushCall'[d] = pushCall[d]
    BY <2>1, <2>2, OnePushCall DEF PushStage
  <2>4. \A d \in PushCalls : pushCall[d].held \in Endpoints \cup {NoEndpoint}
    BY DEF PushInv, PushTypeOK
  <2>5. PushTypeOK'
    BY <2>1, <2>2, <2>3 DEF PushInv, PushTypeOK
  <2>6. HandsMatchStages'
    BY <2>2, <2>3 DEF PushInv, HandsMatchStages, Early, Late
  <2>7. EndpointsAreNew'
    BY <2>1, <2>2, <2>3, <2>4 DEF PushInv, EndpointsAreNew, Endpoints
  <2>8. BrowserForgot'
    BY <2>1, <2>2, <2>3, <2>4 DEF PushInv, EndpointsAreNew, BrowserForgot, Gone, Endpoints
  <2>9. ServerForgot'
    <3> SUFFICES ASSUME NEW d \in PushCalls, pushCall'[d].held # NoEndpoint, Accepted(d)', Alone(d)'
                 PROVE  pushCall'[d].held \notin devices'
      BY DEF ServerForgot
    <3>1. d # c /\ pushCall'[d] = pushCall[d]
      BY <2>3 DEF Accepted
    <3>2. Alone(d) /\ Accepted(d)
      BY <1>1, <2>3, <3>1 DEF Alone, Accepted
    <3> QED
      BY <2>1, <3>1, <3>2 DEF PushInv, ServerForgot
  <2> QED
    BY <2>5, <2>6, <2>7, <2>8, <2>9 DEF PushInv
<1> QED
  BY <1>2, <1>3

\* The browser removes what the call holds, if it still has it.
LEMMA RemovedInv ==
    ASSUME PushInv, NEW c \in PushCalls, Removed(c)
    PROVE  PushInv'
<1> DEFINE s == IF pushCall[c].fault THEN "failed" ELSE "unsubscribed"
<1>1. /\ pushCall[c].stage = "removing" /\ pushCall[c].held # NoEndpoint
      /\ pushCall[c].held \in Endpoints \cup {NoEndpoint} /\ pushCall[c].fault \in BOOLEAN
      /\ browser' = (IF browser = pushCall[c].held THEN NoEndpoint ELSE browser)
      /\ UNCHANGED <<permission, vapid, created, devices>>
  BY DEF Removed, PushInv, PushTypeOK, HandsMatchStages, Late
<1>2. pushCall' = [pushCall EXCEPT ![c] = [stage |-> s, held |-> pushCall[c].held,
                                           fault |-> pushCall[c].fault]]
  BY ReachedCall DEF Removed
<1>3. s \in PushStage /\ s \notin Early \cup Late
  BY DEF PushStage, Early, Late
<1>4. /\ pushCall' \in [PushCalls -> [stage : PushStage, held : Endpoints \cup {NoEndpoint},
                                      fault : BOOLEAN]]
      /\ pushCall'[c].stage = s /\ pushCall'[c].held = pushCall[c].held
      /\ pushCall'[c].fault = pushCall[c].fault
      /\ \A d \in PushCalls : d # c => pushCall'[d] = pushCall[d]
  BY <1>1, <1>2, <1>3, OnePushCall, ZenonT(30)
<1>5. PushTypeOK' /\ EndpointsAreNew'
  BY <1>1, <1>4 DEF PushInv, PushTypeOK, EndpointsAreNew
<1>6. HandsMatchStages'
  BY <1>1, <1>3, <1>4 DEF PushInv, HandsMatchStages
<1>7. BrowserForgot'
  BY <1>1, <1>4 DEF PushInv, BrowserForgot, Gone
<1>8. ServerForgot'
  <2> SUFFICES ASSUME NEW d \in PushCalls, pushCall'[d].held # NoEndpoint, Accepted(d)', Alone(d)'
               PROVE  pushCall'[d].held \notin devices'
    BY DEF ServerForgot
  <2>1. Alone(d) /\ Accepted(d) /\ pushCall'[d].held = pushCall[d].held
    BY <1>1, <1>4 DEF Alone, Accepted
  <2> QED
    BY <1>1, <2>1 DEF PushInv, ServerForgot
<1> QED
  BY <1>5, <1>6, <1>7, <1>8 DEF PushInv

LEMMA PushNextInv == PushInv /\ [PushNext]_pushVars => PushInv'
<1> SUFFICES ASSUME PushInv, [PushNext]_pushVars PROVE PushInv'
  OBVIOUS
<1>1. ASSUME NEW c \in PushCalls
      PROVE  /\ pushCall[c] \in [stage : PushStage, held : Endpoints \cup {NoEndpoint},
                                 fault : BOOLEAN]
             /\ browser \in Endpoints \cup {NoEndpoint} /\ vapid \in BOOLEAN
             /\ pushCall[c].stage \in Early => pushCall[c].held = NoEndpoint
             /\ pushCall[c].stage \in Late => pushCall[c].held # NoEndpoint
             /\ pushCall[c].stage \in Early \cup {"posting"} => ~pushCall[c].fault
             /\ pushCall \in [PushCalls -> [stage : PushStage, held : Endpoints \cup {NoEndpoint},
                                            fault : BOOLEAN]]
  BY DEF PushInv, PushTypeOK, HandsMatchStages, Early, Late
<1>2. ASSUME NEW c \in PushCalls, NEW s \in PushStage, Reaches(c, s),
             s \in Early \cup {"unsubscribed", "removing"} => pushCall[c].held = NoEndpoint,
             s \in Late => pushCall[c].held # NoEndpoint,
             pushCall[c].fault => s = "refused",
             vapid' \in BOOLEAN, UNCHANGED <<permission, browser, created, devices>>
      PROVE  PushInv'
  <2>1. pushCall' = [pushCall EXCEPT ![c] = [stage |-> s, held |-> pushCall[c].held,
                                             fault |-> pushCall[c].fault]]
    BY <1>2, ReachedCall
  <2>2. pushCall[c].held \in Endpoints \cup {NoEndpoint}
    BY <1>1
  <2> QED
    BY <1>2, <2>1, <2>2, QuietStep
<1>3. ASSUME NEW c \in PushCalls, NEW s \in PushStage, Holds(c, s, browser),
             s \in Late, s # "removing", browser # NoEndpoint,
             pushCall[c].held = NoEndpoint, ~pushCall[c].fault,
             UNCHANGED <<permission, vapid, browser, created, devices>>
      PROVE  PushInv'
  <2>1. pushCall' = [pushCall EXCEPT ![c] = [stage |-> s, held |-> browser,
                                             fault |-> pushCall[c].fault]]
    BY <1>1, <1>3 DEF Holds
  <2>2. browser \in Endpoints \cup {NoEndpoint} /\ vapid' \in BOOLEAN
    BY <1>1, <1>3
  <2>3. s \notin {"unsubscribed", "removing"} /\ s \notin Early
    BY <1>3 DEF Early, Late
  <2> QED
    BY <1>3, <2>1, <2>2, <2>3, QuietStep
<1>4. ASSUME NEW c \in PushCalls, Subscribe(c) PROVE PushInv'
  BY <1>1, <1>2, <1>4 DEF Subscribe, PushStage, Early, Late
<1>5. ASSUME NEW c \in PushCalls, KeyArrives(c) PROVE PushInv'
  BY <1>1, <1>2, <1>5 DEF KeyArrives, PushStage, Early, Late
<1>6. ASSUME NEW c \in PushCalls, Found(c) PROVE PushInv'
  <2>1. CASE browser # NoEndpoint
    BY <1>1, <1>3, <1>6, <2>1 DEF Found, PushStage, Early, Late
  <2>2. CASE browser = NoEndpoint
    BY <1>1, <1>2, <1>6, <2>2 DEF Found, PushStage, Early, Late
  <2> QED
    BY <2>1, <2>2
<1>7. ASSUME NEW c \in PushCalls, SubscribeFails(c) PROVE PushInv'
  BY <1>1, <1>2, <1>7 DEF SubscribeFails, PushStage, Early, Late
<1>8. ASSUME NEW c \in PushCalls, Unsubscribe(c) PROVE PushInv'
  BY <1>1, <1>2, <1>8 DEF Unsubscribe, PushStage, Early, Late
<1>9. ASSUME NEW c \in PushCalls, ReadSubscription(c) PROVE PushInv'
  <2>1. CASE browser # NoEndpoint
    BY <1>1, <1>3, <1>9, <2>1 DEF ReadSubscription, PushStage, Early, Late
  <2>2. CASE browser = NoEndpoint
    BY <1>1, <1>2, <1>9, <2>2 DEF ReadSubscription, PushStage, Early, Late
  <2> QED
    BY <2>1, <2>2
<1>10. ASSUME NEW c \in PushCalls, RemovalRefused(c) PROVE PushInv'
  BY <1>1, <1>2, <1>10 DEF RemovalRefused, PushStage, Early, Late
<1>11. CASE PermissionChanges
  BY <1>11, BrowserStep DEF PermissionChanges
<1>12. CASE BrowserRotates
  <2>1. permission \in {"default", "granted", "denied"}
    BY DEF PushInv, PushTypeOK
  <2> QED
    BY <1>12, <2>1, BrowserStep DEF BrowserRotates
<1>13. CASE UNCHANGED pushVars
  BY <1>13 DEF pushVars, PushInv, PushTypeOK, HandsMatchStages, EndpointsAreNew, BrowserForgot,
              ServerForgot, Gone, Accepted, Alone
<1> QED
  BY <1>4, <1>5, <1>6, <1>7, <1>8, <1>9, <1>10, <1>11, <1>12, <1>13, CreatedInv, RegisteredInv,
     DeleteInv, RemovedInv DEF PushNext

LEMMA AlwaysPushInv == PushSpec => []PushInv
BY PushInitInv, PushNextInv, PTL DEF PushSpec

\* The state of the page keeps its types (push.ts, the module's variables).
THEOREM PushTypeCorrect == PushSpec => []PushTypeOK
BY AlwaysPushInv, PTL DEF PushInv

\* Whatever calls overlap and however the server, the browser and the user
\* interfere, unsubscribe() leaves no subscription behind (unsubscribe()'s
\* order: the server first, its error kept, then the browser).
THEOREM NothingLeaks == PushSpec => []NoLeakedSubscription
BY AlwaysPushInv, PushInvImplies, PTL

-----------------------------------------------------------------------------
(***************************************************************************)
(* BatchedWrites, for batches and page sizes of any size: the state of an  *)
(* append, and what a bulk call has confirmed when it stops.               *)
(***************************************************************************)

BatchSpec == BatchInit /\ [][BatchNext]_batchVars

\* A backoff is never the last attempt's, and only attempts that began are under way.
AppendInv ==
    /\ append.stage \in {"inFlight", "sleeping"} => append.attempt > 0
    /\ append.stage = "sleeping" => append.attempt < MaxAttempts

Bulk == [stage : {"idle", "inFlight", "done", "failed", "malformed", "invalid"},
         size : 0..MaxUsers, offset : Nat, confirmed : SUBSET Users(MaxUsers),
         failedChunk : SUBSET Users(MaxUsers), remaining : SUBSET Users(MaxUsers)]

UpTo(n) == {u \in Users(bulk.size) : u <= n}

\* The chunks before the one on its way are confirmed, and nothing behind it
\* has reached the server, not even when its answer is lost.
BulkInv ==
    /\ bulk.stage = "idle" => bulk.offset = 0
    /\ bulk.stage = "inFlight" => bulk.offset < bulk.size
    /\ bulk.stage \in {"idle", "inFlight", "failed", "malformed"} =>
            bulk.confirmed = UpTo(bulk.offset)
    /\ bulk.stage \in {"idle", "inFlight", "malformed"} => bulk.failedChunk = {}
    /\ bulk.stage = "failed" =>
            /\ bulk.offset < bulk.size
            /\ bulk.failedChunk = Slice(bulk.offset)
            /\ bulk.remaining = Rest(bulk.offset)
    /\ bulk.confirmed \subseteq enrolled
    /\ bulk.stage # "done" => enrolled \subseteq UpTo(bulk.offset + Chunk)

BatchInv == BatchTypeOK /\ bulk \in Bulk /\ AppendInv /\ BulkInv

LEMMA BatchInitInv == BatchInit => BatchInv
<1> SUFFICES ASSUME BatchInit PROVE BatchInv
  OBVIOUS
<1>1. PICK n \in 0..MaxUsers :
        bulk = [stage |-> "idle", size |-> n, offset |-> 0, confirmed |-> {},
                failedChunk |-> {}, remaining |-> {}]
  BY DEF BatchInit
<1>2. bulk \in Bulk
  BY <1>1 DEF Bulk
<1>3. BulkInv
  BY <1>1 DEF BulkInv, UpTo, Users, BatchInit
<1>4. BatchTypeOK
  <2>1. 0 \in 0..MaxAttempts
    BY BatchAssumption DEF BatchAssumption
  <2> QED
    BY <1>1, <2>1 DEF BatchTypeOK, BatchInit
<1>5. AppendInv
  BY DEF AppendInv, BatchInit
<1> QED
  BY <1>2, <1>3, <1>4, <1>5 DEF BatchInv

LEMMA SettledAppend ==
    ASSUME BatchTypeOK, NEW how \in {"ok", "permanent", "gaveUp", "rateLimited", "aborted"},
           SettleAppend(how)
    PROVE  /\ append' \in [stage : {"settled"}, attempt : 0..MaxAttempts,
                           ending : {"none", "ok", "permanent", "gaveUp", "rateLimited", "aborted"}]
BY DEF BatchTypeOK, SettleAppend

\* A failure that may pass leaves the call settled, or asleep before its last attempt.
LEMMA TransientInv ==
    ASSUME BatchTypeOK, AppendInv, append.stage = "inFlight", NEW tooLong \in BOOLEAN,
           Transient(tooLong), UNCHANGED <<cancelled, stored, enrolled, bulk>>,
           underway' \subseteq underway
    PROVE  BatchTypeOK' /\ AppendInv'
<1>1. CASE \E how \in {"gaveUp", "rateLimited", "aborted"} : SettleAppend(how)
  BY <1>1, SettledAppend DEF BatchTypeOK, AppendInv
<1>2. CASE append.attempt # MaxAttempts /\ append' = [append EXCEPT !.stage = "sleeping"]
  BY <1>2, BatchAssumption DEF BatchTypeOK, AppendInv, BatchAssumption
<1> QED
  BY <1>1, <1>2 DEF Transient

LEMMA AttemptInv ==
    ASSUME BatchTypeOK, NEW n \in 1..MaxAttempts, Attempt(n),
           UNCHANGED <<cancelled, stored, enrolled, bulk>>
    PROVE  BatchTypeOK' /\ AppendInv'
<1>1. ASSUME NEW e \in [stage : {"idle", "inFlight", "sleeping", "settled"},
                        attempt : 0..MaxAttempts,
                        ending : {"none", "ok", "permanent", "gaveUp", "rateLimited", "aborted"}]
      PROVE  /\ [e EXCEPT !.stage = "settled", !.ending = "aborted"] \in
                    [stage : {"settled"}, attempt : 0..MaxAttempts, ending : {"aborted"}]
             /\ [e EXCEPT !.stage = "inFlight", !.attempt = n] \in
                    [stage : {"inFlight"}, attempt : {n},
                     ending : {"none", "ok", "permanent", "gaveUp", "rateLimited", "aborted"}]
  BY BatchAssumption DEF BatchAssumption
<1>2. CASE cancelled
  BY <1>1, <1>2 DEF Attempt, BatchTypeOK, AppendInv
<1>3. CASE ~cancelled
  <2>1. append' = [append EXCEPT !.stage = "inFlight", !.attempt = n] /\ underway' = underway \cup {n}
    BY <1>3 DEF Attempt
  <2>2. append' \in [stage : {"inFlight"}, attempt : {n},
                     ending : {"none", "ok", "permanent", "gaveUp", "rateLimited", "aborted"}]
    BY <1>1, <2>1 DEF BatchTypeOK
  <2>3. n \in 0..MaxAttempts /\ n > 0
    BY BatchAssumption DEF BatchAssumption
  <2> QED
    BY <2>1, <2>2, <2>3 DEF BatchTypeOK, AppendInv
<1> QED
  BY <1>2, <1>3

LEMMA AppendStepInv ==
    ASSUME BatchInv,
           \/ StartAppend
           \/ \E n \in 1..MaxAttempts : ServerStores(n)
           \/ \E kind \in {"ok", "serverError", "limited", "limitedForLong", "refused"} :
                AnswerAppend(kind)
           \/ AppendTimesOut \/ AbortSeen \/ BackoffOver \/ CancelAppend
    PROVE  BatchInv'
<1>0. BatchTypeOK /\ AppendInv
  BY DEF BatchInv
<1>1. UNCHANGED bulkVars
  BY DEF StartAppend, ServerStores, AnswerAppend, AppendTimesOut, AbortSeen, BackoffOver,
         CancelAppend
<1>2. UNCHANGED <<enrolled, bulk>>
  BY <1>1 DEF bulkVars
<1>3. BatchTypeOK' /\ AppendInv'
  <2>1. CASE StartAppend
    BY <1>0, <1>2, <2>1, AttemptInv, BatchAssumption DEF StartAppend, BatchAssumption
  <2>2. CASE \E n \in 1..MaxAttempts : ServerStores(n)
    BY <1>0, <1>2, <2>2 DEF ServerStores, BatchTypeOK, AppendInv
  <2>3. ASSUME NEW kind \in {"ok", "serverError", "limited", "limitedForLong", "refused"},
               AnswerAppend(kind)
        PROVE  BatchTypeOK' /\ AppendInv'
    <3>1. /\ append.stage = "inFlight" /\ UNCHANGED <<cancelled, stored>>
          /\ underway' \subseteq underway
      BY <2>3 DEF AnswerAppend
    <3>2. \/ \E how \in {"ok", "permanent"} : SettleAppend(how)
          \/ Transient(FALSE) \/ Transient(TRUE)
      BY <2>3 DEF AnswerAppend
    <3>3. CASE \E how \in {"ok", "permanent"} : SettleAppend(how)
      BY <1>0, <1>2, <3>1, <3>3, SettledAppend DEF BatchTypeOK, AppendInv
    <3> QED
      BY <1>0, <1>2, <3>1, <3>2, <3>3, TransientInv
  <2>4. CASE AppendTimesOut
    BY <1>0, <1>2, <2>4, TransientInv DEF AppendTimesOut
  <2>5. CASE AbortSeen
    BY <1>0, <1>2, <2>5, SettledAppend DEF AbortSeen, BatchTypeOK, AppendInv
  <2>6. CASE BackoffOver
    <3>1. append.attempt + 1 \in 1..MaxAttempts
      BY <1>0, <2>6, BatchAssumption DEF BackoffOver, BatchTypeOK, AppendInv, BatchAssumption
    <3> QED
      BY <1>0, <1>2, <2>6, <3>1, AttemptInv DEF BackoffOver
  <2>7. CASE CancelAppend
    BY <1>0, <1>2, <2>7 DEF CancelAppend, BatchTypeOK, AppendInv
  <2> QED
    BY <2>1, <2>2, <2>3, <2>4, <2>5, <2>6, <2>7
<1>4. bulk' \in Bulk /\ BulkInv'
  BY <1>2 DEF BatchInv, BulkInv, UpTo, Slice, Rest
<1> QED
  BY <1>3, <1>4 DEF BatchInv

\* What a step makes of the bulk, field by field.
BulkBecomes(d, stage, offset, confirmed, failedChunk, remaining) ==
    /\ d \in Bulk
    /\ d.stage = stage /\ d.size = bulk.size /\ d.offset = offset
    /\ d.confirmed = confirmed /\ d.failedChunk = failedChunk /\ d.remaining = remaining

BulkStages == {"idle", "inFlight", "done", "failed", "malformed", "invalid"}

LEMMA BulkFields ==
    ASSUME bulk \in Bulk, NEW s \in BulkStages, NEW f \in SUBSET Users(MaxUsers),
           NEW r \in SUBSET Users(MaxUsers), NEW c \in SUBSET Users(MaxUsers)
    PROVE  /\ BulkBecomes([bulk EXCEPT !.stage = s],
                          s, bulk.offset, bulk.confirmed, bulk.failedChunk, bulk.remaining)
           /\ BulkBecomes([bulk EXCEPT !.stage = s, !.failedChunk = f, !.remaining = r],
                          s, bulk.offset, bulk.confirmed, f, r)
           /\ BulkBecomes([bulk EXCEPT !.confirmed = @ \cup c, !.offset = @ + Chunk, !.stage = s],
                          s, bulk.offset + Chunk, bulk.confirmed \cup c, bulk.failedChunk,
                          bulk.remaining)
<1>1. BulkBecomes([bulk EXCEPT !.stage = s],
                  s, bulk.offset, bulk.confirmed, bulk.failedChunk, bulk.remaining)
  BY DEF Bulk, BulkBecomes, BulkStages
<1>2. BulkBecomes([bulk EXCEPT !.stage = s, !.failedChunk = f, !.remaining = r],
                  s, bulk.offset, bulk.confirmed, f, r)
  BY DEF Bulk, BulkBecomes, BulkStages
<1>3. BulkBecomes([bulk EXCEPT !.confirmed = @ \cup c, !.offset = @ + Chunk, !.stage = s],
                  s, bulk.offset + Chunk, bulk.confirmed \cup c, bulk.failedChunk, bulk.remaining)
  <2>1. bulk.offset + Chunk \in Nat /\ bulk.confirmed \cup c \in SUBSET Users(MaxUsers)
    BY BatchAssumption DEF Bulk, BatchAssumption
  <2> QED
    BY <2>1 DEF Bulk, BulkBecomes, BulkStages
<1> QED
  BY <1>1, <1>2, <1>3

LEMMA BulkStepInv ==
    ASSUME BatchInv, StartBulk \/ ServerEnrols \/ ChunkConfirmed \/ ChunkFails \/ ChunkMalformed
    PROVE  BatchInv'
<1>0. UNCHANGED <<append, cancelled, underway, stored>>
  BY DEF StartBulk, ServerEnrols, ChunkConfirmed, ChunkFails, ChunkMalformed, appendVars
<1>1. /\ bulk \in Bulk /\ BatchTypeOK /\ BulkInv /\ Chunk \in Nat \ {0}
      /\ enrolled \subseteq Users(MaxUsers)
  BY BatchAssumption DEF BatchInv, BatchAssumption, BatchTypeOK
<1>2. /\ bulk.size \in Nat /\ bulk.offset \in Nat
      /\ Users(bulk.size) \subseteq Users(MaxUsers)
      /\ \A u \in Users(bulk.size) : u \in Nat
  BY <1>1, BatchAssumption DEF Users, Bulk, BatchAssumption
<1>3. /\ \A n : Slice(n) \subseteq Users(bulk.size) /\ Rest(n) \subseteq Users(bulk.size)
      /\ \A n \in Nat : UpTo(n + Chunk) = UpTo(n) \cup Slice(n)
      /\ \A n \in Nat : UpTo(n) \subseteq UpTo(n + Chunk)
  BY <1>1, <1>2 DEF Slice, Rest, UpTo
<1> SUFFICES bulk' \in Bulk /\ BulkInv' /\ enrolled' \subseteq Users(MaxUsers)
  BY <1>0, <1>1 DEF BatchInv, BatchTypeOK, AppendInv, Bulk
<1>4. CASE StartBulk
  <2>1. PICK s \in {"invalid", "inFlight"} :
          /\ bulk' = [bulk EXCEPT !.stage = s]
          /\ s = "inFlight" => bulk.size # 0
    BY <1>4 DEF StartBulk
  <2>2. bulk.stage = "idle" /\ enrolled' = enrolled
    BY <1>4 DEF StartBulk
  <2>3. BulkBecomes(bulk', s, bulk.offset, bulk.confirmed, bulk.failedChunk, bulk.remaining)
    BY <1>1, <2>1, BulkFields DEF BulkStages
  <2>4. bulk.offset = 0
    BY <1>1, <2>2 DEF BulkInv
  <2> QED
    BY <1>1, <1>2, <2>1, <2>2, <2>3, <2>4 DEF BulkBecomes, BulkInv, UpTo
<1>5. CASE ServerEnrols
  <2>1. bulk' = bulk /\ bulk.stage # "done"
    BY <1>5 DEF ServerEnrols
  <2>2. enrolled' \subseteq enrolled \cup Slice(bulk.offset) /\ enrolled \subseteq enrolled'
    BY <1>1, <1>5 DEF ServerEnrols, BulkInv
  <2>3. enrolled' \subseteq UpTo(bulk.offset + Chunk)
    BY <1>1, <1>2, <1>3, <2>1, <2>2 DEF BulkInv
  <2> QED
    BY <1>1, <1>2, <1>3, <2>1, <2>2, <2>3 DEF BulkInv, UpTo, Slice, Rest
<1>6. CASE ChunkConfirmed
  <2>1. PICK s \in {"done", "inFlight"} :
          /\ bulk' = [bulk EXCEPT !.confirmed = @ \cup Slice(bulk.offset),
                                  !.offset = @ + Chunk, !.stage = s]
          /\ s = "inFlight" => bulk.offset + Chunk < bulk.size
    BY <1>6 DEF ChunkConfirmed
  <2>2. bulk.stage = "inFlight" /\ Slice(bulk.offset) \subseteq enrolled /\ enrolled' = enrolled
    BY <1>6 DEF ChunkConfirmed
  <2>3. BulkBecomes(bulk', s, bulk.offset + Chunk, bulk.confirmed \cup Slice(bulk.offset),
                    bulk.failedChunk, bulk.remaining)
    BY <1>1, <1>2, <1>3, <2>1, BulkFields DEF BulkStages
  <2>4. bulk.confirmed \cup Slice(bulk.offset) = UpTo(bulk.offset + Chunk)
    BY <1>1, <1>2, <1>3, <2>2 DEF BulkInv
  <2>5. enrolled \subseteq UpTo(bulk.offset + Chunk + Chunk)
    BY <1>1, <1>2, <1>3, <2>2 DEF BulkInv
  <2> QED
    BY <1>1, <1>2, <2>1, <2>2, <2>3, <2>4, <2>5 DEF BulkBecomes, BulkInv, UpTo
<1>7. CASE ChunkFails
  <2>1. BulkBecomes(bulk', "failed", bulk.offset, bulk.confirmed, Slice(bulk.offset),
                    Rest(bulk.offset))
    BY <1>1, <1>2, <1>3, <1>7, BulkFields DEF ChunkFails, BulkStages
  <2>2. bulk.stage = "inFlight" /\ enrolled' = enrolled
    BY <1>7 DEF ChunkFails
  <2> QED
    BY <1>1, <2>1, <2>2 DEF BulkBecomes, BulkInv, UpTo, Slice, Rest
<1>8. CASE ChunkMalformed
  <2>1. BulkBecomes(bulk', "malformed", bulk.offset, bulk.confirmed, bulk.failedChunk, bulk.remaining)
    BY <1>1, <1>8, BulkFields DEF ChunkMalformed, BulkStages
  <2>2. bulk.stage = "inFlight" /\ enrolled' = enrolled
    BY <1>8 DEF ChunkMalformed
  <2> QED
    BY <1>1, <2>1, <2>2 DEF BulkBecomes, BulkInv, UpTo, Slice, Rest
<1> QED
  BY <1>4, <1>5, <1>6, <1>7, <1>8

LEMMA BatchNextInv == BatchInv /\ [BatchNext]_batchVars => BatchInv'
<1> SUFFICES ASSUME BatchInv, [BatchNext]_batchVars PROVE BatchInv'
  OBVIOUS
<1>1. CASE UNCHANGED batchVars
  BY <1>1 DEF batchVars, appendVars, bulkVars, BatchInv, BatchTypeOK, AppendInv, BulkInv, UpTo,
              Slice, Rest
<1> QED
  BY <1>1, AppendStepInv, BulkStepInv DEF BatchNext

LEMMA BatchAlwaysInv == BatchSpec => []BatchInv
BY BatchInitInv, BatchNextInv, PTL DEF BatchSpec

\* batchAppend() and batchAddMembers() keep their types; no attempt is made
\* beyond the last one.
THEOREM BatchTypeCorrect == BatchSpec => []BatchTypeOK
<1>1. BatchInv => BatchTypeOK
  BY DEF BatchInv
<1> QED
  BY <1>1, BatchAlwaysInv, PTL

\* What an SDKChatBatchError carries is the exact residue of the bulk, for any
\* number of users and any size of chunk.
THEOREM BatchResidue == BatchSpec => []ResidueIsExact
<1>1. ASSUME BatchInv PROVE ResidueIsExact
  <2> SUFFICES ASSUME bulk.stage = "failed" PROVE ResidueIsExact
    BY DEF ResidueIsExact
  <2> DEFINE n == bulk.size
             o == bulk.offset
  <2>1. /\ n \in Nat /\ o \in Nat /\ o < n /\ Chunk \in Nat \ {0}
        /\ bulk.confirmed = UpTo(o) /\ bulk.failedChunk = Slice(o) /\ bulk.remaining = Rest(o)
        /\ bulk.confirmed \subseteq enrolled /\ enrolled \subseteq UpTo(o + Chunk)
    BY <1>1, BatchAssumption DEF BatchInv, BulkInv, Bulk, BatchAssumption
  <2>2. /\ IsFiniteSet(Users(n)) /\ Cardinality(Users(n)) = n
        /\ \A u \in Users(n) : u \in Nat
    BY <2>1, UpToIsFinite DEF Users
  <2>3. /\ UpTo(o) \cup Slice(o) \cup Rest(o) = Users(n)
        /\ UpTo(o) \cap Slice(o) = {} /\ (UpTo(o) \cup Slice(o)) \cap Rest(o) = {}
        /\ UpTo(o + Chunk) \cap Rest(o) = {}
        /\ o + 1 \in Slice(o)
    BY <2>1, <2>2 DEF UpTo, Slice, Rest, Users
  <2> HIDE DEF n, o
  <2>4. IsFiniteSet(UpTo(o)) /\ IsFiniteSet(Slice(o)) /\ IsFiniteSet(Rest(o))
    BY <2>2, <2>3, FS_Subset
  <2>5. /\ IsFiniteSet(UpTo(o) \cup Slice(o))
        /\ Cardinality(UpTo(o) \cup Slice(o)) = Cardinality(UpTo(o)) + Cardinality(Slice(o))
        /\ Cardinality(UpTo(o) \cup Slice(o) \cup Rest(o)) =
                Cardinality(UpTo(o) \cup Slice(o)) + Cardinality(Rest(o))
    BY <2>3, <2>4, DisjointUnion
  <2>6. /\ Cardinality(UpTo(o)) \in Nat /\ Cardinality(Slice(o)) \in Nat
        /\ Cardinality(Rest(o)) \in Nat
    BY <2>4, FS_CardinalityType
  <2>7. Cardinality(UpTo(o)) + Cardinality(Slice(o)) + Cardinality(Rest(o)) = n
    BY <2>2, <2>3, <2>5, <2>6
  <2> QED
    BY <2>1, <2>3, <2>7 DEF ResidueIsExact, n, o
<1> QED
  BY <1>1, BatchAlwaysInv, PTL

-----------------------------------------------------------------------------
(***************************************************************************)
(* HistoryExport, for a history of any length and pages of any size.       *)
(***************************************************************************)

ExportSpec == ExportInit /\ [][ExportNext]_exportVars

ExportedRow == [seq : Nat, sealed : BOOLEAN]

ExportTypeOK ==
    /\ history \in 0..MaxSeq
    /\ page \in [from : Nat, state : {"none", "asked"}]
    /\ exported \in Seq(ExportedRow)
    /\ counts \in [exported : Nat, failed : Nat]
    /\ exportStage \in {"idle", "fetching", "done", "aborted"}
    /\ signalled \in BOOLEAN
    /\ oldest \in 0..MaxSeq

SealedRows(rows) == {i \in DOMAIN rows : rows[i].sealed}

Numbered(rows) == \A i \in DOMAIN rows : rows[i].seq = i

\* The rows up to the cursor are there, and the room only grows.
ExportInv ==
    /\ ExportTypeOK
    /\ Numbered(exported)
    /\ counts.exported + counts.failed = Len(exported)
    /\ counts.failed = Cardinality(SealedRows(exported))
    /\ exportStage = "idle" => exported = <<>>
    /\ page.state = "asked" => exportStage = "fetching"
    /\ page.state = "asked" => Len(exported) = page.from /\ page.from <= history
    /\ oldest <= history
    /\ exportStage = "done" => Len(exported) >= oldest

LEMMA RowOfPage ==
    ASSUME NEW seq, NEW unsealed
    PROVE  /\ seq \in Nat => ExportRow(seq, unsealed) \in ExportedRow
           /\ ExportRow(seq, unsealed).seq = seq
           /\ ExportRow(seq, unsealed).sealed <=> seq \notin unsealed
BY DEF ExportRow, ExportedRow

\* What a page adds to the rows up to its cursor.
PageAdds(all, rows, last, unsealed, closed) ==
    /\ all \in Seq(ExportedRow) /\ Len(all) = last
    /\ Numbered(all)
    /\ Cardinality(unsealed) \in Nat /\ Cardinality(closed) \in Nat
    /\ Cardinality(unsealed) + Cardinality(closed) = last - Len(rows)
    /\ Cardinality(SealedRows(all)) = Cardinality(SealedRows(rows)) + Cardinality(closed)

LEMMA PageOfRows ==
    ASSUME NEW rows \in Seq(ExportedRow), NEW last \in Nat, Len(rows) <= last,
           Numbered(rows),
           NEW unsealed, unsealed \subseteq Len(rows) + 1 .. last,
           NEW closed, closed = (Len(rows) + 1 .. last) \ unsealed,
           NEW all, all = rows \o PageRows(Len(rows), last, unsealed)
    PROVE  PageAdds(all, rows, last, unsealed, closed)
<1> DEFINE n == Len(rows)
           new == PageRows(n, last, unsealed)
<1>1. /\ n \in Nat /\ last - n \in Nat /\ DOMAIN rows = 1..n
      /\ \A i \in 1..(last - n) : n + i \in Nat
  OBVIOUS
<1>2. \A i \in 1..(last - n) : new[i] = ExportRow(n + i, unsealed)
  BY DEF PageRows
<1>3. new \in [1..(last - n) -> ExportedRow]
  BY <1>1, RowOfPage DEF PageRows
<1>a. all = rows \o new /\ n = Len(rows)
  OBVIOUS
<1> HIDE DEF n, new
<1>4. new \in Seq(ExportedRow) /\ Len(new) = last - n
  BY <1>1, <1>3, SequenceOf
<1>5. /\ all \in Seq(ExportedRow) /\ Len(all) = last /\ DOMAIN all = 1..last
      /\ \A i \in 1..n : all[i] = rows[i]
      /\ \A i \in 1..(last - n) : all[n + i] = new[i]
  BY <1>1, <1>4, <1>a, Concatenated
<1>6. \A i \in 1..last : i \in 1..n \/ (i - n \in 1..(last - n) /\ n + (i - n) = i)
  BY <1>1
<1>7. \A i \in 1..last : i \in 1..n \/ all[i] = ExportRow(i, unsealed)
  <2> SUFFICES ASSUME NEW i \in 1..last, i \notin 1..n PROVE all[i] = ExportRow(i, unsealed)
    OBVIOUS
  <2> DEFINE k == i - n
  <2>1. k \in 1..(last - n) /\ n + k = i
    BY <1>6
  <2> HIDE DEF k
  <2>2. all[n + k] = new[k] /\ new[k] = ExportRow(n + k, unsealed)
    BY <1>2, <1>5, <2>1
  <2> QED
    BY <2>1, <2>2
<1>8. Numbered(all)
  <2>1. \A i \in 1..n : all[i].seq = i
    BY <1>1, <1>5 DEF Numbered
  <2>2. \A i \in 1..last : i \in 1..n \/ all[i].seq = i
    BY <1>7, RowOfPage
  <2> QED
    BY <1>5, <2>1, <2>2 DEF Numbered
<1>9. unsealed \cap closed = {} /\ unsealed \cup closed = n + 1 .. last
  BY <1>a
<1>10. IsFiniteSet(n + 1 .. last) /\ Cardinality(n + 1 .. last) = last - n
  <2>1. n + 1 \in Int /\ last \in Int /\ (IF n + 1 > last THEN 0 ELSE last - (n + 1) + 1) = last - n
    BY <1>1
  <2> QED
    BY <2>1, FS_Interval
<1>11. IsFiniteSet(unsealed) /\ IsFiniteSet(closed)
  BY <1>9, <1>10, FS_Subset
<1>12. Cardinality(unsealed) + Cardinality(closed) = last - n
  BY <1>9, <1>10, <1>11, DisjointUnion
<1>13. Cardinality(unsealed) \in Nat /\ Cardinality(closed) \in Nat
  BY <1>11, FS_CardinalityType
<1>14. SealedRows(all) = SealedRows(rows) \cup closed /\ SealedRows(rows) \cap closed = {}
  <2>1. \A i \in 1..last : i \notin 1..n <=> i \in n + 1 .. last
    BY <1>1
  <2>2. /\ \A i \in 1..n : i \in 1..last
        /\ \A i \in n + 1 .. last : i \in 1..last /\ i \notin 1..n
    BY <1>1
  <2>3. \A i \in 1..n : all[i].sealed = rows[i].sealed
    BY <1>5
  <2>4. \A i \in n + 1 .. last : all[i].sealed <=> i \notin unsealed
    <3> SUFFICES ASSUME NEW i \in n + 1 .. last PROVE all[i].sealed <=> i \notin unsealed
      OBVIOUS
    <3>1. all[i] = ExportRow(i, unsealed)
      BY <1>7, <2>2
    <3> QED
      BY <3>1, RowOfPage
  <2>5. \A i : i \in SealedRows(all) <=> i \in 1..last /\ all[i].sealed
    BY <1>5 DEF SealedRows
  <2>6. \A i : i \in SealedRows(rows) <=> i \in 1..n /\ rows[i].sealed
    BY <1>1 DEF SealedRows
  <2>7. \A i : i \in closed <=> i \in n + 1 .. last /\ i \notin unsealed
    BY <1>a
  <2> QED
    BY <2>1, <2>2, <2>3, <2>4, <2>5, <2>6, <2>7
<1>15. IsFiniteSet(SealedRows(rows))
  BY <1>1, UpToIsFinite, FS_Subset DEF SealedRows
<1>16. Cardinality(SealedRows(all)) = Cardinality(SealedRows(rows)) + Cardinality(closed)
  BY <1>11, <1>14, <1>15, DisjointUnion
<1> QED
  BY <1>5, <1>8, <1>12, <1>13, <1>16 DEF n, new, PageAdds

LEMMA ExportInitInv == ExportInit => ExportInv
<1> SUFFICES ASSUME ExportInit PROVE ExportInv
  OBVIOUS
<1>1. MaxSeq \in Nat /\ 0 \in 0..MaxSeq
  BY ExportAssumption DEF ExportAssumption
<1>2. SealedRows(<<>>) = {} /\ Cardinality({}) = 0
  BY FS_EmptySet DEF SealedRows
<1>3. exported \in Seq(ExportedRow) /\ Len(exported) = 0 /\ DOMAIN exported = {}
  BY DEF ExportInit
<1>4. counts = [exported |-> 0, failed |-> 0] /\ page = [from |-> 0, state |-> "none"]
  BY DEF ExportInit
<1>5. ExportTypeOK
  <2>1. counts \in [exported : Nat, failed : Nat] /\ page \in [from : Nat, state : {"none", "asked"}]
    BY <1>4
  <2>2. history \in 0..MaxSeq /\ oldest \in 0..MaxSeq /\ exportStage = "idle" /\ signalled = FALSE
    BY <1>1 DEF ExportInit
  <2> QED
    BY <1>3, <2>1, <2>2 DEF ExportTypeOK
<1>6. counts.exported = 0 /\ counts.failed = 0 /\ page.state = "none" /\ 0 + 0 = 0
  BY <1>4
<1>7. counts.exported + counts.failed = Len(exported) /\ counts.failed = Cardinality(SealedRows(exported))
  BY <1>2, <1>3, <1>6 DEF ExportInit
<1>8. exported = <<>> /\ exportStage = "idle" /\ oldest = 0 /\ 0 <= history
  BY <1>1 DEF ExportInit
<1>9. Numbered(exported)
  BY <1>3 DEF Numbered
<1> QED
  BY <1>5, <1>6, <1>7, <1>8, <1>9 DEF ExportInv

LEMMA PageArrivesInv == ExportInv /\ PageArrives => ExportInv'
<1> SUFFICES ASSUME ExportInv, PageArrives PROVE ExportInv'
  OBVIOUS
<1> DEFINE last == IF history < page.from + Limit THEN history ELSE page.from + Limit
<1>1. /\ ExportTypeOK /\ page.state = "asked" /\ Len(exported) = page.from
      /\ page.from <= history /\ page.from \in Nat /\ history \in Nat /\ Limit \in Nat \ {0}
      /\ oldest \in Nat /\ oldest <= history /\ counts.exported \in Nat /\ counts.failed \in Nat
      /\ exportStage # "idle" => TRUE
  BY ExportAssumption DEF ExportInv, ExportTypeOK, PageArrives, ExportAssumption
<1>2. PICK unsealed \in SUBSET (page.from + 1 .. last) :
        /\ exported' = exported \o PageRows(page.from, last, unsealed)
        /\ counts' = [exported |-> counts.exported + Cardinality(unsealed),
                      failed |-> counts.failed
                                    + Cardinality((page.from + 1 .. last) \ unsealed)]
  BY DEF PageArrives
<1>3. /\ last \in Nat /\ page.from <= last /\ last <= history
      /\ ~(last < history) => last = history
  BY <1>1
<1>4. /\ exported' \in Seq(ExportedRow) /\ Len(exported') = last
      /\ Numbered(exported')
      /\ counts' \in [exported : Nat, failed : Nat]
      /\ counts'.exported + counts'.failed = Len(exported')
      /\ counts'.failed = Cardinality(SealedRows(exported'))
  <2> HIDE DEF last
  <2>1. /\ exported \in Seq(ExportedRow) /\ Numbered(exported)
        /\ Len(exported) <= last /\ unsealed \in SUBSET (Len(exported) + 1 .. last)
        /\ exported' = exported \o PageRows(Len(exported), last, unsealed)
    BY <1>1, <1>2, <1>3 DEF ExportInv, ExportTypeOK
  <2> DEFINE closed == (Len(exported) + 1 .. last) \ unsealed
             all == exported'
             u == Cardinality(unsealed)
             v == Cardinality(closed)
  <2>a. closed = (Len(exported) + 1 .. last) \ unsealed /\ last \in Nat
        /\ all = exported \o PageRows(Len(exported), last, unsealed)
        /\ unsealed \subseteq Len(exported) + 1 .. last
    BY <1>3, <2>1
  <2>b. closed = (page.from + 1 .. last) \ unsealed
    BY <1>1
  <2> HIDE DEF closed, all
  <2>2. /\ all \in Seq(ExportedRow) /\ Len(all) = last
        /\ Numbered(all)
        /\ u \in Nat /\ v \in Nat /\ u + v = last - Len(exported)
        /\ Cardinality(SealedRows(all)) = Cardinality(SealedRows(exported)) + v
    <3>1. PageAdds(all, exported, last, unsealed, closed)
      BY <2>1, <2>a, PageOfRows
    <3> QED
      BY <3>1 DEF PageAdds
  <2>3. counts' = [exported |-> counts.exported + u, failed |-> counts.failed + v]
    BY <1>2, <2>b
  <2>4. counts.failed = Cardinality(SealedRows(exported)) /\ counts.exported + counts.failed = Len(exported)
    BY DEF ExportInv
  <2> HIDE DEF u, v, all
  <2> DEFINE a == counts.exported
             b == counts.failed
  <2>5. a + u \in Nat /\ b + v \in Nat /\ (a + u) + (b + v) = last
    <3>1. /\ a \in Nat /\ b \in Nat /\ u \in Nat /\ v \in Nat /\ Len(exported) \in Nat
          /\ a + b = Len(exported) /\ u + v = last - Len(exported)
      BY <1>1, <2>1, <2>2, <2>4
    <3> HIDE DEF a, b
    <3> QED
      BY <1>3, <3>1
  <2>6. counts'.exported = a + u /\ counts'.failed = b + v /\ counts' \in [exported : Nat, failed : Nat]
    BY <2>3, <2>5
  <2> HIDE DEF a, b
  <2>7. b + v = Cardinality(SealedRows(all))
    BY <2>2, <2>4 DEF b
  <2> QED
    BY <2>2, <2>5, <2>6, <2>7 DEF all
<1>5. /\ UNCHANGED <<history, signalled, oldest>>
      /\ \/ last = history /\ exportStage' = "done" /\ page' = [page EXCEPT !.state = "none"]
         \/ exportStage' = "aborted" /\ page' = [page EXCEPT !.state = "none"]
         \/ page' = [from |-> last, state |-> "asked"] /\ exportStage' = exportStage
  BY <1>3 DEF PageArrives, NextCursor
<1>6. /\ page' \in [from : Nat, state : {"none", "asked"}]
      /\ page'.state = "asked" => page'.from = last /\ exportStage' = exportStage
      /\ exportStage' \in {"done", "aborted", exportStage}
      /\ exportStage' = "done" => last = history \/ exportStage = "done"
  BY <1>1, <1>3, <1>5 DEF ExportTypeOK
<1>7. exportStage # "idle" /\ exportStage # "done"
  BY <1>1 DEF ExportInv
<1> HIDE DEF last
<1>8. ExportTypeOK'
  BY <1>1, <1>4, <1>5, <1>6 DEF ExportTypeOK
<1> QED
  BY <1>1, <1>3, <1>4, <1>5, <1>6, <1>7, <1>8 DEF ExportInv

LEMMA ExportNextInv == ExportInv /\ [ExportNext]_exportVars => ExportInv'
<1> SUFFICES ASSUME ExportInv, [ExportNext]_exportVars PROVE ExportInv'
  OBVIOUS
<1>1. CASE StartExport
  BY <1>1, ExportAssumption DEF StartExport, ExportInv, ExportTypeOK, ExportAssumption
<1>2. CASE MessageArrives
  BY <1>2, ExportAssumption DEF MessageArrives, ExportInv, ExportTypeOK, ExportAssumption
<1>3. CASE PageRejected
  BY <1>3, ExportAssumption DEF PageRejected, ExportInv, ExportTypeOK, ExportAssumption
<1>4. CASE Signal
  BY <1>4 DEF Signal, ExportInv, ExportTypeOK
<1>5. CASE UNCHANGED exportVars
  BY <1>5 DEF exportVars, ExportInv, ExportTypeOK
<1> QED
  BY <1>1, <1>2, <1>3, <1>4, <1>5, PageArrivesInv DEF ExportNext

LEMMA ExportAlwaysInv == ExportSpec => []ExportInv
BY ExportInitInv, ExportNextInv, PTL DEF ExportSpec

\* A finished export is the room's history, once each and in order, with counts
\* that add up, for any room and any size of page.
THEOREM ExportComplete == ExportSpec => []ExportIsComplete
<1>1. ExportInv => ExportIsComplete
  BY DEF ExportInv, ExportIsComplete, SealedRows, Numbered
<1> QED
  BY <1>1, ExportAlwaysInv, PTL

-----------------------------------------------------------------------------
(***************************************************************************)
(* SdkRequests, for any set of statuses and of calls in the client's       *)
(* families: which failures the SDK calls worth another attempt.           *)
(***************************************************************************)

RequestSpec == RequestInit /\ [][RequestNext]_requestVars

ClientFamilies ==
    {"EphemeralCall", "RoomCall", "RoomListCall", "MemberCall", "ShareLinkCall", "ContentCall",
     "PinCall", "ReactionCall", "PageCall", "RosterCall"}

\* A call that was made has the outcome of its reply.
RequestInv ==
    \/ request = NoRequest /\ settled = Pending
    \/ /\ request.family \in DOMAIN Methods
       /\ request.method \in Methods[request.family]
       /\ request.reply \in Reply
       /\ settled = Outcome(request.family, request.method, request.length, request.reply)

\* What is made of the body of a good answer.
Reads == {Value, Escaped, Thrown("server_error")}

\* An outcome's code and what the reply was agree about trying again.
Agrees(reply, outcome) ==
    LET transient == reply.fetch = "unreachable" \/ reply.status = 429 \/ reply.status >= 500
    IN outcome.code \notin {"escaped", "pending"} =>
        /\ transient => ~outcome.value /\ outcome.code \notin PermanentCodes
        /\ ~outcome.value /\ outcome.code \notin PermanentCodes
            => transient \/ reply.status \in {0, 401} \cup 300..399 \/ Ok(reply)

LEMMA ReplyFields ==
    ASSUME NEW reply \in Reply
    PROVE  /\ reply.fetch \in {"unreachable", "aborted", "answered"}
           /\ reply.fetch # "answered" => reply.status = 0
           /\ reply.status \in Nat
           /\ reply.fetch = "answered" =>
                /\ reply.status \in 200..599
                /\ reply.body \in {"good", "missing", "unparsable"}
<1>1. Statuses \subseteq 200..599
  BY StatusesAssumption DEF StatusesAssumption
<1>2. CASE \E f \in {"unreachable", "aborted"} : reply = [fetch |-> f, status |-> 0, body |-> "none"]
  BY <1>2
<1>3. CASE reply \in [fetch : {"answered"}, status : Statuses,
                      body : {"good", "missing", "unparsable"}]
  <2>1. reply.fetch = "answered" /\ reply.status \in Statuses
    BY <1>3
  <2>2. reply.status \in 200..599 /\ reply.status \in Nat
    <3>1. \A n \in 200..599 : n \in Nat
      OBVIOUS
    <3> QED
      BY <1>1, <2>1, <3>1, ZenonT(30)
  <2>3. reply.body \in {"good", "missing", "unparsable"}
    BY <1>3
  <2> QED
    BY <2>1, <2>2, <2>3
<1> QED
  BY <1>2, <1>3 DEF Reply

\* The common shape: the status decides, then the body.
LEMMA FetchedAgrees ==
    ASSUME NEW reply \in Reply, NEW read \in Reads
    PROVE  Agrees(reply, Fetched(reply, read))
<1>0. /\ reply.fetch \in {"unreachable", "aborted", "answered"} /\ reply.status \in Nat
      /\ reply.fetch # "answered" => reply.status = 0
      /\ reply.fetch = "answered" => reply.status \in 200..599
  BY ReplyFields
<1>1. CASE reply.fetch # "answered"
  <2>1. Fetched(reply, read) = Thrown("network")
    BY <1>1 DEF Fetched
  <2> QED
    BY <1>0, <1>1, <2>1 DEF Agrees, Thrown, PermanentCodes
<1>2. CASE reply.fetch = "answered" /\ Ok(reply)
  <2>1. Fetched(reply, read) = read
    BY <1>2 DEF Fetched
  <2>2. ~(reply.status = 429 \/ reply.status >= 500)
    BY <1>0, <1>2 DEF Ok
  <2> QED
    BY <1>0, <1>2, <2>1, <2>2 DEF Agrees
<1>3. CASE reply.fetch = "answered" /\ ~Ok(reply)
  <2>1. Fetched(reply, read) = Thrown(StatusCode(reply.status))
    BY <1>3 DEF Fetched
  <2>2. StatusCode(reply.status) \in PermanentCodes =>
            ~(reply.status = 429 \/ reply.status >= 500)
    BY <1>0 DEF StatusCode, PermanentCodes
  <2>3. StatusCode(reply.status) \notin PermanentCodes =>
            \/ reply.status = 429 \/ reply.status >= 500 \/ reply.status = 401
            \/ reply.status \in 300..399
    BY <1>0, <1>3 DEF StatusCode, PermanentCodes, Ok
  <2> QED
    BY <1>0, <1>3, <2>1, <2>2, <2>3 DEF Agrees, Thrown
<1> QED
  BY <1>0, <1>1, <1>2, <1>3

LEMMA ReadsAreFetched ==
    ASSUME NEW reply \in Reply
    PROVE  /\ \E read \in Reads : Unread(reply) = Fetched(reply, read)
           /\ \E read \in Reads : ReadBody(reply) = Fetched(reply, read)
           /\ \E read \in Reads : Asserted(reply) = Fetched(reply, read)
           /\ \E read \in Reads : Mapped(reply) = Fetched(reply, read)
<1>1. \E read \in Reads : Asserted(reply) = Fetched(reply, read)
  <2>1. CASE reply.fetch = "answered"
    BY <2>1, ReplyFields DEF Reads, Asserted
  <2>2. CASE reply.fetch # "answered"
    BY <2>2 DEF Reads, Asserted, Fetched
  <2> QED
    BY <2>1, <2>2
<1> QED
  BY <1>1 DEF Reads, Unread, ReadBody, Mapped

LEMMA OutcomeAgrees ==
    ASSUME NEW family \in ClientFamilies, NEW method \in Methods[family], NEW length \in 1..32, NEW reply \in Reply
    PROVE  Agrees(reply, Outcome(family, method, length, reply))
<1> DEFINE out == Outcome(family, method, length, reply)
<1>1. Agrees(reply, Escaped)
  BY DEF Agrees, Escaped, Thrown
<1>2. reply.status = 404 => Agrees(reply, Value)
  <2>1. reply.status = 404 => reply.fetch = "answered"
    BY ReplyFields
  <2> QED
    BY <2>1 DEF Agrees, Value
<1>3. \/ \E read \in Reads : out = Fetched(reply, read)
      \/ out = Escaped
      \/ reply.status = 404 /\ out = Value
  <2>1. CASE family = "EphemeralCall"
    <3>1. method \in {"sendTyping", "sendPresence", "markRead", "getPresence"}
      BY <2>1 DEF Methods
    <3> QED
      BY <2>1, <3>1, ReadsAreFetched DEF Outcome, EphemeralCall
  <2>2. CASE family \in {"RoomCall", "RoomListCall", "ShareLinkCall"}
    BY <2>2, ReadsAreFetched DEF Outcome, RoomCall, RoomListCall, ShareLinkCall
  <2>3. CASE family \in {"MemberCall", "ContentCall", "PinCall"}
    BY <2>3, ReadsAreFetched DEF Outcome, MemberCall, ContentCall, PinCall
  <2>4. CASE family = "ReactionCall"
    BY <2>4, ReadsAreFetched DEF Outcome, ReactionCall
  <2>5. CASE family = "PageCall"
    BY <2>5, ReadsAreFetched DEF Outcome, PageCall
  <2>6. CASE family = "RosterCall"
    <3>1. \E read \in Reads : Fetched(reply, IF reply.body = "unparsable" THEN Escaped ELSE Value)
                                  = Fetched(reply, read)
      BY DEF Reads
    <3>2. out = RosterCall(method, reply)
      BY <2>6 DEF Outcome
    <3> QED
      BY <3>1, <3>2 DEF RosterCall
  <2> QED
    BY <2>1, <2>2, <2>3, <2>4, <2>5, <2>6 DEF ClientFamilies
<1> HIDE DEF out
<1> QED
  BY <1>1, <1>2, <1>3, FetchedAgrees DEF out

LEMMA RequestInvHolds == RequestSpec => []RequestInv
<1>1. RequestInit => RequestInv
  BY DEF RequestInit, RequestInv
<1>2. RequestInv /\ [RequestNext]_requestVars => RequestInv'
  BY DEF RequestInv, RequestNext, Call, requestVars
<1> QED
  BY <1>1, <1>2, PTL DEF RequestSpec

\* What a code promises about trying again is one thing across the client, for
\* every method and any HTTP status.
THEOREM RetryRules == RequestSpec => []RetryRulesAgree
<1>1. ASSUME RequestInv PROVE RetryRulesAgree
  <2> SUFFICES ASSUME request.family \notin {"none", "CatalogCall", "MintCall", "PresignCall"},
                      settled.code \notin {"escaped", "pending"}, request.length \in 1..32
               PROVE  Agrees(request.reply, settled)
    BY DEF RetryRulesAgree, Agrees
  <2>1. settled # Pending
    BY DEF Pending
  <2>2. /\ request.family \in DOMAIN Methods /\ request.reply \in Reply
        /\ request.method \in Methods[request.family]
        /\ settled = Outcome(request.family, request.method, request.length, request.reply)
    BY <1>1, <2>1 DEF RequestInv
  <2>3. request.family \in ClientFamilies
    BY <2>2 DEF Methods, ClientFamilies
  <2> QED
    BY <2>2, <2>3, OutcomeAgrees
<1> QED
  BY <1>1, RequestInvHolds, PTL

-----------------------------------------------------------------------------
(***************************************************************************)
(* CryptoMode, for any number of rooms, subscribers and calls, and a mode  *)
(* cache and a poison set of any capacity.                                 *)
(***************************************************************************)

CryptoSpec == CryptoInit /\ [][CryptoNext]_cryptoVars

CacheEntry == [room : Rooms, mode : Modes]
CallRecord == [op : {"text", "optimistic", "file", "sealed", "list", "other", Nothing},
               room : Rooms \cup {Nothing},
               stage : {"idle", "encoding", "preparing", "fetching", "dispatching", "borrowing",
                        "unsealing"},
               form : Forms \cup {Nothing}]

\* A client with an e2ee option expects one sealed mode, caches no other, and
\* never begins a send in the clear.
OnlySealedModes ==
    e2ee # "none" =>
        /\ expected \in Modes \ {"plaintext"}
        /\ \A i \in DOMAIN modes : modes[i].mode = expected
        /\ \A c \in Calls : call[c].form # "plain"

CallsOK ==
    /\ call \in [Calls -> CallRecord]
    /\ \A c \in Calls : call[c].stage # "idle" => call[c].room \in Rooms

SubscribersOK ==
    \A s \in Subscribers : subscriber[s].state # "unused" => subscriber[s].room \in Rooms

CryptoInv == CryptoTypeOK /\ CallsOK /\ SubscribersOK /\ OnlySealedModes /\ NoDowngrade

RoomKnown(r) == \E i \in DOMAIN modes : modes[i].room = r

-----------------------------------------------------------------------------
(* The cache *)

LEMMA CacheEntries ==
    ASSUME CryptoTypeOK
    PROVE  /\ modes \in Seq(CacheEntry) /\ modes \in [1..Len(modes) -> CacheEntry]
           /\ DOMAIN modes = 1..Len(modes) /\ Len(modes) \in Nat
           /\ \A i \in DOMAIN modes : modes[i] \in CacheEntry
           /\ Nothing \notin Modes /\ Nothing \notin Rooms
<1>1. modes \in Seq(CacheEntry)
  BY DEF CryptoTypeOK, CacheEntry
<1>2. Nothing \notin Modes /\ Nothing \notin Rooms
  BY CapAssumption
<1> QED
  BY <1>1, <1>2

\* What getRoomCryptoMode() reads in a cache.
ModeIn(cache, r) ==
    IF \E i \in DOMAIN cache : cache[i].room = r
    THEN (CHOOSE e \in {cache[i] : i \in DOMAIN cache} : e.room = r).mode
    ELSE Nothing

LEMMA ModeInCache ==
    ASSUME NEW cache \in Seq(CacheEntry), NEW r
    PROVE  /\ ModeIn(cache, r) # Nothing =>
                \E i \in DOMAIN cache : cache[i].room = r /\ cache[i].mode = ModeIn(cache, r)
           /\ ModeIn(cache, r) # Nothing <=> \E i \in DOMAIN cache : cache[i].room = r
<1>1. Nothing \notin Modes /\ \A i \in DOMAIN cache : cache[i] \in CacheEntry
  BY CapAssumption
<1>2. CASE ~\E i \in DOMAIN cache : cache[i].room = r
  BY <1>2 DEF ModeIn
<1>3. CASE \E i \in DOMAIN cache : cache[i].room = r
  <2> DEFINE found == {cache[i] : i \in DOMAIN cache}
             e == CHOOSE x \in found : x.room = r
  <2>1. e \in found /\ e.room = r
    BY <1>3
  <2>2. ModeIn(cache, r) = e.mode
    BY <1>3 DEF ModeIn
  <2> HIDE DEF e
  <2>3. PICK i \in DOMAIN cache : cache[i] = e
    BY <2>1
  <2>4. e.mode \in Modes
    BY <1>1, <2>3 DEF CacheEntry
  <2> QED
    BY <1>1, <1>3, <2>1, <2>2, <2>3, <2>4
<1> QED
  BY <1>2, <1>3

LEMMA ModeOfRoom ==
    ASSUME CryptoTypeOK, NEW r
    PROVE  /\ RoomMode(r) # Nothing => \E i \in DOMAIN modes : /\ modes[i].room = r
                                                               /\ modes[i].mode = RoomMode(r)
           /\ RoomMode(r) # Nothing <=> RoomKnown(r)
<1>1. RoomMode(r) = ModeIn(modes, r)
  BY DEF RoomMode, ModeIn
<1> QED
  BY <1>1, CacheEntries, ModeInCache DEF RoomKnown

\* What the cache may become: entries of before, and one for the mode just stated.
OnlyFrom(cache, r, mode) ==
    \A i \in DOMAIN cache :
        \/ \E j \in DOMAIN modes : cache[i] = modes[j]
        \/ cache[i] = [room |-> r, mode |-> mode]

LEMMA SetModes ==
    ASSUME CryptoTypeOK, NEW r \in Rooms, NEW mode \in Modes
    PROVE  /\ Set(r, mode) \in Seq(CacheEntry)
           /\ OnlyFrom(Set(r, mode), r, mode)
           /\ \A q : RoomKnown(q) => \E i \in DOMAIN Set(r, mode) : Set(r, mode)[i].room = q
<1>1. /\ modes \in Seq(CacheEntry) /\ modes \in [1..Len(modes) -> CacheEntry] /\ DOMAIN modes = 1..Len(modes)
      /\ Len(modes) \in Nat /\ \A i \in DOMAIN modes : modes[i] \in CacheEntry
  BY CacheEntries
<1> DEFINE new == [room |-> r, mode |-> mode]
<1>2. new \in CacheEntry
  BY DEF CacheEntry
<1>3. \A e \in CacheEntry : e.room = r => [e EXCEPT !.mode = mode] = new
  BY DEF CacheEntry
<1> HIDE DEF new
<1>4. CASE RoomMode(r) = Nothing
  <2>1. Set(r, mode) = Append(modes, new)
    BY <1>4 DEF Set, new
  <2>2. /\ Append(modes, new) \in Seq(CacheEntry)
        /\ DOMAIN Append(modes, new) = 1..(Len(modes) + 1)
        /\ \A i \in 1..Len(modes) : Append(modes, new)[i] = modes[i]
        /\ Append(modes, new)[Len(modes) + 1] = new
    BY <1>1, <1>2, Appended
  <2>3. /\ \A i \in 1..(Len(modes) + 1) : i \in 1..Len(modes) \/ i = Len(modes) + 1
        /\ \A i \in 1..Len(modes) : i \in 1..(Len(modes) + 1)
    BY <1>1
  <2> QED
    BY <1>1, <2>1, <2>2, <2>3 DEF OnlyFrom, RoomKnown, new
<1>5. CASE RoomMode(r) # Nothing
  <2>1. Set(r, mode) = [i \in DOMAIN modes |-> IF modes[i].room = r THEN new ELSE modes[i]]
    BY <1>1, <1>3, <1>5 DEF Set
  <2>2. Set(r, mode) \in [1..Len(modes) -> CacheEntry]
    BY <1>1, <1>2, <2>1
  <2>3. Set(r, mode) \in Seq(CacheEntry)
    BY <1>1, <2>2, SequenceOf
  <2>4. new.room = r
    BY DEF new
  <2> QED
    BY <1>1, <2>1, <2>3, <2>4 DEF OnlyFrom, RoomKnown, new
<1> QED
  BY <1>4, <1>5

LEMMA BoundedModes ==
    ASSUME NEW seq \in Seq(CacheEntry), NEW just
    PROVE  /\ Bounded(seq, just) \in Seq(CacheEntry)
           /\ \A i \in DOMAIN Bounded(seq, just) : \E j \in DOMAIN seq : Bounded(seq, just)[i] = seq[j]
           /\ \A j \in DOMAIN seq : seq[j].room = just \/ refs[seq[j].room] # 0 =>
                \E i \in DOMAIN Bounded(seq, just) : Bounded(seq, just)[i] = seq[j]
<1> DEFINE Evictable(i) == seq[i].room # just /\ refs[seq[i].room] = 0
           Rank(i) == Cardinality({j \in 1..i : Evictable(j)})
           keep == {i \in DOMAIN seq : ~(Evictable(i) /\ Rank(i) + ModeCap <= Len(seq))}
<1>1. Bounded(seq, just) = Kept(seq, keep)
  BY DEF Bounded
<1>2. keep \subseteq DOMAIN seq
  OBVIOUS
<1>3. \A j \in DOMAIN seq : seq[j].room = just \/ refs[seq[j].room] # 0 => j \in keep
  OBVIOUS
<1> HIDE DEF keep
<1> QED
  BY <1>1, <1>2, <1>3, KeptElements

LEMMA WithoutRoomModes ==
    ASSUME NEW seq \in Seq(CacheEntry), NEW r
    PROVE  /\ WithoutRoom(seq, r) \in Seq(CacheEntry)
           /\ \A i \in DOMAIN WithoutRoom(seq, r) :
                \E j \in DOMAIN seq : WithoutRoom(seq, r)[i] = seq[j]
           /\ \A j \in DOMAIN seq : seq[j].room # r =>
                \E i \in DOMAIN WithoutRoom(seq, r) : WithoutRoom(seq, r)[i] = seq[j]
<1> DEFINE keep == {i \in DOMAIN seq : seq[i].room # r}
<1>1. WithoutRoom(seq, r) = Kept(seq, keep)
  BY DEF WithoutRoom
<1>2. keep \subseteq DOMAIN seq /\ \A j \in DOMAIN seq : seq[j].room # r => j \in keep
  OBVIOUS
<1> HIDE DEF keep
<1> QED
  BY <1>1, <1>2, KeptElements


-----------------------------------------------------------------------------
(* The invariant *)

\* A step may replace the cache by one whose entries agree as the old ones did.
AgreesWith(cache) ==
    /\ cache \in Seq(CacheEntry)
    /\ e2ee # "none" => \A i \in DOMAIN cache : cache[i].mode = expected

\* A room of the old cache that somebody holds is in the new one.
KeepsHeld(cache) == \A q \in Rooms : RoomKnown(q) /\ refs[q] # 0 => \E i \in DOMAIN cache : cache[i].room = q

LEMMA ModeUnderE2ee ==
    ASSUME CryptoInv, e2ee # "none", NEW r
    PROVE  EffectiveMode(r) = expected /\ RoomMode(r) \in {expected, Nothing}
           /\ expected # "plaintext" /\ expected # Nothing
<1>1. /\ RoomMode(r) # Nothing => \E i \in DOMAIN modes : modes[i].mode = RoomMode(r)
  BY ModeOfRoom DEF CryptoInv
<1>2. expected \in Modes \ {"plaintext"} /\ \A i \in DOMAIN modes : modes[i].mode = expected
  BY DEF CryptoInv, OnlySealedModes
<1>3. Nothing \notin Modes
  BY CapAssumption
<1> QED
  BY <1>1, <1>2, <1>3 DEF EffectiveMode

LEMMA ResolveKeeps ==
    ASSUME CryptoInv, NEW r \in Rooms, NEW stated \in Stated, Resolve(r, stated)
    PROVE  /\ AgreesWith(modes') /\ KeepsHeld(modes')
           /\ poisoned \subseteq poisoned' /\ poisoned' \subseteq Rooms
<1>1. /\ modes \in Seq(CacheEntry) /\ poisoned \subseteq Rooms /\ CryptoTypeOK
      /\ e2ee # "none" => \A i \in DOMAIN modes : modes[i].mode = expected
  BY CacheEntries DEF CryptoInv, CryptoTypeOK, OnlySealedModes
<1>2. AgreesWith(modes) /\ KeepsHeld(modes)
  BY <1>1 DEF AgreesWith, KeepsHeld, RoomKnown
<1>3. CASE Refused(stated)
  BY <1>1, <1>2, <1>3 DEF Resolve
<1>4. CASE ~Refused(stated)
  <2> DEFINE mode == IF stated = "absent" THEN RoomMode(r) ELSE stated
  <2>1. /\ poisoned' = poisoned
        /\ modes' = IF mode = Nothing THEN modes ELSE Bounded(Set(r, mode), r)
    BY <1>4 DEF Resolve
  <2>2. CASE mode = Nothing
    BY <1>1, <1>2, <2>1, <2>2
  <2>3. CASE mode # Nothing
    <3>1. mode \in Modes /\ (e2ee # "none" => mode = expected)
      <4>1. CASE stated = "absent"
        <5>1. PICK i \in DOMAIN modes : modes[i].mode = RoomMode(r)
          BY <1>1, <2>3, <4>1, ModeOfRoom
        <5>2. modes[i].mode \in Modes
          BY <1>1, CacheEntries DEF CacheEntry
        <5> QED
          BY <1>1, <4>1, <5>1, <5>2
      <4>2. CASE stated # "absent"
        <5>1. stated \in Modes /\ (expected = Nothing \/ stated = expected)
          BY <1>4, <4>2 DEF Refused, Stated
        <5>2. e2ee # "none" => expected \in Modes
          BY DEF CryptoInv, OnlySealedModes
        <5>3. Nothing \notin Modes
          BY CapAssumption
        <5> QED
          BY <4>2, <5>1, <5>2, <5>3
      <4> QED
        BY <4>1, <4>2
    <3> HIDE DEF mode
    <3> DEFINE longer == Set(r, mode)
    <3>2. /\ longer \in Seq(CacheEntry) /\ OnlyFrom(longer, r, mode)
          /\ \A q : RoomKnown(q) => \E i \in DOMAIN longer : longer[i].room = q
      BY <1>1, <3>1, SetModes
    <3> HIDE DEF longer
    <3>3. /\ Bounded(longer, r) \in Seq(CacheEntry)
          /\ \A i \in DOMAIN Bounded(longer, r) : \E j \in DOMAIN longer : Bounded(longer, r)[i] = longer[j]
          /\ \A j \in DOMAIN longer : longer[j].room = r \/ refs[longer[j].room] # 0 =>
                \E i \in DOMAIN Bounded(longer, r) : Bounded(longer, r)[i] = longer[j]
      BY <3>2, BoundedModes
    <3>4. modes' = Bounded(longer, r)
      BY <2>1, <2>3 DEF longer
    <3>5. e2ee # "none" => \A j \in DOMAIN longer : longer[j].mode = expected
      BY <1>1, <3>1, <3>2 DEF OnlyFrom
    <3>6. AgreesWith(modes')
      BY <3>3, <3>4, <3>5 DEF AgreesWith
    <3>7. KeepsHeld(modes')
      BY <3>2, <3>3, <3>4 DEF KeepsHeld
    <3> QED
      BY <1>1, <2>1, <3>6, <3>7
  <2> QED
    BY <2>2, <2>3
<1> QED
  BY <1>3, <1>4

\* Giving back a share leaves the counts of the other rooms alone.
LEMMA LessOf ==
    ASSUME refs \in [Rooms -> Nat], NEW r \in Rooms
    PROVE  /\ Less(r) \in [Rooms -> Nat]
           /\ \A q \in Rooms : q # r => Less(r)[q] = refs[q]
           /\ \A q \in Rooms : Less(r)[q] # 0 => refs[q] # 0
  BY DEF Less

LEMMA TeardownKeeps ==
    ASSUME CryptoInv, NEW s \in Subscribers, subscriber[s].state # "unused", Teardown(s, modes)
    PROVE  /\ AgreesWith(modes')
           /\ \A q \in Rooms : RoomKnown(q) /\ refs'[q] # 0 => \E i \in DOMAIN modes' : modes'[i].room = q
           /\ refs' \in [Rooms -> Nat]
           /\ subscriber' \in [Subscribers -> Subscription]
           /\ \A t \in Subscribers : subscriber'[t].room = subscriber[t].room
           /\ \A t \in Subscribers : t # s => subscriber'[t] = subscriber[t]
<1> DEFINE its == subscriber[s].room
<1>1. /\ modes \in Seq(CacheEntry) /\ refs \in [Rooms -> Nat] /\ its \in Rooms
      /\ subscriber \in [Subscribers -> Subscription]
      /\ e2ee # "none" => \A i \in DOMAIN modes : modes[i].mode = expected
  BY CacheEntries DEF CryptoInv, CryptoTypeOK, OnlySealedModes, SubscribersOK
<1>2. AgreesWith(modes)
  BY <1>1 DEF AgreesWith
<1>3. /\ subscriber' \in [Subscribers -> Subscription]
      /\ \A t \in Subscribers : subscriber'[t].room = subscriber[t].room
      /\ \A t \in Subscribers : t # s => subscriber'[t] = subscriber[t]
  <2>1. \E x \in SubscriberState : subscriber' = [subscriber EXCEPT ![s].state = x]
    <3>1. /\ subscriber[s].state \in SubscriberState
          /\ "released" \in SubscriberState /\ "destroyed" \in SubscriberState
      BY <1>1 DEF SubscriberState, Subscription
    <3>2. \/ subscriber' = [subscriber EXCEPT ![s].state = "released"]
          \/ subscriber' = [subscriber EXCEPT ![s].state = IF @ = "released" THEN @ ELSE "destroyed"]
      BY DEF Teardown
    <3>3. CASE subscriber' = [subscriber EXCEPT ![s].state = "released"]
      BY <3>1, <3>3
    <3>4. CASE subscriber' = [subscriber EXCEPT ![s].state = IF @ = "released" THEN @ ELSE "destroyed"]
      <4>1. subscriber' = [subscriber EXCEPT ![s].state =
                IF subscriber[s].state = "released" THEN subscriber[s].state ELSE "destroyed"]
        BY <3>4
      <4> QED
        BY <3>1, <4>1
    <3> QED
      BY <3>2, <3>3, <3>4
  <2> QED
    BY <1>1, <2>1 DEF Subscription
<1>4. CASE provider /\ subscriber[s].state # "released"
  <2>1. /\ refs' = Less(its)
        /\ modes' = IF refs'[its] = 0 THEN WithoutRoom(modes, its) ELSE modes
    BY <1>4 DEF Teardown
  <2>2. /\ Less(its) \in [Rooms -> Nat]
        /\ \A q \in Rooms : Less(its)[q] # 0 => refs[q] # 0
    BY <1>1, LessOf
  <2>3. CASE refs'[its] # 0
    BY <1>1, <1>2, <1>3, <2>1, <2>2, <2>3 DEF RoomKnown
  <2>4. CASE refs'[its] = 0
    <3>0. modes \in Seq(CacheEntry)
      BY <1>1
    <3>1. /\ WithoutRoom(modes, its) \in Seq(CacheEntry)
          /\ \A i \in DOMAIN WithoutRoom(modes, its) :
                \E j \in DOMAIN modes : WithoutRoom(modes, its)[i] = modes[j]
          /\ \A j \in DOMAIN modes : modes[j].room # its =>
                \E i \in DOMAIN WithoutRoom(modes, its) : WithoutRoom(modes, its)[i] = modes[j]
      <4> HIDE DEF its
      <4> QED
        BY <3>0, WithoutRoomModes, SMTT(30)
    <3>2. modes' = WithoutRoom(modes, its)
      BY <2>1, <2>4
    <3>3. AgreesWith(modes')
      BY <1>1, <3>1, <3>2 DEF AgreesWith
    <3>4. \A q \in Rooms : RoomKnown(q) /\ refs'[q] # 0 => \E i \in DOMAIN modes' : modes'[i].room = q
      BY <2>4, <3>1, <3>2 DEF RoomKnown
    <3> QED
      BY <1>3, <2>1, <2>2, <3>3, <3>4
  <2> QED
    BY <2>3, <2>4
<1>5. CASE ~(provider /\ subscriber[s].state # "released")
  <2>1. modes' = modes /\ refs' = refs
    BY <1>5 DEF Teardown
  <2> QED
    BY <1>1, <1>2, <1>3, <2>1 DEF RoomKnown
<1> QED
  BY <1>4, <1>5

-----------------------------------------------------------------------------
(* The steps *)

CallsFit(calls) ==
    /\ calls \in [Calls -> CallRecord]
    /\ \A c \in Calls : calls[c].stage # "idle" => calls[c].room \in Rooms
    /\ e2ee # "none" => \A c \in Calls : calls[c].form # "plain"

LEMMA CallsFitNow ==
    ASSUME CryptoInv PROVE CallsFit(call)
  BY DEF CryptoInv, CallsOK, OnlySealedModes, CallsFit

LEMMA CallBecomes ==
    ASSUME CryptoInv, NEW c \in Calls, NEW e \in CallRecord,
           e.stage # "idle" => e.room \in Rooms, e2ee # "none" => e.form # "plain",
           call' = [call EXCEPT ![c] = e]
    PROVE  CallsFit(call')
<1>1. CallsFit(call)
  BY CallsFitNow
<1>2. call \in [Calls -> CallRecord]
  BY <1>1 DEF CallsFit
<1>3. call' \in [Calls -> CallRecord]
  BY <1>2
<1>4. \A d \in Calls : call'[d] = IF d = c THEN e ELSE call[d]
  BY <1>2
<1> QED
  BY <1>1, <1>3, <1>4 DEF CallsFit

LEMMA StartFits ==
    ASSUME CryptoInv, NEW c \in Calls, NEW r \in Rooms,
           NEW op \in {"text", "optimistic", "file", "sealed", "list", "other"},
           NEW stage \in {"encoding", "preparing", "fetching"},
           NEW form \in Forms \cup {Nothing},
           e2ee # "none" => form # "plain", Start(c, op, r, stage, form)
    PROVE  CallsFit(call')
<1> DEFINE e == [op |-> op, room |-> r, stage |-> stage, form |-> form]
<1>1. e \in CallRecord /\ e.room = r /\ e.form = form
  BY DEF CallRecord
<1>2. call' = [call EXCEPT ![c] = e]
  BY DEF Start
<1> HIDE DEF e
<1> QED
  BY <1>1, <1>2, CallBecomes

LEMMA EndFits ==
    ASSUME CryptoInv, NEW c \in Calls, End(c)
    PROVE  CallsFit(call')
<1>1. NoCall \in CallRecord /\ NoCall.stage = "idle" /\ NoCall.form # "plain"
  BY CapAssumption DEF CallRecord, NoCall, Forms
<1>2. call' = [call EXCEPT ![c] = NoCall]
  BY DEF End
<1> QED
  BY <1>1, <1>2, CallBecomes

LEMMA StageFits ==
    ASSUME CryptoInv, NEW c \in Calls, call[c].stage # "idle",
           NEW stage \in {"encoding", "dispatching", "borrowing", "unsealing"},
           call' = [call EXCEPT ![c].stage = stage]
    PROVE  CallsFit(call')
<1>1. call[c] \in CallRecord /\ call[c].room \in Rooms
      /\ (e2ee # "none" => call[c].form # "plain")
  BY CallsFitNow DEF CallsFit
<1> DEFINE e == [call[c] EXCEPT !.stage = stage]
<1>2. e \in CallRecord /\ e.room = call[c].room /\ e.form = call[c].form
  BY <1>1 DEF CallRecord
<1>3. call' = [call EXCEPT ![c] = e]
  OBVIOUS
<1> HIDE DEF e
<1> QED
  BY <1>1, <1>2, <1>3, CallBecomes

SubscribersFit(subscribers) ==
    /\ subscribers \in [Subscribers -> Subscription]
    /\ \A s \in Subscribers : subscribers[s].state # "unused" => subscribers[s].room \in Rooms

\* What a step has to leave in each variable.
LEMMA InvariantAfter ==
    ASSUME CryptoInv, e2ee' = e2ee, expected' = expected, provider' \in BOOLEAN,
           AgreesWith(modes'), poisoned' \subseteq Rooms, refs' \in [Rooms -> Nat],
           SubscribersFit(subscriber'), CallsFit(call'),
           outgoing' \in BOOLEAN, handed' \in BOOLEAN,
           e2ee # "none" => ~outgoing' /\ ~handed'
    PROVE  CryptoInv'
<1>1. CryptoTypeOK'
  BY DEF CryptoInv, CryptoTypeOK, AgreesWith, SubscribersFit, CacheEntry
<1>2. CallsOK' /\ SubscribersOK'
  BY DEF CallsFit, SubscribersFit, CallsOK, SubscribersOK
<1>3. OnlySealedModes'
  <2>1. e2ee # "none" => expected \in Modes \ {"plaintext"}
    BY DEF CryptoInv, OnlySealedModes
  <2> QED
    BY <2>1 DEF OnlySealedModes, AgreesWith, CallsFit
<1>4. NoDowngrade'
  BY DEF NoDowngrade
<1> QED
  BY <1>1, <1>2, <1>3, <1>4 DEF CryptoInv

\* A state that has the invariant has all of that.
LEMMA InvariantParts ==
    ASSUME CryptoInv
    PROVE  /\ provider \in BOOLEAN /\ AgreesWith(modes) /\ poisoned \subseteq Rooms
           /\ refs \in [Rooms -> Nat] /\ SubscribersFit(subscriber) /\ CallsFit(call)
           /\ outgoing \in BOOLEAN /\ handed \in BOOLEAN
           /\ e2ee # "none" => ~outgoing /\ ~handed
<1>1. AgreesWith(modes)
  BY CacheEntries DEF CryptoInv, OnlySealedModes, AgreesWith
<1>2. SubscribersFit(subscriber) /\ CallsFit(call)
  BY CallsFitNow DEF CryptoInv, CryptoTypeOK, SubscribersOK, SubscribersFit
<1> QED
  BY <1>1, <1>2 DEF CryptoInv, CryptoTypeOK, NoDowngrade

LEMMA SendKeeps ==
    ASSUME CryptoInv, NEW c \in Calls, NEW r \in Rooms,
           SendText(c, r) \/ SendTextOptimistic(c, r) \/ SendFile(c, r) \/ SendSealed(c, r)
           \/ \E op \in {"list", "other"} : Fetch(c, op, r)
    PROVE  CryptoInv'
<1>1. e2ee # "none" => EffectiveMode(r) # "plaintext" /\ expected # Nothing
  BY ModeUnderE2ee
<1>2. "plain" \in Forms /\ "cipher" \in Forms /\ "presealed" \in Forms /\ Nothing # "plain"
  BY CapAssumption DEF Forms
<1>3. CallsFit(call')
  <2>1. CASE SendText(c, r)
    <3>1. CASE EffectiveMode(r) = "plaintext"
      BY <1>1, <1>2, <2>1, <3>1, StartFits DEF SendText
    <3>2. CASE EffectiveMode(r) # "plaintext"
      BY <1>2, <2>1, <3>2, StartFits DEF SendText
    <3> QED
      BY <3>1, <3>2
  <2>2. CASE SendTextOptimistic(c, r)
    <3>1. CASE EffectiveMode(r) = "plaintext" \/ (~provider /\ expected = Nothing)
      BY <1>1, <1>2, <2>2, <3>1, StartFits DEF SendTextOptimistic
    <3>2. CASE ~(EffectiveMode(r) = "plaintext" \/ (~provider /\ expected = Nothing))
      BY <1>2, <2>2, <3>2, StartFits DEF SendTextOptimistic
    <3> QED
      BY <3>1, <3>2
  <2>3. CASE SendFile(c, r)
    BY <1>2, <2>3, StartFits DEF SendFile
  <2>4. CASE SendSealed(c, r)
    BY <1>2, <2>4, StartFits DEF SendSealed
  <2>5. ASSUME NEW op \in {"list", "other"}, Fetch(c, op, r) PROVE CallsFit(call')
    BY <1>2, <2>5, StartFits DEF Fetch
  <2> QED
    BY <2>1, <2>2, <2>3, <2>4, <2>5
<1>4. UNCHANGED <<e2ee, expected, provider, modes, poisoned, refs, subscriber, outgoing, handed>>
  BY DEF SendText, SendTextOptimistic, SendFile, SendSealed, Fetch
<1> QED
  BY <1>3, <1>4, InvariantParts, InvariantAfter

LEMMA CryptoCallKeeps ==
    ASSUME CryptoInv, NEW c \in Calls,
           Prepared(c) \/ Post(c) \/ CallFails(c) \/ (\E stated \in Stated : Answer(c, stated))
           \/ Dispatch(c) \/ PageUnsealed(c)
    PROVE  CryptoInv'
<1>0. call[c].stage # "idle" => call[c].room \in Rooms
  BY CallsFitNow DEF CallsFit
<1>1. CASE Prepared(c)
  <2>1. CallsFit(call')
    BY <1>1, EndFits, StageFits DEF Prepared
  <2> QED
    BY <1>1, <2>1, InvariantParts, InvariantAfter DEF Prepared
<1>2. CASE Post(c)
  <2>1. CallsFit(call')
    BY <1>2, EndFits DEF Post
  <2>2. outgoing' \in BOOLEAN /\ (e2ee # "none" => ~outgoing')
    BY <1>2, InvariantParts, CallsFitNow DEF Post, CallsFit
  <2> QED
    BY <1>2, <2>1, <2>2, InvariantParts, InvariantAfter DEF Post
<1>3. CASE CallFails(c)
  <2>1. CallsFit(call')
    BY <1>3, EndFits DEF CallFails
  <2> QED
    BY <1>3, <2>1, InvariantParts, InvariantAfter DEF CallFails
<1>4. ASSUME NEW stated \in Stated, Answer(c, stated) PROVE CryptoInv'
  <2>1. CallsFit(call')
    BY <1>4, EndFits, StageFits DEF Answer
  <2>2. AgreesWith(modes') /\ poisoned' \subseteq Rooms
    <3>1. CASE call[c].op = "list"
      BY <1>0, <1>4, <3>1, ResolveKeeps DEF Answer
    <3>2. CASE call[c].op # "list"
      BY <1>4, <3>2, InvariantParts DEF Answer
    <3> QED
      BY <3>1, <3>2
  <2> QED
    BY <1>4, <2>1, <2>2, InvariantParts, InvariantAfter DEF Answer
<1>5. CASE Dispatch(c)
  <2>1. CallsFit(call')
    BY <1>5, EndFits, StageFits DEF Dispatch
  <2>2. refs' \in [Rooms -> Nat]
    BY <1>0, <1>5, InvariantParts DEF Dispatch
  <2>3. handed' \in BOOLEAN /\ (e2ee # "none" => ~handed')
    BY <1>5, InvariantParts, ModeUnderE2ee DEF Dispatch
  <2> QED
    BY <1>5, <2>1, <2>2, <2>3, InvariantParts, InvariantAfter DEF Dispatch
<1>6. CASE PageUnsealed(c)
  <2>1. CallsFit(call')
    BY <1>6, EndFits DEF PageUnsealed
  <2>2. refs' \in [Rooms -> Nat]
    BY <1>0, <1>6, InvariantParts, LessOf DEF PageUnsealed
  <2> QED
    BY <1>6, <2>1, <2>2, InvariantParts, InvariantAfter DEF PageUnsealed
<1> QED
  BY <1>1, <1>2, <1>3, <1>4, <1>5, <1>6

LEMMA SubscriptionKeeps ==
    ASSUME CryptoInv, NEW s \in Subscribers,
           (\E r \in Rooms : Join(s, r)) \/ Leave(s) \/ (\E stated \in Stated : StreamStates(s, stated))
           \/ ReplayRefused(s) \/ RowArrives(s)
    PROVE  CryptoInv'
<1>0. SubscribersFit(subscriber) /\ (subscriber[s].state # "unused" => subscriber[s].room \in Rooms)
  BY InvariantParts DEF SubscribersFit
<1>1. ASSUME Teardown(s, modes), subscriber[s].state # "unused"
      PROVE  AgreesWith(modes') /\ refs' \in [Rooms -> Nat] /\ SubscribersFit(subscriber')
  <2>1. /\ AgreesWith(modes') /\ refs' \in [Rooms -> Nat]
        /\ subscriber' \in [Subscribers -> Subscription]
        /\ \A t \in Subscribers : subscriber'[t].room = subscriber[t].room
        /\ \A t \in Subscribers : t # s => subscriber'[t] = subscriber[t]
    BY <1>1, TeardownKeeps
  <2> QED
    BY <1>0, <1>1, <2>1 DEF SubscribersFit
<1>2. ASSUME NEW r \in Rooms, Join(s, r) PROVE CryptoInv'
  <2>1. SubscribersFit(subscriber')
    BY <1>0, <1>2, InvariantParts DEF Join, SubscribersFit, SubscriberState, Subscription
  <2>2. refs' \in [Rooms -> Nat]
    BY <1>2, InvariantParts DEF Join
  <2> QED
    BY <1>2, <2>1, <2>2, InvariantParts, InvariantAfter DEF Join
<1>3. CASE Leave(s)
  BY <1>1, <1>3, InvariantParts, InvariantAfter DEF Leave
<1>4. ASSUME NEW stated \in Stated, StreamStates(s, stated) PROVE CryptoInv'
  <2>1. CASE Refused(stated)
    BY <1>0, <1>1, <1>4, <2>1, InvariantParts, InvariantAfter DEF StreamStates
  <2>2. CASE ~Refused(stated)
    <3>1. AgreesWith(modes') /\ poisoned' \subseteq Rooms
      BY <1>0, <1>4, <2>2, ResolveKeeps DEF StreamStates
    <3> QED
      BY <1>4, <2>2, <3>1, InvariantParts, InvariantAfter DEF StreamStates
  <2> QED
    BY <2>1, <2>2
<1>5. CASE ReplayRefused(s)
  BY <1>1, <1>5, InvariantParts, InvariantAfter DEF ReplayRefused
<1>6. CASE RowArrives(s)
  <2>1. handed' \in BOOLEAN /\ (e2ee # "none" => ~handed')
    <3>1. e2ee # "none" => RoomMode(subscriber[s].room) # "plaintext"
      BY ModeUnderE2ee, CapAssumption DEF Modes
    <3> QED
      BY <1>6, <3>1, InvariantParts DEF RowArrives
  <2> QED
    BY <1>6, <2>1, InvariantParts, InvariantAfter DEF RowArrives
<1> QED
  BY <1>2, <1>3, <1>4, <1>5, <1>6

LEMMA CryptoInitInv == CryptoInit => CryptoInv
<1> SUFFICES ASSUME CryptoInit PROVE CryptoInv
  OBVIOUS
<1>1. /\ modes = <<>> /\ <<>> \in Seq(CacheEntry) /\ DOMAIN <<>> = {}
  BY DEF CryptoInit
<1>2. expected \in Modes \cup {Nothing} /\ (e2ee # "none" => expected \in Modes \ {"plaintext"})
  <2>1. PICK explicit \in Modes \cup {Nothing} :
            /\ ~(e2ee # "none" /\ explicit = "plaintext")
            /\ expected = Configured(e2ee, explicit)
    BY DEF CryptoInit
  <2>2. e2ee \in {"none", "eager", "mls"}
    BY DEF CryptoInit
  <2> QED
    BY <2>1, <2>2 DEF Configured, Modes
<1>3. CryptoTypeOK
  BY <1>1, <1>2 DEF CryptoInit, CryptoTypeOK, SubscriberState, Subscription, CacheEntry
<1>4. call = [c \in Calls |-> NoCall] /\ NoCall \in CallRecord /\ NoCall.stage = "idle"
      /\ NoCall.form # "plain"
  BY CapAssumption DEF CryptoInit, NoCall, CallRecord, Forms
<1>5. CallsOK /\ OnlySealedModes
  BY <1>1, <1>2, <1>4 DEF CallsOK, OnlySealedModes
<1>6. SubscribersOK /\ NoDowngrade
  BY DEF CryptoInit, SubscribersOK, NoDowngrade
<1> QED
  BY <1>3, <1>5, <1>6 DEF CryptoInv

LEMMA CryptoNextInv == CryptoInv /\ [CryptoNext]_cryptoVars => CryptoInv'
<1> SUFFICES ASSUME CryptoInv, [CryptoNext]_cryptoVars PROVE CryptoInv'
  OBVIOUS
<1>1. ASSUME NEW c \in Calls, NEW r \in Rooms,
             SendText(c, r) \/ SendTextOptimistic(c, r) \/ SendFile(c, r) \/ SendSealed(c, r)
             \/ \E op \in {"list", "other"} : Fetch(c, op, r)
      PROVE  CryptoInv'
  BY <1>1, SendKeeps
<1>2. ASSUME NEW c \in Calls,
             Prepared(c) \/ Post(c) \/ CallFails(c) \/ (\E stated \in Stated : Answer(c, stated))
             \/ Dispatch(c) \/ PageUnsealed(c)
      PROVE  CryptoInv'
  BY <1>2, CryptoCallKeeps
<1>3. CASE CreateMlsProvider
  BY <1>3, InvariantParts, InvariantAfter DEF CreateMlsProvider
<1>4. ASSUME NEW s \in Subscribers,
             (\E r \in Rooms : Join(s, r)) \/ Leave(s)
             \/ (\E stated \in Stated : StreamStates(s, stated)) \/ ReplayRefused(s) \/ RowArrives(s)
      PROVE  CryptoInv'
  BY <1>4, SubscriptionKeeps
<1>5. CASE UNCHANGED cryptoVars
  BY <1>5, InvariantParts, InvariantAfter DEF cryptoVars
<1> QED
  BY <1>1, <1>2, <1>3, <1>4, <1>5 DEF CryptoNext

LEMMA AlwaysCryptoInv == CryptoSpec => []CryptoInv
  BY CryptoInitInv, CryptoNextInv, PTL DEF CryptoSpec

\* Every variable keeps its type (the state of client.ts's mode decisions).
THEOREM CryptoTypeCorrect == CryptoSpec => []CryptoTypeOK
<1>1. CryptoInv => CryptoTypeOK
  BY DEF CryptoInv
<1> QED
  BY <1>1, AlwaysCryptoInv, PTL

\* A client with an e2ee option never posts a text in the clear and never takes
\* a row's bytes for its text, however many rooms, calls and subscriptions it
\* has and whatever modes the server states.
THEOREM NeverDowngraded == CryptoSpec => []NoDowngrade
<1>1. CryptoInv => NoDowngrade
  BY DEF CryptoInv
<1> QED
  BY <1>1, AlwaysCryptoInv, PTL

-----------------------------------------------------------------------------
(* Who holds a room on the chain *)

Holders(r) == {s \in Subscribers : subscriber[s] = [room |-> r, state |-> "live", share |-> TRUE]}
Borrowers(r) == {c \in Calls : call[c].stage = "borrowing" /\ call[c].room = r}

Counted(r) == refs[r] = Cardinality(Holders(r)) + Cardinality(Borrowers(r))

\* Shares are taken under a provider only; in a room without a robbery the
\* chain counts exactly those who hold it.
SharesInv ==
    /\ \A s \in Subscribers : subscriber[s].share => /\ provider
                                                     /\ subscriber[s].state \in {"live", "released"}
    /\ \A r \in Rooms : Robbed(r) \/ Counted(r)

LEMMA HoldersFinite ==
    \A r : /\ IsFiniteSet(Holders(r)) /\ Cardinality(Holders(r)) \in Nat
           /\ IsFiniteSet(Borrowers(r)) /\ Cardinality(Borrowers(r)) \in Nat
<1> TAKE r
<1>1. Holders(r) \in SUBSET Subscribers /\ Borrowers(r) \in SUBSET Calls
  BY DEF Holders, Borrowers
<1>2. IsFiniteSet(Holders(r)) /\ IsFiniteSet(Borrowers(r))
  <2> HIDE DEF Holders, Borrowers
  <2> QED
    BY <1>1, HostAssumption, FS_Subset
<1> QED
  BY <1>2, FS_CardinalityType

LEMMA MembersCount ==
    ASSUME NEW S, IsFiniteSet(S), NEW x \in S
    PROVE  Cardinality(S) \in Nat /\ Cardinality(S) > 0
<1>1. Cardinality(S) \in Nat
  BY FS_CardinalityType
<1>2. Cardinality(S) # 0
  BY FS_EmptySet
<1> QED
  BY <1>1, <1>2

\* A room that is in use, and never was robbed, is counted.
LEMMA UsedIsCounted ==
    ASSUME SharesInv, NEW r \in Rooms, InUse(r), ~Robbed(r)
    PROVE  refs[r] > 0
<1>1. refs[r] = Cardinality(Holders(r)) + Cardinality(Borrowers(r))
  BY DEF SharesInv, Counted
<1>2. /\ IsFiniteSet(Holders(r)) /\ Cardinality(Holders(r)) \in Nat
      /\ IsFiniteSet(Borrowers(r)) /\ Cardinality(Borrowers(r)) \in Nat
  BY HoldersFinite
<1>3. (\E s : s \in Holders(r)) \/ (\E c : c \in Borrowers(r))
  BY DEF InUse, Holders, Borrowers
<1>4. Cardinality(Holders(r)) > 0 \/ Cardinality(Borrowers(r)) > 0
  BY <1>2, <1>3, MembersCount
<1> QED
  BY <1>1, <1>2, <1>4

LEMMA UsedIsCountedAfter ==
    ASSUME SharesInv', NEW r \in Rooms, InUse(r)', ~Robbed(r)'
    PROVE  refs'[r] > 0
<1>1. refs'[r] = Cardinality(Holders(r)') + Cardinality(Borrowers(r)')
  BY DEF SharesInv, Counted
<1>2. (\E s : s \in Holders(r)') \/ (\E c : c \in Borrowers(r)')
  BY DEF InUse, Holders, Borrowers
<1>3. Holders(r)' \in SUBSET Subscribers /\ Borrowers(r)' \in SUBSET Calls
  BY DEF Holders, Borrowers
<1>4. /\ IsFiniteSet(Holders(r)') /\ Cardinality(Holders(r)') \in Nat
      /\ IsFiniteSet(Borrowers(r)') /\ Cardinality(Borrowers(r)') \in Nat
  <2>1. IsFiniteSet(Holders(r)') /\ IsFiniteSet(Borrowers(r)')
    BY <1>3, HostAssumption, FS_Subset
  <2> QED
    BY <2>1, FS_CardinalityType
<1>5. Cardinality(Holders(r)') > 0 \/ Cardinality(Borrowers(r)') > 0
  BY <1>2, <1>4, MembersCount
<1> QED
  BY <1>1, <1>4, <1>5

\* A step that changes neither a room's holders nor its count, or both by one.
LEMMA CountKept ==
    ASSUME NEW r, Robbed(r) \/ Counted(r), Robbed(r) => Robbed(r)',
           Holders(r)' = Holders(r), Borrowers(r)' = Borrowers(r), refs'[r] = refs[r]
    PROVE  Robbed(r)' \/ Counted(r)'
  BY DEF Counted

LEMMA HolderComes ==
    ASSUME NEW r, Counted(r), NEW s, s \notin Holders(r), Holders(r)' = Holders(r) \cup {s},
           Borrowers(r)' = Borrowers(r), refs'[r] = refs[r] + 1
    PROVE  Counted(r)'
<1>1. Cardinality(Holders(r) \cup {s}) = Cardinality(Holders(r)) + 1
  BY HoldersFinite, FS_AddElement
<1> QED
  BY <1>1, HoldersFinite DEF Counted

LEMMA HolderGoes ==
    ASSUME NEW r \in Rooms, refs \in [Rooms -> Nat], Counted(r), NEW s \in Holders(r),
           Holders(r)' = Holders(r) \ {s}, Borrowers(r)' = Borrowers(r), refs' = Less(r)
    PROVE  Counted(r)'
<1>1. Cardinality(Holders(r) \ {s}) = Cardinality(Holders(r)) - 1 /\ Cardinality(Holders(r)) > 0
  BY HoldersFinite, FS_RemoveElement, MembersCount
<1>2. refs[r] > 0 /\ refs'[r] = refs[r] - 1
  BY <1>1, HoldersFinite DEF Counted, Less
<1> QED
  BY <1>1, <1>2, HoldersFinite DEF Counted

LEMMA BorrowerComes ==
    ASSUME NEW r, Counted(r), NEW c, c \notin Borrowers(r), Borrowers(r)' = Borrowers(r) \cup {c},
           Holders(r)' = Holders(r), refs'[r] = refs[r] + 1
    PROVE  Counted(r)'
<1>1. Cardinality(Borrowers(r) \cup {c}) = Cardinality(Borrowers(r)) + 1
  BY HoldersFinite, FS_AddElement
<1> QED
  BY <1>1, HoldersFinite DEF Counted

LEMMA BorrowerGoes ==
    ASSUME NEW r \in Rooms, refs \in [Rooms -> Nat], Counted(r), NEW c \in Borrowers(r),
           Borrowers(r)' = Borrowers(r) \ {c}, Holders(r)' = Holders(r), refs' = Less(r)
    PROVE  Counted(r)'
<1>1. Cardinality(Borrowers(r) \ {c}) = Cardinality(Borrowers(r)) - 1 /\ Cardinality(Borrowers(r)) > 0
  BY HoldersFinite, FS_RemoveElement, MembersCount
<1>2. refs[r] > 0 /\ refs'[r] = refs[r] - 1
  BY <1>1, HoldersFinite DEF Counted, Less
<1> QED
  BY <1>1, <1>2, HoldersFinite DEF Counted

\* What a step does to the calls that borrow: nothing, unless it starts or ends
\* a borrowing.
LEMMA BorrowersKept ==
    ASSUME CryptoInv, NEW c \in Calls, NEW e, call' = [call EXCEPT ![c] = e],
           call[c].stage # "borrowing", e.stage # "borrowing"
    PROVE  \A r : Borrowers(r)' = Borrowers(r)
<1>1. call \in [Calls -> CallRecord]
  BY CallsFitNow DEF CallsFit
<1>2. \A d \in Calls : call'[d] = IF d = c THEN e ELSE call[d]
  BY <1>1
<1> QED
  BY <1>2 DEF Borrowers

\* A call goes on to another stage, keeping its room.
LEMMA StageBecomes ==
    ASSUME CryptoInv, NEW c \in Calls, NEW stage, call' = [call EXCEPT ![c].stage = stage]
    PROVE  \E e : call' = [call EXCEPT ![c] = e] /\ e.stage = stage /\ e.room = call[c].room
<1>1. call[c] \in CallRecord
  BY CallsFitNow DEF CallsFit
<1> DEFINE e == [call[c] EXCEPT !.stage = stage]
<1>2. call' = [call EXCEPT ![c] = e] /\ e.stage = stage /\ e.room = call[c].room
  BY <1>1 DEF CallRecord
<1> QED
  BY <1>2

LEMMA CallStepKeepsShares ==
    ASSUME CryptoInv, SharesInv, UNCHANGED <<subscriber, provider>>,
           \/ call' = call /\ refs' = refs
           \/ \E c \in Calls, r \in Rooms :
                   SendText(c, r) \/ SendTextOptimistic(c, r) \/ SendFile(c, r) \/ SendSealed(c, r)
                   \/ \E op \in {"list", "other"} : Fetch(c, op, r)
           \/ \E c \in Calls :
                   Prepared(c) \/ Post(c) \/ CallFails(c) \/ (\E stated \in Stated : Answer(c, stated))
                   \/ Dispatch(c) \/ PageUnsealed(c)
    PROVE  SharesInv'
<1>1. \A r : Holders(r)' = Holders(r) /\ (Robbed(r) => Robbed(r)')
  BY DEF Holders, Robbed
<1>2. SUFFICES ASSUME NEW r \in Rooms PROVE Robbed(r)' \/ Counted(r)'
  BY DEF SharesInv
<1>3. Robbed(r) \/ Counted(r)
  BY DEF SharesInv
<1>4. refs \in [Rooms -> Nat] /\ CallsFit(call)
  BY InvariantParts
<1>5. ASSUME NEW c \in Calls, NEW e, call' = [call EXCEPT ![c] = e], refs' = refs,
             call[c].stage # "borrowing", e.stage # "borrowing"
      PROVE  Robbed(r)' \/ Counted(r)'
  BY <1>1, <1>3, <1>5, BorrowersKept, CountKept
<1>6. CASE call' = call /\ refs' = refs
  <2>1. Borrowers(r)' = Borrowers(r)
    BY <1>6 DEF Borrowers
  <2> QED
    BY <1>1, <1>3, <1>6, <2>1, CountKept
<1>7. ASSUME NEW c \in Calls, NEW q \in Rooms,
             SendText(c, q) \/ SendTextOptimistic(c, q) \/ SendFile(c, q) \/ SendSealed(c, q)
             \/ \E op \in {"list", "other"} : Fetch(c, op, q)
      PROVE  Robbed(r)' \/ Counted(r)'
  <2>1. call[c].stage = "idle" /\ refs' = refs
    BY <1>7 DEF SendText, SendTextOptimistic, SendFile, SendSealed, Fetch, Idle
  <2>2. \E op, stage, form : Start(c, op, q, stage, form) /\ stage # "borrowing"
    <3>1. SendText(c, q) => \E op, stage, form : Start(c, op, q, stage, form) /\ stage # "borrowing"
      BY DEF SendText
    <3>2. SendTextOptimistic(c, q) =>
            \E op, stage, form : Start(c, op, q, stage, form) /\ stage # "borrowing"
      BY DEF SendTextOptimistic
    <3>3. SendFile(c, q) \/ SendSealed(c, q) \/ (\E op \in {"list", "other"} : Fetch(c, op, q)) =>
            \E op, stage, form : Start(c, op, q, stage, form) /\ stage # "borrowing"
      BY DEF SendFile, SendSealed, Fetch
    <3> QED
      BY <1>7, <3>1, <3>2, <3>3
  <2>3. \E e : call' = [call EXCEPT ![c] = e] /\ e.stage # "borrowing"
    <3>1. PICK op, stage, form : Start(c, op, q, stage, form) /\ stage # "borrowing"
      BY <2>2
    <3> DEFINE e == [op |-> op, room |-> q, stage |-> stage, form |-> form]
    <3>2. call' = [call EXCEPT ![c] = e] /\ e.stage # "borrowing"
      BY <3>1 DEF Start
    <3> HIDE DEF e
    <3> QED
      BY <3>2
  <2> QED
    BY <1>5, <2>1, <2>3
<1>8. ASSUME NEW c \in Calls,
             Prepared(c) \/ Post(c) \/ CallFails(c) \/ \E stated \in Stated : Answer(c, stated)
      PROVE  Robbed(r)' \/ Counted(r)'
  <2>1. call[c].stage # "borrowing" /\ refs' = refs
    BY <1>8 DEF Prepared, Post, CallFails, Answer
  <2>2. End(c) \/ \E stage \in {"encoding", "dispatching"} : call' = [call EXCEPT ![c].stage = stage]
    BY <1>8 DEF Prepared, Post, CallFails, Answer
  <2>3. CASE End(c)
    <3>1. call' = [call EXCEPT ![c] = NoCall] /\ NoCall.stage # "borrowing"
      BY <2>3 DEF End, NoCall
    <3> QED
      BY <1>5, <2>1, <3>1
  <2>4. ASSUME NEW stage \in {"encoding", "dispatching"}, call' = [call EXCEPT ![c].stage = stage]
        PROVE  Robbed(r)' \/ Counted(r)'
    <3>1. PICK e : call' = [call EXCEPT ![c] = e] /\ e.stage = stage /\ e.room = call[c].room
      BY <2>4, StageBecomes, Zenon
    <3> QED
      BY <1>5, <2>1, <3>1
  <2> QED
    BY <2>2, <2>3, <2>4
<1>9. ASSUME NEW c \in Calls, Dispatch(c) PROVE Robbed(r)' \/ Counted(r)'
  <2> DEFINE its == call[c].room
  <2>1. its \in Rooms /\ call[c].stage = "dispatching"
    BY <1>4, <1>9 DEF CallsFit, Dispatch
  <2>2. CASE EffectiveMode(its) # "plaintext" /\ provider /\ refs[its] = 0
    <3>1. refs' = [refs EXCEPT ![its] = @ + 1] /\ call' = [call EXCEPT ![c].stage = "borrowing"]
      BY <1>9, <2>2 DEF Dispatch
    <3>2. PICK e : call' = [call EXCEPT ![c] = e] /\ e.stage = "borrowing" /\ e.room = its
      BY <3>1, StageBecomes
    <3>3. \A d \in Calls : call'[d] = IF d = c THEN e ELSE call[d]
      BY <1>4, <3>2 DEF CallsFit
    <3>4. \A q : Borrowers(q)' = IF q = its THEN Borrowers(q) \cup {c} ELSE Borrowers(q)
      BY <2>1, <3>2, <3>3 DEF Borrowers
    <3>5. c \notin Borrowers(its)
      BY <2>1 DEF Borrowers
    <3>6. CASE r = its
      <4>1. refs'[r] = refs[r] + 1
        BY <1>4, <3>1, <3>6
      <4> QED
        BY <1>1, <1>3, <3>4, <3>5, <3>6, <4>1, BorrowerComes
    <3>7. CASE r # its
      <4>1. refs'[r] = refs[r]
        BY <1>4, <3>1, <3>7
      <4> QED
        BY <1>1, <1>3, <3>4, <3>7, <4>1, CountKept
    <3> QED
      BY <3>6, <3>7
  <2>3. CASE ~(EffectiveMode(its) # "plaintext" /\ provider /\ refs[its] = 0)
    <3>1. /\ refs' = refs
          /\ End(c) \/ call' = [call EXCEPT ![c].stage = "unsealing"]
      BY <1>9, <2>3 DEF Dispatch
    <3>2. \E e : call' = [call EXCEPT ![c] = e] /\ e.stage \in {"idle", "unsealing"}
      BY <3>1, StageBecomes DEF End, NoCall
    <3> QED
      BY <1>5, <2>1, <3>1, <3>2
  <2> QED
    BY <2>2, <2>3
<1>10. ASSUME NEW c \in Calls, PageUnsealed(c) PROVE Robbed(r)' \/ Counted(r)'
  <2> DEFINE its == call[c].room
  <2>1. its \in Rooms /\ call' = [call EXCEPT ![c] = NoCall] /\ NoCall.stage = "idle"
    BY <1>4, <1>10 DEF CallsFit, PageUnsealed, End, NoCall
  <2>2. CASE call[c].stage = "borrowing"
    <3>1. refs' = Less(its)
      BY <1>10, <2>2 DEF PageUnsealed
    <3>2. \A d \in Calls : call'[d] = IF d = c THEN NoCall ELSE call[d]
      BY <1>4, <2>1 DEF CallsFit
    <3>3. \A q : Borrowers(q)' = IF q = its THEN Borrowers(q) \ {c} ELSE Borrowers(q)
      BY <2>1, <2>2, <3>2 DEF Borrowers
    <3>4. c \in Borrowers(its)
      BY <2>2 DEF Borrowers
    <3>5. CASE r = its
      BY <1>1, <1>3, <1>4, <3>1, <3>3, <3>4, <3>5, BorrowerGoes
    <3>6. CASE r # its
      <4>1. refs'[r] = refs[r]
        BY <1>4, <2>1, <3>1, <3>6, LessOf
      <4> QED
        BY <1>1, <1>3, <3>3, <3>6, <4>1, CountKept
    <3> QED
      BY <3>5, <3>6
  <2>3. CASE call[c].stage # "borrowing"
    BY <1>5, <1>10, <2>1, <2>3 DEF PageUnsealed
  <2> QED
    BY <2>2, <2>3
<1> QED
  BY <1>6, <1>7, <1>8, <1>9, <1>10

LEMMA JoinKeepsShares ==
    ASSUME CryptoInv, SharesInv, NEW s \in Subscribers, NEW q \in Rooms, Join(s, q)
    PROVE  SharesInv'
<1> DEFINE new == [room |-> q, state |-> "live", share |-> provider]
<1>1. /\ subscriber \in [Subscribers -> Subscription] /\ refs \in [Rooms -> Nat]
      /\ provider \in BOOLEAN
  BY InvariantParts DEF SubscribersFit
<1>2. /\ subscriber' = [subscriber EXCEPT ![s] = new] /\ subscriber[s].state = "unused"
      /\ provider' = provider /\ call' = call
      /\ refs' = IF provider THEN [refs EXCEPT ![q] = @ + 1] ELSE refs
  BY DEF Join
<1>3. \A t \in Subscribers : subscriber'[t] = IF t = s THEN new ELSE subscriber[t]
  BY <1>1, <1>2
<1>4. \A t \in Subscribers : subscriber'[t].share =>
            provider' /\ subscriber'[t].state \in {"live", "released"}
  BY <1>2, <1>3 DEF SharesInv
<1>5. SUFFICES ASSUME NEW r \in Rooms PROVE Robbed(r)' \/ Counted(r)'
  BY <1>4 DEF SharesInv
<1>6. (Robbed(r) \/ Counted(r)) /\ (Robbed(r) => Robbed(r)') /\ Borrowers(r)' = Borrowers(r)
  <2>1. (Robbed(r) \/ Counted(r)) /\ Borrowers(r)' = Borrowers(r)
    BY <1>2 DEF SharesInv, Borrowers
  <2>2. ASSUME Robbed(r) PROVE Robbed(r)'
    <3>1. PICK t \in Subscribers : subscriber[t] = [room |-> r, state |-> "released", share |-> FALSE]
      BY <2>2 DEF Robbed
    <3>2. subscriber'[t] = subscriber[t]
      BY <1>2, <1>3, <3>1
    <3> QED
      BY <3>1, <3>2 DEF Robbed
  <2> QED
    BY <2>1, <2>2
<1>7. s \notin Holders(r)
  BY <1>2 DEF Holders
<1>8. CASE provider /\ r = q
  <2>1. Holders(r)' = Holders(r) \cup {s} /\ refs'[r] = refs[r] + 1
    BY <1>1, <1>2, <1>3, <1>8 DEF Holders
  <2> QED
    BY <1>6, <1>7, <2>1, HolderComes
<1>9. CASE ~(provider /\ r = q)
  <2>1. new # [room |-> r, state |-> "live", share |-> TRUE]
    BY <1>1, <1>9
  <2>2. Holders(r)' = Holders(r) /\ refs'[r] = refs[r]
    BY <1>1, <1>2, <1>3, <1>7, <1>9, <2>1 DEF Holders
  <2> QED
    BY <1>6, <2>2, CountKept
<1> QED
  BY <1>8, <1>9

LEMMA TeardownKeepsShares ==
    ASSUME CryptoInv, SharesInv, NEW s \in Subscribers, subscriber[s].state # "unused",
           Teardown(s, modes), call' = call, provider' = provider
    PROVE  SharesInv' /\ \A r : Robbed(r) => Robbed(r)'
<1> DEFINE its == subscriber[s].room
<1>1. /\ subscriber \in [Subscribers -> Subscription] /\ refs \in [Rooms -> Nat] /\ its \in Rooms
  BY InvariantParts DEF SubscribersFit
<1>2. PICK x : /\ subscriber' = [subscriber EXCEPT ![s].state = x]
               /\ x = IF provider \/ subscriber[s].state = "released" THEN "released" ELSE "destroyed"
               /\ refs' = IF provider /\ subscriber[s].state # "released" THEN Less(its) ELSE refs
  <2>1. CASE provider /\ subscriber[s].state # "released"
    BY <2>1 DEF Teardown
  <2>2. CASE ~(provider /\ subscriber[s].state # "released")
    <3>1. /\ subscriber' = [subscriber EXCEPT
                ![s].state = IF subscriber[s].state = "released" THEN "released" ELSE "destroyed"]
          /\ refs' = refs
      BY <2>2 DEF Teardown
    <3> QED
      BY <2>2, <3>1
  <2> QED
    BY <2>1, <2>2
<1> DEFINE new == [room |-> its, state |-> x, share |-> subscriber[s].share]
<1>3. \A t \in Subscribers : subscriber'[t] = IF t = s THEN new ELSE subscriber[t]
  BY <1>1, <1>2 DEF Subscription
<1>4. subscriber[s] = [room |-> its, state |-> subscriber[s].state, share |-> subscriber[s].share]
      /\ subscriber[s].share \in BOOLEAN
  BY <1>1 DEF Subscription
<1>5. \A t \in Subscribers : subscriber'[t].share =>
            provider' /\ subscriber'[t].state \in {"live", "released"}
  BY <1>2, <1>3 DEF SharesInv
<1>6. ASSUME NEW r, Robbed(r) PROVE Robbed(r)'
  <2>1. PICK t \in Subscribers : subscriber[t] = [room |-> r, state |-> "released", share |-> FALSE]
    BY <1>6 DEF Robbed
  <2>2. subscriber'[t] = subscriber[t]
    BY <1>2, <1>3, <1>4, <2>1
  <2> QED
    BY <2>1, <2>2 DEF Robbed
<1>7. ASSUME NEW r \in Rooms PROVE Robbed(r)' \/ Counted(r)'
  <2>1. (Robbed(r) \/ Counted(r)) /\ Borrowers(r)' = Borrowers(r)
    BY DEF SharesInv, Borrowers
  <2>2. x # "live"
    BY <1>2
  <2>3. CASE s \in Holders(r)
    <3>1. /\ its = r /\ subscriber[s].share = TRUE /\ subscriber[s].state = "live" /\ provider
      BY <2>3 DEF Holders, SharesInv
    <3>2. Holders(r)' = Holders(r) \ {s}
      BY <1>3, <2>2 DEF Holders
    <3>3. refs' = Less(r)
      BY <1>2, <3>1
    <3> QED
      BY <1>1, <1>6, <2>1, <2>3, <3>2, <3>3, HolderGoes
  <2>4. CASE s \notin Holders(r)
    <3>1. Holders(r)' = Holders(r)
      BY <1>3, <2>2, <2>4 DEF Holders
    <3>2. CASE its # r \/ refs' = refs
      <4>1. refs'[r] = refs[r]
        BY <1>1, <1>2, <3>2, LessOf
      <4> QED
        BY <1>6, <2>1, <3>1, <4>1, CountKept
    <3>3. CASE its = r /\ refs' # refs
      <4>1. provider /\ subscriber[s].state # "released"
        BY <1>2, <3>3
      <4>2. subscriber[s].share = FALSE
        <5>1. ASSUME subscriber[s].share = TRUE PROVE FALSE
          <6>1. subscriber[s].state = "live"
            BY <4>1, <5>1 DEF SharesInv
          <6> QED
            BY <1>4, <2>4, <3>3, <5>1, <6>1 DEF Holders
        <5> QED
          BY <1>4, <5>1
      <4>3. subscriber'[s] = [room |-> r, state |-> "released", share |-> FALSE]
        BY <1>2, <1>3, <3>3, <4>1, <4>2
      <4> QED
        BY <4>3 DEF Robbed
    <3> QED
      BY <3>2, <3>3
  <2> QED
    BY <2>3, <2>4
<1> QED
  BY <1>5, <1>6, <1>7 DEF SharesInv

\* Every step is of one of the kinds above, or only brings the MLS provider.
LEMMA SharesStep ==
    ASSUME CryptoInv, SharesInv, [CryptoNext]_cryptoVars
    PROVE  SharesInv' /\ \A r : Robbed(r) => Robbed(r)'
<1>1. ASSUME UNCHANGED subscriber PROVE \A r : Robbed(r) => Robbed(r)'
  BY <1>1 DEF Robbed
<1>2. ASSUME NEW c \in Calls, NEW r \in Rooms,
             SendText(c, r) \/ SendTextOptimistic(c, r) \/ SendFile(c, r) \/ SendSealed(c, r)
             \/ \E op \in {"list", "other"} : Fetch(c, op, r)
      PROVE  SharesInv' /\ UNCHANGED subscriber
  <2>1. UNCHANGED <<subscriber, provider>>
    BY <1>2 DEF SendText, SendTextOptimistic, SendFile, SendSealed, Fetch
  <2> QED
    BY <1>2, <2>1, CallStepKeepsShares
<1>3. ASSUME NEW c \in Calls,
             Prepared(c) \/ Post(c) \/ CallFails(c) \/ (\E stated \in Stated : Answer(c, stated))
             \/ Dispatch(c) \/ PageUnsealed(c)
      PROVE  SharesInv' /\ UNCHANGED subscriber
  <2>1. UNCHANGED <<subscriber, provider>>
    BY <1>3 DEF Prepared, Post, CallFails, Answer, Dispatch, PageUnsealed
  <2> QED
    BY <1>3, <2>1, CallStepKeepsShares
<1>4. CASE CreateMlsProvider
  <2>1. UNCHANGED <<subscriber, call, refs>> /\ provider' = TRUE
    BY <1>4 DEF CreateMlsProvider
  <2> QED
    BY <1>1, <2>1 DEF SharesInv, Robbed, Counted, Holders, Borrowers
<1>5. ASSUME NEW s \in Subscribers, NEW r \in Rooms, Join(s, r)
      PROVE  SharesInv' /\ \A q : Robbed(q) => Robbed(q)'
  <2>1. subscriber[s].state = "unused" /\ subscriber \in [Subscribers -> Subscription]
    BY <1>5, InvariantParts DEF Join, SubscribersFit
  <2>2. \A t \in Subscribers : subscriber[t].state = "released" => subscriber'[t] = subscriber[t]
    BY <1>5, <2>1 DEF Join
  <2>3. \A q : Robbed(q) => Robbed(q)'
    BY <2>2 DEF Robbed
  <2> QED
    BY <1>5, <2>3, JoinKeepsShares
<1>6. ASSUME NEW s \in Subscribers,
             Leave(s) \/ (\E stated \in Stated : StreamStates(s, stated)) \/ ReplayRefused(s)
             \/ RowArrives(s)
      PROVE  SharesInv' /\ \A r : Robbed(r) => Robbed(r)'
  <2>1. call' = call /\ provider' = provider
    BY <1>6 DEF Leave, StreamStates, ReplayRefused, RowArrives
  <2>2. \/ subscriber[s].state # "unused" /\ Teardown(s, modes)
        \/ UNCHANGED <<subscriber, refs>>
    BY <1>6 DEF Leave, StreamStates, ReplayRefused, RowArrives
  <2>3. CASE subscriber[s].state # "unused" /\ Teardown(s, modes)
    BY <2>1, <2>3, TeardownKeepsShares
  <2>4. CASE UNCHANGED <<subscriber, refs>>
    BY <1>1, <2>1, <2>4, CallStepKeepsShares
  <2> QED
    BY <2>2, <2>3, <2>4
<1>7. CASE UNCHANGED cryptoVars
  <2>1. UNCHANGED <<subscriber, provider, call, refs>>
    BY <1>7 DEF cryptoVars
  <2> QED
    BY <1>1, <2>1, CallStepKeepsShares
<1> QED
  BY <1>1, <1>2, <1>3, <1>4, <1>5, <1>6, <1>7 DEF CryptoNext

LEMMA SharesInit == CryptoInit => SharesInv
<1> SUFFICES ASSUME CryptoInit PROVE SharesInv
  OBVIOUS
<1>1. \A s \in Subscribers : subscriber[s] = [room |-> Nothing, state |-> "unused", share |-> FALSE]
  BY DEF CryptoInit
<1>2. \A c \in Calls : call[c].stage = "idle"
  BY DEF CryptoInit, NoCall
<1>3. \A r \in Rooms : refs[r] = 0 /\ Holders(r) = {} /\ Borrowers(r) = {}
  BY <1>1, <1>2 DEF CryptoInit, Holders, Borrowers
<1>4. Cardinality({}) = 0 /\ 0 = 0 + 0
  BY FS_EmptySet
<1>5. \A r \in Rooms : Counted(r)
  BY <1>3, <1>4 DEF Counted
<1>6. \A s \in Subscribers : ~subscriber[s].share
  BY <1>1
<1> QED
  BY <1>5, <1>6 DEF SharesInv

\* The cache of the next state has what somebody held before and holds after.
LEMMA StepKeepsHeld ==
    ASSUME CryptoInv, CryptoInv', SharesInv, [CryptoNext]_cryptoVars
    PROVE  HeldModesStay
<1>0. SharesInv' /\ \A r : Robbed(r) => Robbed(r)'
  BY SharesStep
<1>1. SUFFICES ASSUME NEW r \in Rooms, refs[r] > 0, refs'[r] > 0, RoomKnown(r)
               PROVE  \E i \in DOMAIN modes' : modes'[i].room = r
  <2>1. \A r \in Rooms : RoomMode(r) # Nothing => RoomKnown(r)
    BY ModeOfRoom DEF CryptoInv
  <2>2. modes' \in Seq(CacheEntry)
    BY DEF CryptoInv, CryptoTypeOK, CacheEntry
  <2>3. \A r : ModeIn(modes', r) # Nothing <=> \E i \in DOMAIN modes' : modes'[i].room = r
    BY <2>2, ModeInCache
  <2>4. \A r : RoomMode(r)' = ModeIn(modes', r)
    BY DEF RoomMode, ModeIn
  <2>5. \A r \in Rooms : InUse(r) /\ ~Robbed(r)' => refs[r] > 0
    BY <1>0, UsedIsCounted
  <2>6. \A r \in Rooms : InUse(r)' /\ ~Robbed(r)' => refs'[r] > 0
    BY <1>0, UsedIsCountedAfter
  <2> QED
    BY <2>1, <2>3, <2>4, <2>5, <2>6 DEF HeldModesStay
<1>2. refs \in [Rooms -> Nat] /\ refs' \in [Rooms -> Nat] /\ refs[r] # 0 /\ refs'[r] # 0
  BY <1>1 DEF CryptoInv, CryptoTypeOK
<1>3. CASE modes' = modes
  BY <1>1, <1>3 DEF RoomKnown
<1>4. ASSUME NEW q \in Rooms, NEW stated \in Stated, Resolve(q, stated)
      PROVE  \E i \in DOMAIN modes' : modes'[i].room = r
  BY <1>1, <1>2, <1>4, ResolveKeeps DEF KeepsHeld
<1>5. ASSUME NEW s \in Subscribers, subscriber[s].state # "unused", Teardown(s, modes)
      PROVE  \E i \in DOMAIN modes' : modes'[i].room = r
  BY <1>1, <1>2, <1>5, TeardownKeeps
<1>6. ASSUME NEW c \in Calls, NEW stated \in Stated, Answer(c, stated)
      PROVE  modes' = modes \/ \E q \in Rooms : Resolve(q, stated)
  <2>1. call[c].room \in Rooms
    BY <1>6, CallsFitNow DEF CallsFit, Answer
  <2> QED
    BY <1>6, <2>1 DEF Answer
<1>7. ASSUME NEW s \in Subscribers, NEW stated \in Stated, StreamStates(s, stated)
      PROVE  \/ \E q \in Rooms : Resolve(q, stated)
             \/ subscriber[s].state # "unused" /\ Teardown(s, modes)
  <2>1. subscriber[s].room \in Rooms
    BY <1>7, InvariantParts DEF SubscribersFit, StreamStates
  <2> QED
    BY <1>7, <2>1 DEF StreamStates
<1>8. ASSUME NEW s \in Subscribers, Leave(s) \/ ReplayRefused(s)
      PROVE  subscriber[s].state # "unused" /\ Teardown(s, modes)
  BY <1>8 DEF Leave, ReplayRefused
<1>9. \/ modes' = modes
      \/ \E c \in Calls, stated \in Stated : Answer(c, stated)
      \/ \E s \in Subscribers, stated \in Stated : StreamStates(s, stated)
      \/ \E s \in Subscribers : Leave(s) \/ ReplayRefused(s)
  BY DEF CryptoNext, cryptoVars, SendText, SendTextOptimistic, SendFile, SendSealed, Fetch,
         Prepared, Post, CallFails, Dispatch, PageUnsealed, CreateMlsProvider, Join, RowArrives
<1> QED
  BY <1>3, <1>4, <1>5, <1>6, <1>7, <1>8, <1>9

LEMMA StepKeepsPoison ==
    ASSUME CryptoInv, [CryptoNext]_cryptoVars
    PROVE  PoisonSticks
<1>1. poisoned \subseteq poisoned'
  <2>1. \A r, stated : Resolve(r, stated) => poisoned \subseteq poisoned'
    BY DEF Resolve
  <2> QED
    BY <2>1 DEF CryptoNext, cryptoVars, SendText, SendTextOptimistic, SendFile, SendSealed, Fetch,
         Prepared, Post, CallFails, Answer, Dispatch, PageUnsealed, CreateMlsProvider, Join, Leave,
         StreamStates, ReplayRefused, RowArrives
<1>2. ASSUME NEW d \in Calls, call[d].stage = "preparing", call[d].room \in poisoned
      PROVE  call'[d].stage # "encoding"
  <2>0. call \in [Calls -> CallRecord]
    BY DEF CryptoInv, CallsOK
  <2>1. CASE call' = call
    BY <1>2, <2>1
  <2>2. ASSUME NEW c \in Calls, NEW e, call' = [call EXCEPT ![c] = e], e.stage # "encoding" \/ c # d
        PROVE  call'[d].stage # "encoding"
    BY <1>2, <2>0, <2>2
  <2>3. ASSUME NEW c \in Calls, NEW r \in Rooms,
               SendText(c, r) \/ SendTextOptimistic(c, r) \/ SendFile(c, r) \/ SendSealed(c, r)
               \/ \E op \in {"list", "other"} : Fetch(c, op, r)
        PROVE  call'[d].stage # "encoding"
    <3>1. c # d
      BY <1>2, <2>3 DEF SendText, SendTextOptimistic, SendFile, SendSealed, Fetch, Idle
    <3>2. \E e : call' = [call EXCEPT ![c] = e]
      BY <2>3 DEF SendText, SendTextOptimistic, SendFile, SendSealed, Fetch, Start
    <3> QED
      BY <2>2, <3>1, <3>2
  <2>4. ASSUME NEW c \in Calls,
               Prepared(c) \/ Post(c) \/ CallFails(c) \/ (\E stated \in Stated : Answer(c, stated))
               \/ Dispatch(c) \/ PageUnsealed(c)
        PROVE  call'[d].stage # "encoding"
    <3>1. CASE c # d
      <4>1. call' = call \/ \E e : call' = [call EXCEPT ![c] = e]
        BY <2>4 DEF Prepared, Post, CallFails, Answer, Dispatch, PageUnsealed, End
      <4> QED
        BY <2>1, <2>2, <3>1, <4>1
    <3>2. CASE c = d
      <4>1. Prepared(c) \/ CallFails(c)
        BY <1>2, <2>4, <3>2 DEF Post, Answer, Dispatch, PageUnsealed
      <4>2. End(c)
        BY <1>2, <3>2, <4>1 DEF Prepared, CallFails, Gate
      <4> QED
        BY <2>2, <4>2 DEF End, NoCall
    <3> QED
      BY <3>1, <3>2
  <2>5. \/ call' = call
        \/ \E c \in Calls, r \in Rooms :
               SendText(c, r) \/ SendTextOptimistic(c, r) \/ SendFile(c, r) \/ SendSealed(c, r)
               \/ \E op \in {"list", "other"} : Fetch(c, op, r)
        \/ \E c \in Calls :
               Prepared(c) \/ Post(c) \/ CallFails(c) \/ (\E stated \in Stated : Answer(c, stated))
               \/ Dispatch(c) \/ PageUnsealed(c)
    BY DEF CryptoNext, cryptoVars, CreateMlsProvider, Join, Leave, StreamStates, ReplayRefused,
           RowArrives
  <2> QED
    BY <2>1, <2>3, <2>4, <2>5
<1> QED
  BY <1>1, <1>2 DEF PoisonSticks

\* A poisoning is for ever and stops every send that is still being prepared; a
\* discovered mode stays as long as some live subscription or page has its own
\* share of the room's chain, however small the cap is and however others come
\* and go, unless a subscription without a share has given one back.
THEOREM VerdictsStay == CryptoSpec => VerdictsStick
<1>1. CryptoInv /\ CryptoInv' /\ SharesInv /\ [CryptoNext]_cryptoVars
        => [PoisonSticks /\ HeldModesStay]_cryptoVars
  BY StepKeepsHeld, StepKeepsPoison
<1>2. CryptoInv /\ SharesInv /\ [CryptoNext]_cryptoVars => SharesInv'
  BY SharesStep
<1> QED
  BY <1>1, <1>2, SharesInit, AlwaysCryptoInv, PTL DEF CryptoSpec, VerdictsStick

-----------------------------------------------------------------------------
(***************************************************************************)
(* Proofs about Introductions, for any set of keys.                        *)
(*                                                                         *)
(* What a party derives is written down once as a function of the two      *)
(* parties' fixed keys and properties (SessionOf, MasterOf, ...); the      *)
(* lemmas show that both parties' functions have one value, the invariant  *)
(* that a party holds, and the wire carries, nothing else.                 *)
(***************************************************************************)

IntroSpec == IntroInit /\ [][IntroNext]_introVars

-----------------------------------------------------------------------------
(* What the parties derive *)

\* A party as its peer reads it off the wire.
Arrived(p) == [longTerm |-> side[p].longTerm, eph |-> side[p].eph,
               props |-> OnWire(side[p].props)]

Lower(p) == IsAliceRole(side[p].longTerm, side[Peer(p)].longTerm)

SessionOf(p) == DeriveSessionId(introducer, side[p].eph, side[Peer(p)].eph)

MasterOf(p) ==
    IF Lower(p)
    THEN DeriveMasterKey(side[p].eph, side[Peer(p)].eph, side[p].eph, side[Peer(p)].eph)
    ELSE DeriveMasterKey(side[p].eph, side[Peer(p)].eph, side[Peer(p)].eph, side[p].eph)

NumberOf(p) == DeriveSafetyNumber(side[p].longTerm, side[Peer(p)].longTerm, MasterOf(p))

KeyOf(p) == IF Lower(p) THEN DeriveMacKeys(MasterOf(p)).alice ELSE DeriveMacKeys(MasterOf(p)).bob

TranscriptOf(p) == BuildAuthTranscript(introducer, Announced(p), Arrived(Peer(p)))

ProofOf(p) == <<ComputeAuthMac(KeyOf(p), SessionOf(p), TranscriptOf(p)),
                ComputeAuthSig(side[p].longTerm, KeyOf(p), SessionOf(p), TranscriptOf(p))>>

AuthSealOf(p) == SealAead(MasterOf(p), "AUTH_MAC", SessionOf(p), ProofOf(p))
ActivateMacOf(p) == ComputeActivateMac(KeyOf(p), SessionOf(p))
ActivateSealOf(p) == SealAead(MasterOf(p), "ACTIVATE_MAC", SessionOf(p), ActivateMacOf(p))

-----------------------------------------------------------------------------
(* The invariant *)

\* Two long-term keys and two ephemeral ones, all of them numbers.
ApartInv ==
    /\ \A p \in Parties : side[p].longTerm \in Keys /\ side[p].eph \in Keys
    /\ side["one"].longTerm # side["two"].longTerm
    /\ side["one"].eph # side["two"].eph

\* What a party holds, once it has derived it.
HeldInv ==
    \A p \in Parties : Derived(p) =>
        /\ side[p].peer = Arrived(Peer(p))
        /\ side[p].sessionId = SessionOf(p)
        /\ side[p].safetyNumber = NumberOf(p)
        /\ side[p].stage \in {"keyed", "authenticating", "authenticated"} =>
               side[p].master = MasterOf(p)

\* What is on the wire.
IntroWireInv ==
    \A m \in wire :
        /\ m.from \in Parties
        /\ m.kind = "accept" => m.party = Arrived(m.from)
        /\ m.kind = "auth" => m.sessionId = SessionOf(m.from) /\ m.sealed = AuthSealOf(m.from)
        /\ m.kind = "activate" =>
               m.sessionId = SessionOf(m.from) /\ m.sealed = ActivateSealOf(m.from)

IntroInv == IntroTypeOK /\ ApartInv /\ HeldInv /\ IntroWireInv /\ NoFalseAlarm /\ AuthenticatedIsShared

-----------------------------------------------------------------------------
(* Both parties derive the same *)

LEMMA PeerIsOther ==
    ASSUME NEW p \in Parties
    PROVE  /\ Peer(p) \in Parties /\ Peer(p) # p /\ Peer(Peer(p)) = p
           /\ \A q \in Parties : q = p \/ q = Peer(p)
BY DEF Parties, Peer

LEMMA OrderedIsSymmetric ==
    ASSUME NEW a \in Nat, NEW b \in Nat, a # b
    PROVE  Ordered(a, b) = Ordered(b, a) /\ (IsAliceRole(a, b) <=> ~IsAliceRole(b, a))
BY DEF Ordered, IsAliceRole

\* Whatever order the keys have.
LEMMA PartiesDeriveAlike ==
    ASSUME ApartInv, NEW p \in Parties
    PROVE  /\ Lower(Peer(p)) <=> ~Lower(p)
           /\ SessionOf(Peer(p)) = SessionOf(p)
           /\ MasterOf(Peer(p)) = MasterOf(p)
           /\ NumberOf(Peer(p)) = NumberOf(p)
<1> DEFINE q == Peer(p)
<1>1. /\ q \in Parties /\ Peer(q) = p
      /\ side[p].longTerm \in Nat /\ side[q].longTerm \in Nat
      /\ side[p].eph \in Nat /\ side[q].eph \in Nat
      /\ side[p].longTerm # side[q].longTerm
      /\ side[p].eph # side[q].eph
  BY PeerIsOther, KeysAssumption DEF KeysAssumption, ApartInv, Parties, Peer
<1>2. /\ Ordered(side[q].longTerm, side[p].longTerm) = Ordered(side[p].longTerm, side[q].longTerm)
      /\ Ordered(side[q].eph, side[p].eph) = Ordered(side[p].eph, side[q].eph)
      /\ Lower(q) <=> ~Lower(p)
  <2> HIDE DEF q
  <2>1. Ordered(side[q].longTerm, side[p].longTerm) = Ordered(side[p].longTerm, side[q].longTerm)
    BY <1>1, OrderedIsSymmetric
  <2>2. Ordered(side[q].eph, side[p].eph) = Ordered(side[p].eph, side[q].eph)
    BY <1>1, OrderedIsSymmetric
  <2>3. Lower(q) <=> ~Lower(p)
    BY <1>1, OrderedIsSymmetric DEF Lower, q
  <2> QED
    BY <2>1, <2>2, <2>3
<1>3. SharedSecret(side[q].eph, PublicKey(side[p].eph))
        = SharedSecret(side[p].eph, PublicKey(side[q].eph))
  BY ExchangeAgrees
<1>4. MasterOf(q) = MasterOf(p)
  BY <1>1, <1>2, <1>3 DEF MasterOf, DeriveMasterKey
<1>5. SessionOf(q) = SessionOf(p)
  BY <1>1, <1>2 DEF SessionOf, DeriveSessionId
<1>6. NumberOf(q) = NumberOf(p)
  BY <1>1, <1>2, <1>4 DEF NumberOf, DeriveSafetyNumber
<1> QED
  BY <1>2, <1>4, <1>5, <1>6 DEF q

\* The key a party looks for in its peer's proof is the one the peer used.
LEMMA PeersKeyIsKnown ==
    ASSUME ApartInv, NEW p \in Parties, side[p].peer = Arrived(Peer(p)),
           side[p].master = MasterOf(p)
    PROVE  /\ MacKey(p, TRUE) = KeyOf(p)
           /\ MacKey(p, FALSE) = KeyOf(Peer(p))
           /\ Transcript(p) = TranscriptOf(p)
<1>1. Known(p).longTerm = side[Peer(p)].longTerm
  BY DEF Known, Arrived
<1>2. IsAliceRole(side[p].longTerm, Known(p).longTerm) = Lower(p)
  BY <1>1 DEF Lower
<1>3. /\ Lower(Peer(p)) <=> ~Lower(p)
      /\ MasterOf(Peer(p)) = MasterOf(p)
  BY PartiesDeriveAlike
<1>4. Lower(p) \in BOOLEAN
  BY DEF Lower, IsAliceRole
<1>5. MacKey(p, TRUE) = KeyOf(p)
  BY <1>2, <1>4 DEF MacKey, KeyOf
<1>6. MacKey(p, FALSE) = KeyOf(Peer(p))
  BY <1>2, <1>3, <1>4 DEF MacKey, KeyOf
<1>7. Transcript(p) = TranscriptOf(p)
  BY DEF Transcript, TranscriptOf, Known
<1> QED
  BY <1>5, <1>6, <1>7

\* The two transcripts are one exactly when the wire changed neither party.
LEMMA TranscriptsShowTheWire ==
    ASSUME ApartInv, NEW p \in Parties
    PROVE  TranscriptOf(p) = TranscriptOf(Peer(p))
              <=> Announced(p) = Arrived(p) /\ Announced(Peer(p)) = Arrived(Peer(p))
<1> DEFINE q == Peer(p)
<1>1. /\ Peer(q) = p /\ (Lower(q) <=> ~Lower(p))
      /\ side[p].longTerm # side[q].longTerm
  BY PeerIsOther, PartiesDeriveAlike DEF ApartInv, Parties, Peer
<1>2. /\ Announced(p).longTerm = side[p].longTerm /\ Announced(q).longTerm = side[q].longTerm
      /\ Arrived(p).longTerm = side[p].longTerm /\ Arrived(q).longTerm = side[q].longTerm
  BY DEF Announced, Arrived
<1> HIDE DEF q
<1>3. TranscriptOf(p) = IF Lower(p) THEN <<"transcript", introducer, Announced(p), Arrived(q)>>
                                     ELSE <<"transcript", introducer, Arrived(q), Announced(p)>>
  BY <1>1, <1>2 DEF TranscriptOf, BuildAuthTranscript, Lower, q
<1>4. TranscriptOf(q) = IF Lower(p) THEN <<"transcript", introducer, Arrived(p), Announced(q)>>
                                     ELSE <<"transcript", introducer, Announced(q), Arrived(p)>>
  <2>1. TranscriptOf(q) = IF Lower(q) THEN <<"transcript", introducer, Announced(q), Arrived(p)>>
                                       ELSE <<"transcript", introducer, Arrived(p), Announced(q)>>
    BY <1>1, <1>2 DEF TranscriptOf, BuildAuthTranscript, Lower
  <2> QED
    BY <2>1, <1>1
<1> QED
  <2>1. CASE Lower(p)
    BY <1>3, <1>4, <2>1 DEF q
  <2>2. CASE ~Lower(p)
    BY <1>3, <1>4, <2>2 DEF q
  <2> QED
    BY <2>1, <2>2

-----------------------------------------------------------------------------
(* Steps *)

MasterTerms ==
    {DeriveMasterKey(k[1], k[2], k[3], k[4]) : k \in Keys \X Keys \X Keys \X Keys}
PeerTerms == [longTerm : Keys, eph : Keys, props : PropsKinds \cup {"null"}] \cup {NoKey}
SessionTerms == {DeriveSessionId(k[1], k[2], k[3]) : k \in Keys \X Keys \X Keys} \cup {NoKey}
NumberTerms ==
    {DeriveSafetyNumber(k[1], k[2], m) : k \in Keys \X Keys, m \in MasterTerms} \cup {NoKey}

Sides == [longTerm : Keys, eph : Keys, props : PropsKinds, stage : IntroStages,
          peer : PeerTerms, sessionId : SessionTerms, master : MasterTerms \cup {NoKey},
          safetyNumber : NumberTerms]

LEMMA TypeIsSides == IntroTypeOK <=> introducer \in Keys /\ side \in [Parties -> Sides]
BY DEF IntroTypeOK, Sides, MasterTerms, PeerTerms, SessionTerms, NumberTerms

\* A side with other contents, its keys and properties as they were.
RecordOf(e, st, peer, sid, master, number) ==
    [longTerm |-> e.longTerm, eph |-> e.eph, props |-> e.props, stage |-> st,
     peer |-> peer, sessionId |-> sid, master |-> master, safetyNumber |-> number]
SideWith(p, st, peer, sid, master, number) == RecordOf(side[p], st, peer, sid, master, number)

\* What a party derives has its type.
LEMMA DerivedTerms ==
    ASSUME IntroTypeOK, NEW p \in Parties
    PROVE  /\ Arrived(p) \in PeerTerms
           /\ SessionOf(p) \in SessionTerms
           /\ MasterOf(p) \in MasterTerms
           /\ NumberOf(p) \in NumberTerms
<1>1. /\ introducer \in Keys
      /\ side[p].longTerm \in Keys /\ side[p].eph \in Keys /\ side[p].props \in PropsKinds
      /\ side[Peer(p)].longTerm \in Keys /\ side[Peer(p)].eph \in Keys
  BY PeerIsOther, TypeIsSides DEF Sides
<1>2. Arrived(p) \in PeerTerms
  BY <1>1 DEF Arrived, PeerTerms, OnWire
<1>3. SessionOf(p) \in SessionTerms
  <2> DEFINE k == <<introducer, side[p].eph, side[Peer(p)].eph>>
  <2>1. k \in Keys \X Keys \X Keys /\ SessionOf(p) = DeriveSessionId(k[1], k[2], k[3])
    BY <1>1 DEF SessionOf
  <2> HIDE DEF k
  <2> QED
    BY <2>1 DEF SessionTerms
<1>4. MasterOf(p) \in MasterTerms
  <2>1. ASSUME NEW a \in Keys, NEW b \in Keys, NEW c \in Keys, NEW d \in Keys
        PROVE  DeriveMasterKey(a, b, c, d) \in MasterTerms
    <3> DEFINE k == <<a, b, c, d>>
    <3>1. k \in Keys \X Keys \X Keys \X Keys
          /\ DeriveMasterKey(a, b, c, d) = DeriveMasterKey(k[1], k[2], k[3], k[4])
      OBVIOUS
    <3> HIDE DEF k
    <3> QED
      BY <3>1 DEF MasterTerms
  <2> QED
    BY <1>1, <2>1 DEF MasterOf
<1>5. NumberOf(p) \in NumberTerms
  <2> DEFINE k == <<side[p].longTerm, side[Peer(p)].longTerm>>
  <2>1. k \in Keys \X Keys /\ NumberOf(p) = DeriveSafetyNumber(k[1], k[2], MasterOf(p))
    BY <1>1 DEF NumberOf
  <2> HIDE DEF k
  <2> QED
    BY <1>4, <2>1 DEF NumberTerms
<1> QED
  BY <1>2, <1>3, <1>4, <1>5

\* What is derived from the keys and properties stays while they do.
LEMMA FixedTerms ==
    ASSUME introducer' = introducer,
           \A p \in Parties : /\ side'[p].longTerm = side[p].longTerm
                              /\ side'[p].eph = side[p].eph
                              /\ side'[p].props = side[p].props
    PROVE  /\ ApartInv => ApartInv'
           /\ \A p \in Parties :
                  /\ Arrived(p)' = Arrived(p) /\ Announced(p)' = Announced(p)
                  /\ SessionOf(p)' = SessionOf(p) /\ MasterOf(p)' = MasterOf(p)
                  /\ NumberOf(p)' = NumberOf(p)
                  /\ AuthSealOf(p)' = AuthSealOf(p) /\ ActivateSealOf(p)' = ActivateSealOf(p)
<1>1. ApartInv => ApartInv'
  BY DEF ApartInv, Parties
<1> SUFFICES ASSUME NEW p \in Parties
             PROVE  /\ Arrived(p)' = Arrived(p) /\ Announced(p)' = Announced(p)
                    /\ SessionOf(p)' = SessionOf(p) /\ MasterOf(p)' = MasterOf(p)
                    /\ NumberOf(p)' = NumberOf(p)
                    /\ AuthSealOf(p)' = AuthSealOf(p) /\ ActivateSealOf(p)' = ActivateSealOf(p)
  BY <1>1
<1>2. /\ Arrived(p)' = Arrived(p) /\ Announced(p)' = Announced(p)
      /\ Arrived(Peer(p))' = Arrived(Peer(p)) /\ Lower(p)' = Lower(p)
  BY PeerIsOther DEF Arrived, Announced, Lower
<1>3. /\ SessionOf(p)' = SessionOf(p) /\ MasterOf(p)' = MasterOf(p)
  BY <1>2, PeerIsOther DEF SessionOf, MasterOf
<1>4. /\ NumberOf(p)' = NumberOf(p) /\ KeyOf(p)' = KeyOf(p)
      /\ TranscriptOf(p)' = TranscriptOf(p)
  BY <1>2, <1>3, PeerIsOther DEF NumberOf, KeyOf, TranscriptOf
<1>5. ProofOf(p)' = ProofOf(p) /\ ActivateMacOf(p)' = ActivateMacOf(p)
  BY <1>3, <1>4 DEF ProofOf, ActivateMacOf
<1> QED
  BY <1>2, <1>3, <1>4, <1>5 DEF AuthSealOf, ActivateSealOf

\* A message that says what its sender derives.
Genuine(m) ==
    /\ m.from \in Parties
    /\ m.kind = "accept" => m.party = Arrived(m.from)
    /\ m.kind = "auth" => m.sessionId = SessionOf(m.from) /\ m.sealed = AuthSealOf(m.from)
    /\ m.kind = "activate" => m.sessionId = SessionOf(m.from) /\ m.sealed = ActivateSealOf(m.from)

Unused == {"invited", "accepted", "failed"}

\* One party moves and sends genuine messages: what the invariant asks of the move.
LEMMA PartyMoves ==
    ASSUME IntroInv, NEW p \in Parties, NEW e \in Sides, NEW sent,
           introducer' = introducer,
           side' = [side EXCEPT ![p] = e],
           wire' = wire \cup sent,
           \A m \in sent : Genuine(m),
           e.longTerm = side[p].longTerm, e.eph = side[p].eph, e.props = side[p].props,
           e.stage \notin Unused =>
               e.peer = Arrived(Peer(p)) /\ e.sessionId = SessionOf(p) /\ e.safetyNumber = NumberOf(p),
           e.stage \in {"keyed", "authenticating", "authenticated"} => e.master = MasterOf(p),
           e.stage \in {"authenticated", "active"} => e.peer = Announced(Peer(p)),
           e.stage = "aborted" => ~\A q \in Parties : side[q].props \in StableProps
    PROVE  IntroInv'
<1>1. side \in [Parties -> Sides] /\ introducer \in Keys
  BY TypeIsSides DEF IntroInv
<1>2. /\ side' \in [Parties -> Sides]
      /\ side'[p] = e
      /\ \A q \in Parties : q # p => side'[q] = side[q]
  BY <1>1
<1>3. /\ ApartInv'
      /\ \A q \in Parties :
             /\ side'[q].props = side[q].props
             /\ Arrived(q)' = Arrived(q) /\ Announced(q)' = Announced(q)
             /\ SessionOf(q)' = SessionOf(q) /\ MasterOf(q)' = MasterOf(q)
             /\ NumberOf(q)' = NumberOf(q)
             /\ AuthSealOf(q)' = AuthSealOf(q) /\ ActivateSealOf(q)' = ActivateSealOf(q)
  <2>1. \A q \in Parties : /\ side'[q].longTerm = side[q].longTerm
                           /\ side'[q].eph = side[q].eph
                           /\ side'[q].props = side[q].props
    BY <1>2
  <2> QED
    BY <2>1, FixedTerms DEF IntroInv
<1>4. IntroTypeOK'
  <2>1. introducer' \in Keys /\ side' \in [Parties -> Sides]
    BY <1>1, <1>2
  <2>2. IntroTypeOK' <=> introducer' \in Keys /\ side' \in [Parties -> Sides]
    BY DEF IntroTypeOK, Sides, MasterTerms, PeerTerms, SessionTerms, NumberTerms
  <2> QED
    BY <2>1, <2>2
<1>5. HeldInv'
  <2> SUFFICES ASSUME NEW q \in Parties, Derived(q)'
               PROVE  /\ side'[q].peer = Arrived(Peer(q))
                      /\ side'[q].sessionId = SessionOf(q)
                      /\ side'[q].safetyNumber = NumberOf(q)
                      /\ side'[q].stage \in {"keyed", "authenticating", "authenticated"} =>
                             side'[q].master = MasterOf(q)
    BY <1>3, PeerIsOther DEF HeldInv
  <2>1. CASE q = p
    BY <2>1, <1>2 DEF Derived, Unused
  <2>2. CASE q # p
    BY <2>2, <1>2 DEF IntroInv, HeldInv, Derived
  <2> QED
    BY <2>1, <2>2
<1>6. IntroWireInv'
  <2>1. \A m \in wire' : Genuine(m)
    BY DEF IntroInv, IntroWireInv, Genuine
  <2> QED
    BY <2>1, <1>3 DEF IntroWireInv, Genuine
<1>7. NoFalseAlarm'
  BY <1>2, <1>3 DEF IntroInv, NoFalseAlarm
<1>8. AuthenticatedIsShared'
  <2> SUFFICES ASSUME NEW q \in Parties, side'[q].stage \in {"authenticated", "active"}
               PROVE  side'[q].peer = Announced(Peer(q))
    BY <1>3, PeerIsOther DEF AuthenticatedIsShared
  <2>1. CASE q = p
    BY <2>1, <1>2
  <2>2. CASE q # p
    BY <2>2, <1>2 DEF IntroInv, AuthenticatedIsShared
  <2> QED
    BY <2>1, <2>2
<1> QED
  BY <1>3, <1>4, <1>5, <1>6, <1>7, <1>8 DEF IntroInv

\* A side with other contents has them.
LEMMA SideWithFields ==
    ASSUME IntroInv, NEW p \in Parties, NEW st \in IntroStages, NEW peer \in PeerTerms,
           NEW sid \in SessionTerms, NEW master \in MasterTerms \cup {NoKey},
           NEW number \in NumberTerms, NEW e, e = SideWith(p, st, peer, sid, master, number)
    PROVE  /\ e \in Sides
           /\ e.longTerm = side[p].longTerm /\ e.eph = side[p].eph /\ e.props = side[p].props
           /\ e.stage = st /\ e.peer = peer /\ e.sessionId = sid /\ e.master = master
           /\ e.safetyNumber = number
<1>1. side[p].longTerm \in Keys /\ side[p].eph \in Keys /\ side[p].props \in PropsKinds
  BY TypeIsSides DEF IntroInv, Sides
<1> QED
  BY <1>1 DEF SideWith, RecordOf, Sides

\* Field by field, a step of one side is a side with other contents.
LEMMA StageSet ==
    ASSUME IntroInv, NEW p \in Parties, NEW st,
           side' = [side EXCEPT ![p].stage = st]
    PROVE  side' = [side EXCEPT ![p] = SideWith(p, st, side[p].peer, side[p].sessionId,
                                                side[p].master, side[p].safetyNumber)]
<1> DEFINE e == side[p]
<1>1. e \in Sides
  BY TypeIsSides DEF IntroInv
<1> HIDE DEF e
<1>2. [e EXCEPT !.stage = st]
        = RecordOf(e, st, e.peer, e.sessionId, e.master, e.safetyNumber)
  BY <1>1 DEF Sides, RecordOf
<1>3. side' = [side EXCEPT ![p] = [e EXCEPT !.stage = st]]
  BY Zenon DEF e
<1> QED
  BY <1>2, <1>3 DEF SideWith, e

LEMMA MasterSet ==
    ASSUME IntroInv, NEW p \in Parties, NEW st, NEW master,
           side' = [side EXCEPT ![p] = [@ EXCEPT !.stage = st, !.master = master]]
    PROVE  side' = [side EXCEPT ![p] = SideWith(p, st, side[p].peer, side[p].sessionId, master,
                                                side[p].safetyNumber)]
<1> DEFINE e == side[p]
<1>1. e \in Sides
  BY TypeIsSides DEF IntroInv
<1> HIDE DEF e
<1>2. [e EXCEPT !.stage = st, !.master = master]
        = RecordOf(e, st, e.peer, e.sessionId, master, e.safetyNumber)
  <2> DEFINE r1 == RecordOf(e, st, e.peer, e.sessionId, e.master, e.safetyNumber)
  <2>1. [e EXCEPT !.stage = st, !.master = master]
          = [[e EXCEPT !.stage = st] EXCEPT !.master = master]
    OBVIOUS
  <2>2. [e EXCEPT !.stage = st] = r1
    BY <1>1 DEF Sides, RecordOf
  <2>3. [r1 EXCEPT !.master = master] = RecordOf(e, st, e.peer, e.sessionId, master, e.safetyNumber)
    BY DEF RecordOf
  <2> QED
    BY <2>1, <2>2, <2>3 DEF RecordOf
<1>3. side' = [side EXCEPT ![p] = [e EXCEPT !.stage = st, !.master = master]]
  BY Zenon DEF e
<1> QED
  BY <1>2, <1>3 DEF SideWith, e

LEMMA AcceptInv ==
    ASSUME IntroInv, NEW p \in Parties, Accept(p)
    PROVE  IntroInv'
<1> DEFINE st == IF Encodes(side[p].props) THEN "accepted" ELSE "failed"
           m == [kind |-> "accept", from |-> p, party |-> [Announced(p) EXCEPT !.props = OnWire(@)]]
           sent == IF Encodes(side[p].props) THEN {m} ELSE {}
<1>1. side \in [Parties -> Sides]
  BY TypeIsSides DEF IntroInv
<1>2. /\ side' = [side EXCEPT ![p].stage = st]
      /\ wire' = wire \cup sent
      /\ introducer' = introducer
  BY DEF Accept
<1>3. \A x \in sent : Genuine(x)
  <2>1. [Announced(p) EXCEPT !.props = OnWire(@)] = Arrived(p)
    BY DEF Announced, Arrived
  <2> QED
    BY <2>1 DEF Genuine
<1>4. st \in Unused /\ st \in IntroStages
  BY DEF Unused, IntroStages
<1> HIDE DEF st, sent
<1> DEFINE e == SideWith(p, st, side[p].peer, side[p].sessionId, side[p].master,
                         side[p].safetyNumber)
<1>5. side' = [side EXCEPT ![p] = e]
  BY Zenon, <1>2, StageSet
<1>6. /\ side[p].peer \in PeerTerms /\ side[p].sessionId \in SessionTerms
      /\ side[p].master \in MasterTerms \cup {NoKey} /\ side[p].safetyNumber \in NumberTerms
  BY <1>1 DEF Sides
<1>7. /\ e \in Sides /\ e.stage = st
      /\ e.longTerm = side[p].longTerm /\ e.eph = side[p].eph /\ e.props = side[p].props
  BY <1>1, <1>4, <1>6 DEF SideWith, RecordOf, Sides
<1> HIDE DEF e
<1> QED
  BY <1>2, <1>3, <1>4, <1>5, <1>7, PartyMoves DEF Unused

LEMMA AcceptArrivesInv ==
    ASSUME IntroInv, NEW p \in Parties, NEW m \in wire, AcceptArrives(p, m)
    PROVE  IntroInv'
<1> DEFINE q == Peer(p)
<1>1. side \in [Parties -> Sides] /\ IntroTypeOK
  BY TypeIsSides DEF IntroInv
<1>2. m.party = Arrived(q)
  BY DEF AcceptArrives, IntroInv, IntroWireInv
<1>3. m.party.longTerm = side[q].longTerm /\ m.party.eph = side[q].eph
  BY <1>2 DEF Arrived
<1>4. /\ side' = [side EXCEPT ![p] =
                    [@ EXCEPT !.stage = "keyed", !.peer = Arrived(q), !.master = MasterOf(p),
                              !.sessionId = SessionOf(p), !.safetyNumber = NumberOf(p)]]
      /\ UNCHANGED <<introducer, wire>>
  BY <1>2, <1>3 DEF AcceptArrives, MasterOf, SessionOf, NumberOf, Lower
<1> DEFINE e == SideWith(p, "keyed", Arrived(q), SessionOf(p), MasterOf(p), NumberOf(p))
<1>5. side' = [side EXCEPT ![p] = e]
  <2> DEFINE peer == Arrived(q)
             sid == SessionOf(p)
             master == MasterOf(p)
             number == NumberOf(p)
             own == side[p]
  <2>1. side' = [side EXCEPT ![p] = [own EXCEPT !.stage = "keyed", !.peer = peer, !.master = master,
                                                !.sessionId = sid, !.safetyNumber = number]]
    BY Zenon, <1>4
  <2>2. own \in Sides
    BY <1>1
  <2> HIDE DEF own, peer, sid, master, number
  <2>3. [own EXCEPT !.stage = "keyed", !.peer = peer, !.master = master,
                    !.sessionId = sid, !.safetyNumber = number]
          = RecordOf(own, "keyed", peer, sid, master, number)
    <3> DEFINE r1 == RecordOf(own, "keyed", own.peer, own.sessionId, own.master, own.safetyNumber)
               r2 == RecordOf(own, "keyed", peer, own.sessionId, own.master, own.safetyNumber)
               r3 == RecordOf(own, "keyed", peer, own.sessionId, master, own.safetyNumber)
               r4 == RecordOf(own, "keyed", peer, sid, master, own.safetyNumber)
    <3>1. [own EXCEPT !.stage = "keyed", !.peer = peer, !.master = master, !.sessionId = sid,
                    !.safetyNumber = number]
            = [[[[[own EXCEPT !.stage = "keyed"] EXCEPT !.peer = peer] EXCEPT !.master = master]
                     EXCEPT !.sessionId = sid] EXCEPT !.safetyNumber = number]
      OBVIOUS
    <3>2. [own EXCEPT !.stage = "keyed"] = r1
      BY <2>2 DEF Sides, RecordOf
    <3>3. [r1 EXCEPT !.peer = peer] = r2
      BY DEF RecordOf
    <3>4. [r2 EXCEPT !.master = master] = r3
      BY DEF RecordOf
    <3>5. [r3 EXCEPT !.sessionId = sid] = r4
      BY DEF RecordOf
    <3>6. [r4 EXCEPT !.safetyNumber = number] = RecordOf(own, "keyed", peer, sid, master, number)
      BY DEF RecordOf
    <3> HIDE DEF r1, r2, r3, r4
    <3> QED
      BY Zenon, <3>1, <3>2, <3>3, <3>4, <3>5, <3>6
  <2> QED
    BY Zenon, <2>1, <2>3 DEF SideWith, own, peer, sid, master, number
<1> DEFINE sent == {}
<1>6. /\ wire' = wire \cup sent /\ introducer' = introducer /\ "keyed" \in IntroStages
      /\ \A x \in sent : Genuine(x)
  BY <1>4 DEF IntroStages
<1>7. /\ e \in Sides /\ e.stage = "keyed" /\ e.master = MasterOf(p)
      /\ e.longTerm = side[p].longTerm /\ e.eph = side[p].eph /\ e.props = side[p].props
      /\ e.peer = Arrived(Peer(p)) /\ e.sessionId = SessionOf(p) /\ e.safetyNumber = NumberOf(p)
  <2>1. Arrived(q) \in PeerTerms
    BY <1>1, PeerIsOther, DerivedTerms
  <2> QED
    BY <1>1, <1>6, <2>1, DerivedTerms, SideWithFields
<1> HIDE DEF e, q, sent
<1> QED
  BY <1>5, <1>6, <1>7, PartyMoves DEF Unused

LEMMA SendAuthInv ==
    ASSUME IntroInv, NEW p \in Parties, SendAuth(p)
    PROVE  IntroInv'
<1> DEFINE m == [kind |-> "auth", from |-> p, sessionId |-> SessionOf(p), sealed |-> AuthSealOf(p)]
<1>1. side \in [Parties -> Sides] /\ IntroTypeOK
  BY TypeIsSides DEF IntroInv
<1>2. side[p].stage = "keyed"
  BY DEF SendAuth
<1>3. /\ side[p].peer = Arrived(Peer(p)) /\ side[p].sessionId = SessionOf(p)
      /\ side[p].safetyNumber = NumberOf(p) /\ side[p].master = MasterOf(p)
  BY <1>2 DEF IntroInv, HeldInv, Derived
<1>4. MacKey(p, TRUE) = KeyOf(p) /\ Transcript(p) = TranscriptOf(p)
  BY <1>3, PeersKeyIsKnown DEF IntroInv
<1>5. wire' = wire \cup {m}
  BY <1>3, <1>4 DEF SendAuth, AuthSealOf, ProofOf
<1> DEFINE sent == {m}
<1>6. \A x \in sent : Genuine(x)
  BY DEF Genuine
<1>7. /\ side' = [side EXCEPT ![p].stage = "authenticating"]
      /\ introducer' = introducer
  BY DEF SendAuth
<1> DEFINE e == SideWith(p, "authenticating", side[p].peer, side[p].sessionId, side[p].master,
                         side[p].safetyNumber)
<1>8. side' = [side EXCEPT ![p] = e]
  BY Zenon, <1>7, StageSet
<1>9. /\ e \in Sides /\ e.stage = "authenticating" /\ e.master = MasterOf(p)
      /\ e.longTerm = side[p].longTerm /\ e.eph = side[p].eph /\ e.props = side[p].props
      /\ e.peer = Arrived(Peer(p)) /\ e.sessionId = SessionOf(p) /\ e.safetyNumber = NumberOf(p)
  <2>1. "authenticating" \in IntroStages
    BY DEF IntroStages
  <2>2. Arrived(Peer(p)) \in PeerTerms
    BY <1>1, PeerIsOther, DerivedTerms
  <2> QED
    BY <1>1, <1>3, <2>1, <2>2, DerivedTerms, SideWithFields
<1>10. wire' = wire \cup sent
  BY <1>5
<1> HIDE DEF e, sent, m
<1> QED
  BY <1>6, <1>7, <1>8, <1>9, <1>10, PartyMoves DEF Unused

\* What a party waiting for it finds in its peer's proof.
LEMMA ProofIsRead ==
    ASSUME IntroInv, NEW p \in Parties, NEW m \in wire,
           side[p].stage = "authenticating", m.kind = "auth", m.from = Peer(p)
    PROVE  /\ PayloadOf(p, m, "AUTH_MAC") = ProofOf(Peer(p))
           /\ AuthVerifies(p, ProofOf(Peer(p))) <=> TranscriptOf(p) = TranscriptOf(Peer(p))
<1> DEFINE q == Peer(p)
<1>1. /\ side[p].peer = Arrived(q) /\ side[p].sessionId = SessionOf(p)
      /\ side[p].master = MasterOf(p)
  BY DEF IntroInv, HeldInv, Derived
<1>2. m.sessionId = SessionOf(q) /\ m.sealed = AuthSealOf(q)
  BY DEF IntroInv, IntroWireInv
<1>3. SessionOf(q) = SessionOf(p) /\ MasterOf(q) = MasterOf(p)
  BY PartiesDeriveAlike DEF IntroInv
<1>4. MacKey(p, FALSE) = KeyOf(q) /\ Transcript(p) = TranscriptOf(p)
  BY <1>1, PeersKeyIsKnown DEF IntroInv
<1>5. Known(p).longTerm = side[q].longTerm
  BY <1>1 DEF Known, Arrived
<1> HIDE DEF q
<1>6. PayloadOf(p, m, "AUTH_MAC") = ProofOf(q)
  BY <1>1, <1>2, <1>3 DEF PayloadOf, AuthSealOf, SealAead, OpenAead
<1>7. /\ ProofOf(q)[1] = ComputeAuthMac(KeyOf(q), SessionOf(p), TranscriptOf(q))
      /\ ProofOf(q)[2] = ComputeAuthSig(side[q].longTerm, KeyOf(q), SessionOf(p), TranscriptOf(q))
  BY <1>3 DEF ProofOf
<1>8. VerifyAuthMac(KeyOf(q), SessionOf(p), TranscriptOf(p), ProofOf(q)[1])
         <=> TranscriptOf(p) = TranscriptOf(q)
  BY <1>7 DEF VerifyAuthMac, ComputeAuthMac, Hmac
<1>9. TranscriptOf(p) = TranscriptOf(q) =>
         VerifyAuthSig(side[q].longTerm, KeyOf(q), SessionOf(p), TranscriptOf(p), ProofOf(q)[2])
  BY <1>7 DEF VerifyAuthSig, ComputeAuthSig, Verifies
<1>10. AuthVerifies(p, ProofOf(q)) <=> TranscriptOf(p) = TranscriptOf(q)
  BY <1>1, <1>4, <1>5, <1>8, <1>9 DEF AuthVerifies
<1> QED
  BY <1>6, <1>10 DEF q

LEMMA AuthArrivesInv ==
    ASSUME IntroInv, NEW p \in Parties, NEW m \in wire, AuthArrives(p, m)
    PROVE  IntroInv'
<1> DEFINE q == Peer(p)
           good == PayloadOf(p, m, "AUTH_MAC") # Failure /\ AuthVerifies(p, PayloadOf(p, m, "AUTH_MAC"))
           st == IF good THEN "authenticated" ELSE "aborted"
           out == [kind |-> "activate", from |-> p, sessionId |-> SessionOf(p),
                   sealed |-> ActivateSealOf(p)]
           sent == IF good THEN {out} ELSE {}
<1>1. side \in [Parties -> Sides] /\ IntroTypeOK
  BY TypeIsSides DEF IntroInv
<1>2. side[p].stage = "authenticating" /\ m.kind = "auth" /\ m.from = q
  BY DEF AuthArrives
<1>3. /\ side[p].peer = Arrived(q) /\ side[p].sessionId = SessionOf(p)
      /\ side[p].safetyNumber = NumberOf(p) /\ side[p].master = MasterOf(p)
  BY <1>2 DEF IntroInv, HeldInv, Derived
<1>4. MacKey(p, TRUE) = KeyOf(p)
  BY <1>3, PeersKeyIsKnown DEF IntroInv
<1>5. /\ side' = [side EXCEPT ![p].stage = st]
      /\ wire' = wire \cup sent
      /\ introducer' = introducer
  BY <1>3, <1>4 DEF AuthArrives, ActivateSealOf, ActivateMacOf
<1>6. \A x \in sent : Genuine(x)
  BY DEF Genuine
<1>7. good <=> Announced(p) = Arrived(p) /\ Announced(q) = Arrived(q)
  <2>1. ProofOf(q) # Failure
    BY DEF ProofOf, Failure
  <2> QED
    BY <1>2, <2>1, ProofIsRead, TranscriptsShowTheWire DEF IntroInv
<1>8. (\A r \in Parties : side[r].props \in StableProps) => good
  <2> SUFFICES ASSUME \A r \in Parties : side[r].props \in StableProps
               PROVE  Announced(p) = Arrived(p) /\ Announced(q) = Arrived(q)
    BY <1>7
  <2> QED
    BY PeerIsOther DEF StableProps, Announced, Arrived, OnWire
<1> HIDE DEF good, sent, out, q
<1> DEFINE e == SideWith(p, st, side[p].peer, side[p].sessionId, side[p].master,
                         side[p].safetyNumber)
<1>9. side' = [side EXCEPT ![p] = e]
  BY Zenon, <1>5, StageSet
<1>10. st \in IntroStages /\ (st \in {"authenticated", "active"} => Arrived(q) = Announced(q))
  BY <1>7 DEF IntroStages
<1>11. st = "aborted" => ~\A r \in Parties : side[r].props \in StableProps
  BY <1>8
<1> HIDE DEF st
<1>12. Arrived(q) \in PeerTerms
  BY <1>1, PeerIsOther, DerivedTerms DEF q
<1>13. /\ e \in Sides /\ e.stage = st /\ e.master = MasterOf(p)
       /\ e.longTerm = side[p].longTerm /\ e.eph = side[p].eph /\ e.props = side[p].props
       /\ e.peer = Arrived(Peer(p)) /\ e.sessionId = SessionOf(p) /\ e.safetyNumber = NumberOf(p)
  BY <1>1, <1>3, <1>10, <1>12, DerivedTerms, SideWithFields DEF q
<1> HIDE DEF e
<1> QED
  BY <1>5, <1>6, <1>9, <1>10, <1>11, <1>13, PartyMoves, ZenonT(30) DEF q

LEMMA ActivateArrivesInv ==
    ASSUME IntroInv, NEW p \in Parties, NEW m \in wire, ActivateArrives(p, m)
    PROVE  IntroInv'
<1> DEFINE q == Peer(p)
<1>1. side \in [Parties -> Sides] /\ IntroTypeOK
  BY TypeIsSides DEF IntroInv
<1>2. side[p].stage = "authenticated" /\ m.kind = "activate" /\ m.from = q
  BY DEF ActivateArrives
<1>3. /\ side[p].peer = Arrived(q) /\ side[p].sessionId = SessionOf(p)
      /\ side[p].safetyNumber = NumberOf(p) /\ side[p].master = MasterOf(p)
  BY <1>2 DEF IntroInv, HeldInv, Derived
<1>4. side[p].peer = Announced(q)
  BY <1>2 DEF IntroInv, AuthenticatedIsShared
<1>5. m.sessionId = SessionOf(q) /\ m.sealed = ActivateSealOf(q)
  BY <1>2, PeerIsOther DEF IntroInv, IntroWireInv
<1>6. SessionOf(q) = SessionOf(p) /\ MasterOf(q) = MasterOf(p)
  BY PartiesDeriveAlike DEF IntroInv
<1>7. MacKey(p, FALSE) = KeyOf(q)
  BY <1>3, PeersKeyIsKnown DEF IntroInv
<1>8. PayloadOf(p, m, "ACTIVATE_MAC") = ComputeActivateMac(KeyOf(q), SessionOf(p))
  BY <1>3, <1>5, <1>6 DEF PayloadOf, ActivateSealOf, ActivateMacOf, SealAead, OpenAead
<1>9. ComputeActivateMac(KeyOf(q), SessionOf(p)) # Failure
  BY DEF ComputeActivateMac, Hmac, Failure
<1>10. /\ side' = [side EXCEPT ![p] = [@ EXCEPT !.stage = "active", !.master = NoKey]]
       /\ UNCHANGED <<introducer, wire>>
  BY <1>3, <1>7, <1>8, <1>9 DEF ActivateArrives, VerifyActivateMac
<1> HIDE DEF q
<1> DEFINE e == SideWith(p, "active", side[p].peer, side[p].sessionId, NoKey,
                         side[p].safetyNumber)
<1>11. side' = [side EXCEPT ![p] = e]
  BY Zenon, <1>10, MasterSet
<1> DEFINE sent == {}
<1>12. /\ wire' = wire \cup sent /\ introducer' = introducer /\ "active" \in IntroStages
       /\ \A x \in sent : Genuine(x)
       /\ Arrived(q) \in PeerTerms /\ NoKey \in MasterTerms \cup {NoKey}
  BY <1>1, <1>10, PeerIsOther, DerivedTerms DEF IntroStages, q
<1>13. /\ e \in Sides /\ e.stage = "active"
       /\ e.longTerm = side[p].longTerm /\ e.eph = side[p].eph /\ e.props = side[p].props
       /\ e.peer = Arrived(Peer(p)) /\ e.sessionId = SessionOf(p) /\ e.safetyNumber = NumberOf(p)
  <2>1. /\ side[p].peer \in PeerTerms /\ side[p].sessionId \in SessionTerms
        /\ side[p].safetyNumber \in NumberTerms
    BY <1>1 DEF Sides
  <2> QED
    BY <1>1, <1>3, <1>12, <2>1 DEF SideWith, RecordOf, Sides, q
<1> HIDE DEF e, sent
<1> QED
  BY <1>3, <1>4, <1>10, <1>11, <1>12, <1>13, PartyMoves, ZenonT(30) DEF q

-----------------------------------------------------------------------------
(* The theorems *)

LEMMA IntroInitInv == IntroInit => IntroInv
<1> SUFFICES ASSUME IntroInit PROVE IntroInv
  OBVIOUS
<1>1. PICK l \in [Parties -> Keys], e \in [Parties -> Keys], pr \in [Parties -> PropsKinds] :
        side = [p \in Parties |-> NewSide(l[p], e[p], pr[p])]
  <2>1. side \in [Parties -> {NewSide(l, e, props) : l \in Keys, e \in Keys, props \in PropsKinds}]
    BY DEF IntroInit
  <2>2. \A p \in Parties : \E l \in Keys, e \in Keys, pr \in PropsKinds :
          side[p] = NewSide(l, e, pr)
    BY <2>1
  <2>3. \A p \in Parties : /\ side[p].longTerm \in Keys /\ side[p].eph \in Keys
                           /\ side[p].props \in PropsKinds
                           /\ side[p] = NewSide(side[p].longTerm, side[p].eph, side[p].props)
    <3> SUFFICES ASSUME NEW p \in Parties
                 PROVE  /\ side[p].longTerm \in Keys /\ side[p].eph \in Keys
                        /\ side[p].props \in PropsKinds
                        /\ side[p] = NewSide(side[p].longTerm, side[p].eph, side[p].props)
      OBVIOUS
    <3>1. PICK l \in Keys, e \in Keys, pr \in PropsKinds : side[p] = NewSide(l, e, pr)
      BY <2>2
    <3>2. side[p].longTerm = l /\ side[p].eph = e /\ side[p].props = pr
      BY <3>1 DEF NewSide
    <3> QED
      BY <3>1, <3>2
  <2> DEFINE ll == [p \in Parties |-> side[p].longTerm]
             ee == [p \in Parties |-> side[p].eph]
             pp == [p \in Parties |-> side[p].props]
  <2>4. /\ ll \in [Parties -> Keys] /\ ee \in [Parties -> Keys] /\ pp \in [Parties -> PropsKinds]
        /\ side = [p \in Parties |-> NewSide(ll[p], ee[p], pp[p])]
    BY <2>1, <2>3
  <2> QED
    BY <2>4
<1>2. \A p \in Parties : /\ side[p].stage = "invited"
                         /\ side[p] \in Sides
  BY <1>1 DEF NewSide, Sides, IntroStages, PeerTerms, SessionTerms, NumberTerms
<1>3. IntroTypeOK
  BY <1>1, <1>2, TypeIsSides DEF IntroInit
<1>4. ApartInv
  BY <1>2 DEF ApartInv, IntroInit, Sides
<1>5. HeldInv /\ NoFalseAlarm /\ AuthenticatedIsShared
  BY <1>2 DEF HeldInv, Derived, NoFalseAlarm, AuthenticatedIsShared
<1>6. IntroWireInv
  BY DEF IntroWireInv, IntroInit
<1> QED
  BY <1>3, <1>4, <1>5, <1>6 DEF IntroInv

LEMMA IntroNextInv == IntroInv /\ [IntroNext]_introVars => IntroInv'
<1> SUFFICES ASSUME IntroInv, [IntroNext]_introVars PROVE IntroInv'
  OBVIOUS
<1>1. CASE UNCHANGED introVars
  <2>1. introducer' = introducer /\ side' = side /\ wire' = wire
    BY <1>1 DEF introVars
  <2>2. /\ ApartInv'
        /\ \A p \in Parties :
               /\ Arrived(p)' = Arrived(p) /\ Announced(p)' = Announced(p)
               /\ SessionOf(p)' = SessionOf(p) /\ MasterOf(p)' = MasterOf(p)
               /\ NumberOf(p)' = NumberOf(p)
               /\ AuthSealOf(p)' = AuthSealOf(p) /\ ActivateSealOf(p)' = ActivateSealOf(p)
    BY <2>1, FixedTerms DEF IntroInv
  <2>3. IntroTypeOK' /\ NoFalseAlarm'
    BY <2>1, SMTT(30) DEF IntroInv, IntroTypeOK, NoFalseAlarm
  <2>4. HeldInv' /\ AuthenticatedIsShared'
    BY <2>1, <2>2, PeerIsOther DEF IntroInv, HeldInv, AuthenticatedIsShared, Derived
  <2>5. IntroWireInv'
    BY <2>1, <2>2 DEF IntroInv, IntroWireInv
  <2> QED
    BY <2>2, <2>3, <2>4, <2>5 DEF IntroInv
<1>2. CASE IntroNext
  BY <1>2, AcceptInv, SendAuthInv, AcceptArrivesInv, AuthArrivesInv, ActivateArrivesInv
     DEF IntroNext
<1> QED
  BY <1>1, <1>2

LEMMA IntroInvImplies == IntroInv => IntroductionAgrees
<1> SUFFICES ASSUME IntroInv PROVE SidesAgree
  BY DEF IntroInv, IntroductionAgrees
<1>1. "one" \in Parties /\ "two" \in Parties /\ Peer("one") = "two"
  BY DEF Parties, Peer
<1>2. SessionOf("two") = SessionOf("one") /\ NumberOf("two") = NumberOf("one")
  BY <1>1, PartiesDeriveAlike DEF IntroInv
<1> QED
  BY <1>1, <1>2 DEF SidesAgree, IntroInv, HeldInv

LEMMA AlwaysInv == IntroSpec => []IntroInv
BY IntroInitInv, IntroNextInv, PTL DEF IntroSpec

\* Every key, term and stage is one of those the packages make.
THEOREM IntroTypeCorrect == IntroSpec => []IntroTypeOK
<1>1. IntroInv => IntroTypeOK
  BY DEF IntroInv
<1> QED
  BY <1>1, AlwaysInv, PTL

\* For every set of keys, whatever order the parties' keys have, whoever comes
\* first and however often a message arrives: both parties derive one session
\* identifier and read out one safety number, a party whose properties survive
\* JSON is not rejected, and whoever is authenticated is seen as it is.
THEOREM Agreement == IntroSpec => []IntroductionAgrees
BY AlwaysInv, IntroInvImplies, PTL

-----------------------------------------------------------------------------
(***************************************************************************)
(* PairwiseSeal, for any ids, calls and number of sealed messages.         *)
(***************************************************************************)

SealSpec == SealInit /\ [][SealNext]_sealVars

SealArgs == [msgId : Ids, to : Devices, from : {Friend}, flags : FlagBits, text : {<<"text", id>> : id \in Ids}]

\* What the i-th call of sealMessage() drew, and what it made.
DrawnFor(i) == <<"drawn", i - 1>>
EnvelopeOf(i) == SealMessage(sealed[i], DrawnFor(i))

SealedSo ==
    /\ sealed \in Seq(SealArgs)
    /\ \A i \in DOMAIN sealed : sealed[i].text = <<"text", sealed[i].msgId>>
    /\ \A e \in carried : \E i \in DOMAIN sealed : e = EnvelopeOf(i)

EnvelopeFields == {"version", "flags", "msgId", "recipientAddr", "senderSig", "fits", "inner"}
InnerFields == {"eph", "nonce", "body"}
CallFields == {"stage", "envelope", "expected", "text", "genuine", "seen", "intact"}

\* The i-th message is what an accepted call was given, save that its body may
\* have been overwritten since.
IsOf(asked, i) ==
    /\ sealed[i].to = Us
    /\ sealed[i].from = asked.expected
    /\ sealed[i].msgId = asked.envelope.msgId
    /\ sealed[i].flags = asked.envelope.flags
    /\ asked.envelope.recipientAddr = PeerIdTarget(PublicKey(Us))
    /\ asked.envelope.inner.eph = PublicKey(DrawnFor(i))
    /\ asked.envelope.inner.nonce = <<"nonce", DrawnFor(i)>>
    /\ \/ asked.envelope.inner.body = EnvelopeOf(i).inner.body
       \/ asked.envelope.inner.body = Garbage /\ ~asked.intact

IsSound(asked) ==
    asked.stage # "idle" =>
        /\ CallFields \subseteq DOMAIN asked
        /\ EnvelopeFields \subseteq DOMAIN asked.envelope
        /\ InnerFields \subseteq DOMAIN asked.envelope.inner
        /\ asked.stage \in {"opening", "refused", "opened"}
        /\ asked.stage # "refused" =>
            /\ asked.envelope.msgId \notin asked.seen
            /\ \E i \in DOMAIN sealed :
                /\ IsOf(asked, i)
                /\ asked.stage = "opened" => asked.text = sealed[i].text

\* The window holds what was opened, and nothing else.
WindowIsOfOpened ==
    \A id \in window : \E d \in Opens : opening[d].stage = "opened" /\ opening[d].envelope.msgId = id

SealInv ==
    /\ DOMAIN opening = Opens
    /\ SealedSo
    /\ \A c \in Opens : IsSound(opening[c])
    /\ WindowIsOfOpened
    /\ NoFalseRefusal

-----------------------------------------------------------------------------
(* The cipher and the signature *)

\* aead.ts: what is sealed opens under the same key, nonce and data.
LEMMA GcmRoundTrip ==
    ASSUME NEW key, NEW nonce, NEW aad, NEW plain
    PROVE  AesGcmOpen(key, nonce, aad, AesGcmSeal(key, nonce, aad, plain)) = plain
<1> DEFINE body == AesGcmSeal(key, nonce, aad, plain)
<1>1. body[1] = "gcm" /\ body[2] = key /\ body[3] = nonce /\ body[4] = aad /\ body[5] = plain
  BY DEF AesGcmSeal
<1> HIDE DEF body
<1> QED
  BY <1>1 DEF AesGcmOpen, body

\* The parts of what sealMessage() makes.
LEMMA EnvelopeParts ==
    ASSUME NEW a, NEW drawn
    PROVE  LET e == SealMessage(a, drawn)
               to == PublicKey(a.to)
               digest == BindingDigest(a.flags, a.msgId, PeerIdTarget(to), a.from)
           IN /\ EnvelopeFields \subseteq DOMAIN e /\ InnerFields \subseteq DOMAIN e.inner
              /\ e.version = 2 /\ e.fits = TRUE /\ e.flags = a.flags /\ e.msgId = a.msgId
              /\ e.recipientAddr = PeerIdTarget(to)
              /\ e.senderSig = Signature(a.from, <<digest, e.inner>>)
              /\ e.inner.eph = PublicKey(drawn) /\ e.inner.nonce = <<"nonce", drawn>>
              /\ e.inner.body = AesGcmSeal(PairwiseKey(SharedSecret(drawn, to), to, PublicKey(drawn)),
                                           <<"nonce", drawn>>, Aad(a.from, digest), a.text)
BY DEF SealMessage, EnvelopeFields, InnerFields

\* A signature is of its signer and of what was signed.
LEMMA SignatureBinds ==
    ASSUME NEW p, NEW q, NEW f1, NEW i1, NEW a1, NEW f2, NEW i2, NEW a2, NEW x, NEW y,
           Signature(p, <<BindingDigest(f1, i1, a1, p), x>>)
             = Signature(q, <<BindingDigest(f2, i2, a2, q), y>>)
    PROVE  p = q /\ f1 = f2 /\ i1 = i2 /\ a1 = a2 /\ x = y
<1>1. p = q /\ <<BindingDigest(f1, i1, a1, p), x>> = <<BindingDigest(f2, i2, a2, q), y>>
  BY DEF Signature
<1>2. BindingDigest(f1, i1, a1, p) = BindingDigest(f2, i2, a2, q) /\ x = y
  BY <1>1
<1> QED
  BY <1>1, <1>2 DEF BindingDigest

\* What an accepted call is of opens to the text that was sealed.
LEMMA SealedOpens ==
    ASSUME NEW asked, NEW i, IsOf(asked, i)
    PROVE  /\ asked.envelope.inner.body = EnvelopeOf(i).inner.body
                => Opened(asked.envelope, asked.expected) = sealed[i].text
           /\ asked.envelope.inner.body = Garbage
                => Opened(asked.envelope, asked.expected) = Failure
<1> DEFINE us == PublicKey(Us)
           drawn == DrawnFor(i)
           digest == BindingDigest(sealed[i].flags, sealed[i].msgId, PeerIdTarget(us), sealed[i].from)
           key == PairwiseKey(SharedSecret(drawn, us), us, PublicKey(drawn))
           aad == Aad(sealed[i].from, digest)
           nonce == <<"nonce", drawn>>
<1>1. EnvelopeOf(i).inner.body = AesGcmSeal(key, nonce, aad, sealed[i].text)
  <2>1. sealed[i].to = Us
    BY DEF IsOf
  <2> QED
    BY <2>1, EnvelopeParts DEF EnvelopeOf
<1>2. SharedSecret(Us, PublicKey(drawn)) = SharedSecret(drawn, us)
  BY ExchangeAgrees
<1>3. Opened(asked.envelope, asked.expected) = AesGcmOpen(key, nonce, aad, asked.envelope.inner.body)
  BY <1>2 DEF Opened, IsOf
<1> HIDE DEF key, aad, nonce
<1>4. AesGcmOpen(key, nonce, aad, AesGcmSeal(key, nonce, aad, sealed[i].text)) = sealed[i].text
  BY GcmRoundTrip
<1>5. AesGcmOpen(key, nonce, aad, Garbage) = Failure
  BY DEF AesGcmOpen, Garbage
<1> QED
  BY <1>1, <1>3, <1>4, <1>5

-----------------------------------------------------------------------------
(* Every step keeps the invariant *)

LEMMA ArrivalsAre ==
    ASSUME NEW e, EnvelopeFields \subseteq DOMAIN e, InnerFields \subseteq DOMAIN e.inner,
           NEW x \in Arrivals(e)
    PROVE  /\ EnvelopeFields \subseteq DOMAIN x /\ InnerFields \subseteq DOMAIN x.inner
           /\ x.senderSig \in {e.senderSig, Garbage}
<1>1. CASE x = e
  BY <1>1
<1>2. CASE x \in {[e EXCEPT !.version = 1], [e EXCEPT !.fits = FALSE], [e EXCEPT !.senderSig = Garbage]}
  BY <1>2 DEF EnvelopeFields
<1>3. CASE x \in {[e EXCEPT !.inner.eph = Garbage], [e EXCEPT !.inner.body = Garbage]}
  BY <1>3 DEF EnvelopeFields, InnerFields
<1>4. CASE \/ \E f \in FlagBits : x = [e EXCEPT !.flags = f]
           \/ \E id \in Ids : x = [e EXCEPT !.msgId = id]
           \/ \E d \in Devices : x = [e EXCEPT !.recipientAddr = PeerIdTarget(PublicKey(d))]
  BY <1>4 DEF EnvelopeFields
<1> QED
  BY <1>1, <1>2, <1>3, <1>4 DEF Arrivals

\* openMessage()'s checks let through what sealMessage() made, and only that.
LEMMA AcceptedIs ==
    ASSUME SealInv, NEW e \in carried, NEW x \in Arrivals(e), NEW peer, Accepts(x, peer)
    PROVE  \E i \in DOMAIN sealed :
                /\ sealed[i].to = Us /\ sealed[i].from = peer
                /\ sealed[i].msgId = x.msgId /\ sealed[i].flags = x.flags
                /\ x.recipientAddr = PeerIdTarget(PublicKey(Us))
                /\ x.inner = EnvelopeOf(i).inner
<1>1. PICK i \in DOMAIN sealed : e = EnvelopeOf(i)
  BY DEF SealInv, SealedSo
<1> DEFINE a == sealed[i]
           addr == PeerIdTarget(PublicKey(a.to))
<1>2. /\ EnvelopeFields \subseteq DOMAIN e /\ InnerFields \subseteq DOMAIN e.inner
      /\ e.senderSig = Signature(a.from, <<BindingDigest(a.flags, a.msgId, addr, a.from), e.inner>>)
  <2>1. e = SealMessage(a, DrawnFor(i))
    BY <1>1 DEF EnvelopeOf
  <2> HIDE DEF a
  <2> QED
    BY <2>1, EnvelopeParts, ZenonT(30)
<1>3. x.senderSig \in {e.senderSig, Garbage}
  BY <1>2, ArrivalsAre
<1>4. /\ x.senderSig = Signature(peer, <<BindingDigest(x.flags, x.msgId, x.recipientAddr, peer),
                                             x.inner>>)
      /\ x.recipientAddr = PeerIdTarget(PublicKey(Us))
  BY DEF Accepts, Verifies
<1>5. x.senderSig # Garbage
  BY <1>4 DEF Signature, Garbage
<1>6. Signature(a.from, <<BindingDigest(a.flags, a.msgId, addr, a.from), e.inner>>)
        = Signature(peer, <<BindingDigest(x.flags, x.msgId, x.recipientAddr, peer), x.inner>>)
  BY <1>2, <1>3, <1>4, <1>5
<1> HIDE DEF a, addr
<1>7. /\ a.from = peer /\ a.flags = x.flags /\ a.msgId = x.msgId /\ addr = x.recipientAddr
      /\ e.inner = x.inner
  BY <1>6, SignatureBinds
<1>8. a.to = Us
  BY <1>4, <1>7 DEF addr, PeerIdTarget, PublicKey
<1> QED
  BY <1>1, <1>4, <1>7, <1>8 DEF a

LEMMA SealKeeps ==
    ASSUME SealInv, NEW args \in SealArgs, args.text = <<"text", args.msgId>>, Seal(args)
    PROVE  SealInv'
<1>0. PICK n : n = Len(sealed) + 1
  OBVIOUS
<1>1. sealed \in Seq(SealArgs) /\ sealed' = Append(sealed, args) /\ UNCHANGED <<opening, window>>
      /\ carried' = carried \cup {SealMessage(args, <<"drawn", Len(sealed)>>)}
  BY DEF SealInv, SealedSo, Seal
<1>2. /\ sealed' \in Seq(SealArgs) /\ DOMAIN sealed' = 1..n /\ DOMAIN sealed = 1..Len(sealed)
      /\ Len(sealed) \in Nat
      /\ \A i \in 1..Len(sealed) : sealed'[i] = sealed[i]
      /\ sealed'[n] = args
  BY <1>0, <1>1, Appended
<1>3. DOMAIN sealed' = DOMAIN sealed \cup {n}
  BY <1>0, <1>2
<1>4. \A i \in DOMAIN sealed : sealed'[i] = sealed[i] /\ EnvelopeOf(i)' = EnvelopeOf(i)
  BY <1>2 DEF EnvelopeOf
<1>5. EnvelopeOf(n)' = SealMessage(args, <<"drawn", Len(sealed)>>)
  <2>1. DrawnFor(n) = <<"drawn", Len(sealed)>>
    BY <1>0, <1>2 DEF DrawnFor
  <2> QED
    BY <1>2, <2>1 DEF EnvelopeOf
<1>6. SealedSo'
  <2>1. \A i \in DOMAIN sealed' : sealed'[i].text = <<"text", sealed'[i].msgId>>
    BY <1>2, <1>3, <1>4 DEF SealInv, SealedSo
  <2>2. \A e \in carried' : \E i \in DOMAIN sealed' : e = EnvelopeOf(i)'
    <3>1. ASSUME NEW e \in carried' PROVE \E i \in DOMAIN sealed' : e = EnvelopeOf(i)'
      <4>1. CASE e \in carried
        BY <1>3, <1>4, <4>1 DEF SealInv, SealedSo
      <4>2. CASE e = EnvelopeOf(n)'
        BY <1>3, <4>2
      <4> QED
        BY <1>1, <1>5, <4>1, <4>2
    <3> QED
      BY <3>1
  <2> QED
    BY <1>2, <2>1, <2>2 DEF SealedSo
<1>7. ASSUME NEW c \in Opens PROVE IsSound(opening[c])'
  <2>1. IsSound(opening[c]) /\ opening'[c] = opening[c]
    BY <1>1 DEF SealInv
  <2>2. ASSUME NEW i \in DOMAIN sealed, IsOf(opening[c], i) PROVE IsOf(opening[c], i)'
    BY <1>4, <2>1, <2>2 DEF IsOf
  <2> QED
    BY <1>3, <1>4, <2>1, <2>2 DEF IsSound
<1>8. WindowIsOfOpened' /\ NoFalseRefusal' /\ DOMAIN opening' = Opens
  BY <1>1 DEF SealInv, WindowIsOfOpened, NoFalseRefusal
<1> QED
  BY <1>6, <1>7, <1>8 DEF SealInv

\* One call of openMessage() gets further, and the window grows at most.
LEMMA SealCallKeeps ==
    ASSUME SealInv, NEW c \in Opens, DOMAIN opening' = Opens,
           \A d \in Opens : d # c => opening'[d] = opening[d],
           UNCHANGED <<sealed, carried>>,
           IsSound(opening'[c]),
           opening[c].stage # "opened",
           \A id \in window' :
                id \in window \/ (opening'[c].stage = "opened" /\ opening'[c].envelope.msgId = id),
           (/\ opening'[c].stage = "refused" /\ opening'[c].genuine /\ opening'[c].intact
            /\ opening'[c].envelope.recipientAddr = PeerIdTarget(PublicKey(Us))
            /\ opening'[c].envelope.senderSig[2] = opening'[c].expected)
           => opening'[c].envelope.msgId \in window
    PROVE  SealInv'
<1>1. DOMAIN opening' = Opens /\ \A d \in Opens : d # c => opening'[d] = opening[d]
  OBVIOUS
<1>2. SealedSo' /\ \A i : EnvelopeOf(i)' = EnvelopeOf(i)
  BY DEF SealInv, SealedSo, EnvelopeOf
<1>3. \A d \in Opens : IsSound(opening'[d]) /\ (IsSound(opening'[d]) => IsSound(opening[d])')
  <2>1. ASSUME NEW d \in Opens PROVE IsSound(opening'[d])
    BY <1>1 DEF SealInv
  <2>2. ASSUME NEW d \in Opens, IsSound(opening'[d]) PROVE IsSound(opening[d])'
    <3>1. ASSUME NEW i, IsOf(opening'[d], i) PROVE IsOf(opening[d], i)'
      BY <1>2, <3>1 DEF IsOf
    <3> QED
      BY <2>2, <3>1 DEF IsSound
  <2> QED
    BY <2>1, <2>2
<1>4. ASSUME NEW d \in Opens, opening[d].stage = "opened"
      PROVE  opening'[d].stage = "opened" /\ opening'[d].envelope.msgId = opening[d].envelope.msgId
  BY <1>1, <1>4
<1>5. WindowIsOfOpened'
  BY <1>1, <1>4 DEF SealInv, WindowIsOfOpened
<1>6. NoFalseRefusal'
  <2> SUFFICES ASSUME NEW d \in Opens,
                      opening'[d].stage = "refused", opening'[d].genuine, opening'[d].intact,
                      opening'[d].envelope.recipientAddr = PeerIdTarget(PublicKey(Us)),
                      opening'[d].envelope.senderSig[2] = opening'[d].expected
               PROVE  \E h \in Opens : /\ opening'[h].stage = "opened"
                                       /\ opening'[h].envelope.msgId = opening'[d].envelope.msgId
    BY DEF NoFalseRefusal
  <2>1. \E h \in Opens : /\ opening[h].stage = "opened"
                         /\ opening[h].envelope.msgId = opening'[d].envelope.msgId
    <3>1. CASE d = c
      BY <1>1, <3>1 DEF SealInv, WindowIsOfOpened
    <3>2. CASE d # c
      BY <1>1, <3>2 DEF SealInv, NoFalseRefusal
    <3> QED
      BY <3>1, <3>2
  <2> QED
    BY <1>4, <2>1
<1> QED
  BY <1>1, <1>2, <1>3, <1>5, <1>6 DEF SealInv

LEMMA OpenKeeps ==
    ASSUME SealInv, NEW c \in Opens, NEW e \in carried, NEW x \in Arrivals(e), NEW genuine,
           genuine <=> x = e, NEW peer, OpenMessage(c, x, genuine, peer)
    PROVE  SealInv'
<1>0. PICK u : u = [stage |-> IF Accepts(x, peer) THEN "opening" ELSE "refused",
                    envelope |-> x, expected |-> peer, text |-> Failure,
                    genuine |-> genuine, seen |-> window, intact |-> TRUE]
  OBVIOUS
<1>1. /\ opening' = [opening EXCEPT ![c] = u] /\ UNCHANGED <<sealed, carried, window>>
      /\ opening[c].stage = "idle" /\ DOMAIN opening = Opens
  BY <1>0 DEF OpenMessage, NotCalled, SealInv
<1>2. PICK k \in DOMAIN sealed : e = SealMessage(sealed[k], DrawnFor(k))
  BY DEF SealInv, SealedSo, EnvelopeOf
<1>3. EnvelopeFields \subseteq DOMAIN x /\ InnerFields \subseteq DOMAIN x.inner
  <2>1. EnvelopeFields \subseteq DOMAIN e /\ InnerFields \subseteq DOMAIN e.inner
    BY <1>2, EnvelopeParts
  <2> QED
    BY <2>1, ArrivalsAre
<1>4. /\ CallFields \subseteq DOMAIN u /\ u.envelope = x /\ u.expected = peer
      /\ u.seen = window /\ u.intact = TRUE /\ u.genuine = genuine
      /\ u.stage = IF Accepts(x, peer) THEN "opening" ELSE "refused"
  BY <1>0 DEF CallFields
<1>5. opening'[c] = u /\ DOMAIN opening' = Opens /\ \A d \in Opens : d # c => opening'[d] = opening[d]
  BY <1>1
<1>6. IsSound(opening'[c])
  <2>1. CASE Accepts(x, peer)
    <3>1. x.msgId \notin window
      BY <2>1 DEF Accepts
    <3>2. PICK i \in DOMAIN sealed :
                /\ sealed[i].to = Us /\ sealed[i].from = peer
                /\ sealed[i].msgId = x.msgId /\ sealed[i].flags = x.flags
                /\ x.recipientAddr = PeerIdTarget(PublicKey(Us))
                /\ x.inner = EnvelopeOf(i).inner
      BY <2>1, AcceptedIs
    <3>3. x.inner.eph = PublicKey(DrawnFor(i)) /\ x.inner.nonce = <<"nonce", DrawnFor(i)>>
      BY <3>2 DEF EnvelopeOf, SealMessage
    <3>4. IsOf(opening'[c], i)
      BY <1>1, <1>4, <1>5, <3>2, <3>3 DEF IsOf, EnvelopeOf
    <3> QED
      BY <1>1, <1>3, <1>4, <1>5, <2>1, <3>1, <3>4 DEF IsSound
  <2>2. CASE ~Accepts(x, peer)
    BY <1>3, <1>4, <1>5, <2>2 DEF IsSound
  <2> QED
    BY <2>1, <2>2
<1>7. ASSUME u.stage = "refused", u.genuine,
             u.envelope.recipientAddr = PeerIdTarget(PublicKey(Us)),
             u.envelope.senderSig[2] = u.expected
      PROVE  u.envelope.msgId \in window
  <2>1. x = e /\ ~Accepts(x, peer)
    BY <1>4, <1>7
  <2> DEFINE a == sealed[k]
             digest == BindingDigest(a.flags, a.msgId, PeerIdTarget(PublicKey(a.to)), a.from)
  <2>a. e = SealMessage(a, DrawnFor(k))
    BY <1>2
  <2> HIDE DEF a
  <2>2. /\ e.version = 2 /\ e.fits = TRUE /\ e.flags = a.flags /\ e.msgId = a.msgId
        /\ e.recipientAddr = PeerIdTarget(PublicKey(a.to))
        /\ e.senderSig = Signature(a.from, <<digest, e.inner>>)
        /\ e.inner.eph = PublicKey(DrawnFor(k))
    BY <2>a, EnvelopeParts, ZenonT(30)
  <2>3. a.from = peer
    BY <1>4, <1>7, <2>1, <2>2 DEF Signature
  <2>4. SharedSecret(Us, e.inner.eph) # Failure
    BY <2>2 DEF SharedSecret, PublicKey, Failure
  <2>5. Verifies(e.senderSig, <<BindingDigest(e.flags, e.msgId, e.recipientAddr, peer), e.inner>>,
                 peer)
    BY <2>2, <2>3 DEF Verifies
  <2> QED
    BY <1>4, <1>7, <2>1, <2>2, <2>4, <2>5 DEF Accepts, Decodes
<1> QED
  BY <1>1, <1>5, <1>6, <1>7, SealCallKeeps

LEMMA ReuseKeeps ==
    ASSUME SealInv, NEW c \in Opens, BufferReused(c)
    PROVE  SealInv'
<1>1. /\ CallFields \subseteq DOMAIN opening[c] /\ EnvelopeFields \subseteq DOMAIN opening[c].envelope
      /\ InnerFields \subseteq DOMAIN opening[c].envelope.inner
      /\ opening[c].envelope.msgId \notin opening[c].seen
      /\ opening[c].stage = "opening" /\ DOMAIN opening = Opens
  BY DEF BufferReused, SealInv, IsSound
<1>2. PICK i \in DOMAIN sealed : IsOf(opening[c], i)
  BY <1>1 DEF SealInv, IsSound
<1>3. PICK u : u = [opening[c] EXCEPT !.envelope.inner.body = Garbage, !.intact = FALSE]
  OBVIOUS
<1>4. opening' = [opening EXCEPT ![c] = u] /\ UNCHANGED <<sealed, carried, window>>
  BY <1>1, <1>3 DEF BufferReused
<1>5. PICK x : x = [opening[c].envelope EXCEPT !.inner = [opening[c].envelope.inner EXCEPT !.body = Garbage]]
  OBVIOUS
<1>6. /\ EnvelopeFields \subseteq DOMAIN x /\ InnerFields \subseteq DOMAIN x.inner
      /\ x.flags = opening[c].envelope.flags /\ x.msgId = opening[c].envelope.msgId
      /\ x.recipientAddr = opening[c].envelope.recipientAddr
      /\ x.inner.eph = opening[c].envelope.inner.eph /\ x.inner.nonce = opening[c].envelope.inner.nonce
      /\ x.inner.body = Garbage
  BY <1>1, <1>5 DEF EnvelopeFields, InnerFields
<1>7. /\ CallFields \subseteq DOMAIN u /\ u.stage = "opening" /\ u.envelope = x /\ u.intact = FALSE
      /\ u.expected = opening[c].expected /\ u.seen = opening[c].seen
  BY <1>1, <1>3, <1>5 DEF CallFields
<1>8. opening'[c] = u /\ DOMAIN opening' = Opens /\ \A d \in Opens : d # c => opening'[d] = opening[d]
  BY <1>1, <1>4
<1>9. IsOf(opening'[c], i)
  BY <1>2, <1>4, <1>6, <1>7, <1>8 DEF IsOf
<1>10. IsSound(opening'[c])
  BY <1>1, <1>4, <1>6, <1>7, <1>8, <1>9 DEF IsSound
<1> QED
  BY <1>1, <1>4, <1>7, <1>8, <1>10, SealCallKeeps

LEMMA SettleKeeps ==
    ASSUME SealInv, NEW c \in Opens, OpenSettles(c)
    PROVE  SealInv'
<1> DEFINE asked == opening[c]
           text == Opened(asked.envelope, asked.expected)
<1>1. /\ CallFields \subseteq DOMAIN asked /\ EnvelopeFields \subseteq DOMAIN asked.envelope
      /\ InnerFields \subseteq DOMAIN asked.envelope.inner
      /\ asked.envelope.msgId \notin asked.seen
      /\ asked.stage = "opening" /\ DOMAIN opening = Opens
  BY DEF OpenSettles, SealInv, IsSound
<1>2. PICK i \in DOMAIN sealed : IsOf(asked, i)
  BY <1>1 DEF SealInv, IsSound
<1>3. sealed[i].text # Failure
  <2>1. sealed[i].text = <<"text", sealed[i].msgId>>
    BY DEF SealInv, SealedSo
  <2> QED
    BY <2>1 DEF Failure
<1>4. \/ text = sealed[i].text /\ text # Failure
      \/ text = Failure /\ ~asked.intact
  BY <1>2, <1>3, SealedOpens DEF IsOf
<1>5. PICK u : u = [asked EXCEPT !.stage = IF text = Failure THEN "refused" ELSE "opened", !.text = text]
  OBVIOUS
<1>6. /\ opening' = [opening EXCEPT ![c] = u] /\ UNCHANGED <<sealed, carried>>
      /\ window' = IF text = Failure THEN window ELSE window \cup {asked.envelope.msgId}
  BY <1>1, <1>5 DEF OpenSettles
<1> HIDE DEF text
<1>7. /\ CallFields \subseteq DOMAIN u /\ u.stage = (IF text = Failure THEN "refused" ELSE "opened")
      /\ u.text = text
      /\ u.envelope = asked.envelope /\ u.expected = asked.expected /\ u.seen = asked.seen
      /\ u.intact = asked.intact
  BY <1>1, <1>5 DEF CallFields
<1>8. opening'[c] = u /\ DOMAIN opening' = Opens /\ \A d \in Opens : d # c => opening'[d] = opening[d]
  BY <1>1, <1>6
<1>9. IsOf(opening'[c], i)
  BY <1>2, <1>6, <1>7, <1>8 DEF IsOf, EnvelopeOf
<1>10. IsSound(opening'[c])
  BY <1>1, <1>4, <1>6, <1>7, <1>8, <1>9 DEF IsSound
<1>11. \A id \in window' : id \in window \/ (u.stage = "opened" /\ u.envelope.msgId = id)
  BY <1>6, <1>7
<1>12. u.stage = "refused" => ~u.intact
  BY <1>4, <1>7
<1> QED
  BY <1>1, <1>6, <1>8, <1>10, <1>11, <1>12, SealCallKeeps

LEMMA SealStep ==
    ASSUME SealInv, [SealNext]_sealVars
    PROVE  SealInv'
<1>1. ASSUME NEW id \in Ids, NEW to \in Devices, NEW flags \in FlagBits,
             Seal([msgId |-> id, to |-> to, from |-> Friend, flags |-> flags, text |-> <<"text", id>>])
      PROVE  SealInv'
  <2> DEFINE args == [msgId |-> id, to |-> to, from |-> Friend, flags |-> flags, text |-> <<"text", id>>]
  <2>1. args \in SealArgs /\ args.text = <<"text", args.msgId>>
    BY DEF SealArgs
  <2> HIDE DEF args
  <2> QED
    BY <1>1, <2>1, SealKeeps DEF args
<1>2. ASSUME NEW c \in Opens, NEW e \in carried, NEW peer \in Contacts, NEW x \in Arrivals(e),
             OpenMessage(c, x, x = e, peer)
      PROVE  SealInv'
  BY <1>2, OpenKeeps
<1>3. ASSUME NEW c \in Opens, BufferReused(c) \/ OpenSettles(c) PROVE SealInv'
  BY <1>3, ReuseKeeps, SettleKeeps
<1>4. CASE UNCHANGED sealVars
  <2>1. UNCHANGED <<sealed, carried, opening, window>>
    BY <1>4 DEF sealVars
  <2>2. \A i : EnvelopeOf(i)' = EnvelopeOf(i)
    BY <2>1 DEF EnvelopeOf
  <2>3. \A c, i : IsOf(opening[c], i) => IsOf(opening[c], i)'
    BY <2>1, <2>2 DEF IsOf
  <2>4. \A c \in Opens : IsSound(opening[c])'
    BY <2>1, <2>3 DEF SealInv, IsSound
  <2>5. SealedSo' /\ WindowIsOfOpened' /\ NoFalseRefusal' /\ DOMAIN opening' = Opens
    BY <2>1, <2>2 DEF SealInv, SealedSo, WindowIsOfOpened, NoFalseRefusal
  <2> QED
    BY <2>4, <2>5 DEF SealInv
<1> QED
  BY <1>1, <1>2, <1>3, <1>4 DEF SealNext

\* What openMessage() returns was sealed, by the contact it is taken to come
\* from, for this device, under that id and with those flags; a message that
\* arrives whole is opened unless it was opened before; and none is opened
\* twice but by calls that overlapped.
THEOREM OpenedAreSealed ==
    SealSpec => []MessagesOpenAsSealed
<1>1. SealInit => SealInv
  <2> SUFFICES ASSUME SealInit PROVE SealInv
    OBVIOUS
  <2>1. sealed \in Seq(SealArgs) /\ DOMAIN sealed = {}
    BY DEF SealInit
  <2>2. DOMAIN opening = Opens /\ \A c \in Opens : opening[c].stage = "idle"
    BY DEF SealInit, NotCalled
  <2> QED
    BY <2>1, <2>2 DEF SealInit, SealInv, SealedSo, IsSound, WindowIsOfOpened, NoFalseRefusal
<1>2. SealInv /\ [SealNext]_sealVars => SealInv'
  BY SealStep
<1>3. SealInv => MessagesOpenAsSealed
  <2> SUFFICES ASSUME SealInv PROVE MessagesOpenAsSealed
    OBVIOUS
  <2>1. ASSUME NEW c \in Opens, opening[c].stage = "opened"
        PROVE  /\ opening[c].envelope.msgId \notin opening[c].seen
               /\ \E i \in DOMAIN sealed : IsOf(opening[c], i) /\ opening[c].text = sealed[i].text
    BY <2>1 DEF SealInv, IsSound
  <2>2. OpenedAsSealed
    <3> SUFFICES ASSUME NEW c \in Opens, opening[c].stage = "opened"
                 PROVE  \E i \in DOMAIN sealed :
                            [msgId |-> opening[c].envelope.msgId, to |-> Us,
                             from |-> opening[c].expected, flags |-> opening[c].envelope.flags,
                             text |-> opening[c].text] = sealed[i]
      BY DEF OpenedAsSealed
    <3>1. PICK i \in DOMAIN sealed : IsOf(opening[c], i) /\ opening[c].text = sealed[i].text
      BY <2>1
    <3>2. sealed[i] \in SealArgs
      BY DEF SealInv, SealedSo
    <3> QED
      BY <3>1, <3>2 DEF IsOf, SealArgs
  <2>3. OpenedOnceInTurn
    BY <2>1 DEF OpenedOnceInTurn
  <2> QED
    BY <2>2, <2>3 DEF MessagesOpenAsSealed, SealInv
<1> QED
  BY <1>1, <1>2, <1>3, PTL DEF SealSpec

-----------------------------------------------------------------------------
(***************************************************************************)
(* RoomUrls, for any payloads: the checksum is looked at as arithmetic.    *)
(***************************************************************************)

UrlSpec == UrlInit /\ [][UrlNext]_urlVars

-----------------------------------------------------------------------------
(* The checksum *)

\* Either weight tells any two values apart, and a sum its summand.
LEMMA WeightTells ==
    ASSUME NEW i \in Nat, NEW a \in 0..33, NEW b \in 0..33, Weighted(i, a) = Weighted(i, b)
    PROVE  a = b
<1>1. (a * 3) % 34 = (b * 3) % 34 => a = b
  OBVIOUS
<1> QED
  BY <1>1 DEF Weighted, N

LEMMA WeightIs ==
    ASSUME NEW i \in Nat, NEW a \in 0..33
    PROVE  Weighted(i, a) \in 0..33
BY DEF Weighted, N

LEMMA SumTells ==
    ASSUME NEW r \in Nat, NEW x \in 0..33, NEW y \in 0..33,
           (34 - ((r + x) % 34)) % 34 = (34 - ((r + y) % 34)) % 34
    PROVE  x = y
OBVIOUS

\* Two values with the two weights, swapped: the sum tells unless 17 divides
\* what they differ by.
LEMMA SwapTells ==
    ASSUME NEW r \in Nat, NEW a \in 0..33, NEW b \in 0..33,
           (34 - ((r + a + ((b * 3) % 34)) % 34)) % 34 = (34 - ((r + b + ((a * 3) % 34)) % 34)) % 34
    PROVE  a % 17 = b % 17
OBVIOUS

\* A digit and the check value it makes, swapped: the check value gives it away.
LEMMA LastTells ==
    ASSUME NEW r \in Nat, NEW d \in 0..9, NEW c \in 0..9,
           c = (34 - ((r + ((d * 3) % 34)) % 34)) % 34,
           d = (34 - ((r + ((c * 3) % 34)) % 34)) % 34
    PROVE  c = d
OBVIOUS

Values == [1..8 -> 0..33]

LEMMA CheckIsValue ==
    ASSUME NEW p \in Values
    PROVE  /\ \A i \in 1..8 : p[i] \in 0..33 /\ Weighted(i, p[i]) \in 0..33
           /\ LuhnSum(p) \in Nat
           /\ LuhnCheckValue(p) = (34 - (LuhnSum(p) % 34)) % 34
           /\ LuhnCheckValue(p) \in 0..33
<1>1. \A i \in 1..8 : p[i] \in 0..33
  BY DEF Values
<1>2. ASSUME NEW i \in 1..8 PROVE Weighted(i, p[i]) \in 0..33
  <2>1. i \in Nat /\ p[i] \in 0..33
    BY <1>1
  <2> QED
    BY <2>1, WeightIs
<1>3. LuhnSum(p) \in Nat
  <2>1. /\ Weighted(1, p[1]) \in 0..33 /\ Weighted(2, p[2]) \in 0..33
        /\ Weighted(3, p[3]) \in 0..33 /\ Weighted(4, p[4]) \in 0..33
        /\ Weighted(5, p[5]) \in 0..33 /\ Weighted(6, p[6]) \in 0..33
        /\ Weighted(7, p[7]) \in 0..33 /\ Weighted(8, p[8]) \in 0..33
    BY <1>2
  <2>2. PICK w1, w2, w3, w4, w5, w6, w7, w8 :
            /\ w1 = Weighted(1, p[1]) /\ w2 = Weighted(2, p[2]) /\ w3 = Weighted(3, p[3])
            /\ w4 = Weighted(4, p[4]) /\ w5 = Weighted(5, p[5]) /\ w6 = Weighted(6, p[6])
            /\ w7 = Weighted(7, p[7]) /\ w8 = Weighted(8, p[8])
    OBVIOUS
  <2>3. /\ w1 \in 0..33 /\ w2 \in 0..33 /\ w3 \in 0..33 /\ w4 \in 0..33
        /\ w5 \in 0..33 /\ w6 \in 0..33 /\ w7 \in 0..33 /\ w8 \in 0..33
    BY <2>1, <2>2
  <2>4. w1 + w2 + w3 + w4 + w5 + w6 + w7 + w8 \in Nat
    BY <2>3
  <2> QED
    BY <2>2, <2>4 DEF LuhnSum
<1>4. LuhnCheckValue(p) = (34 - (LuhnSum(p) % 34)) % 34
  BY DEF LuhnCheckValue, N
<1> QED
  BY <1>1, <1>2, <1>3, <1>4

SumOf(w) == w[1] + w[2] + w[3] + w[4] + w[5] + w[6] + w[7] + w[8]
Weights(p) == [i \in 1..8 |-> Weighted(i, p[i])]

LEMMA WeightsAre ==
    ASSUME NEW p \in Values
    PROVE  /\ Weights(p) \in Values /\ LuhnSum(p) = SumOf(Weights(p))
           /\ \A i \in 1..8 : Weights(p)[i] = Weighted(i, p[i])
<1>1. \A i \in 1..8 : Weighted(i, p[i]) \in 0..33
  BY CheckIsValue
<1>2. \A i \in 1..8 : Weights(p)[i] = Weighted(i, p[i])
  BY DEF Weights
<1>3. Weights(p) \in Values
  BY <1>1 DEF Weights, Values
<1> QED
  BY <1>2, <1>3 DEF LuhnSum, SumOf

\* Sums of eight that differ in one summand at most, or in two neighbours.
LEMMA SumsBut ==
    ASSUME NEW w \in Values, NEW v \in Values, NEW i \in 1..8,
           \A j \in 1..8 : j # i => v[j] = w[j]
    PROVE  \E r \in Nat : SumOf(w) = r + w[i] /\ SumOf(v) = r + v[i]
<1>1. PICK w1, w2, w3, w4, w5, w6, w7, w8 :
        /\ w1 = w[1] /\ w2 = w[2] /\ w3 = w[3] /\ w4 = w[4]
        /\ w5 = w[5] /\ w6 = w[6] /\ w7 = w[7] /\ w8 = w[8]
  OBVIOUS
<1>2. PICK v1, v2, v3, v4, v5, v6, v7, v8 :
        /\ v1 = v[1] /\ v2 = v[2] /\ v3 = v[3] /\ v4 = v[4]
        /\ v5 = v[5] /\ v6 = v[6] /\ v7 = v[7] /\ v8 = v[8]
  OBVIOUS
<1>3. /\ w1 \in 0..33 /\ w2 \in 0..33 /\ w3 \in 0..33 /\ w4 \in 0..33
      /\ w5 \in 0..33 /\ w6 \in 0..33 /\ w7 \in 0..33 /\ w8 \in 0..33
      /\ v1 \in 0..33 /\ v2 \in 0..33 /\ v3 \in 0..33 /\ v4 \in 0..33
      /\ v5 \in 0..33 /\ v6 \in 0..33 /\ v7 \in 0..33 /\ v8 \in 0..33
  BY <1>1, <1>2 DEF Values
<1>4. /\ SumOf(w) = w1 + w2 + w3 + w4 + w5 + w6 + w7 + w8
      /\ SumOf(v) = v1 + v2 + v3 + v4 + v5 + v6 + v7 + v8
  BY <1>1, <1>2 DEF SumOf
<1>5. PICK x, y : x = w[i] /\ y = v[i]
  OBVIOUS
<1>6. \/ /\ x = w1 /\ y = v1
         /\ v2 = w2 /\ v3 = w3 /\ v4 = w4 /\ v5 = w5 /\ v6 = w6 /\ v7 = w7 /\ v8 = w8
      \/ /\ x = w2 /\ y = v2
         /\ v1 = w1 /\ v3 = w3 /\ v4 = w4 /\ v5 = w5 /\ v6 = w6 /\ v7 = w7 /\ v8 = w8
      \/ /\ x = w3 /\ y = v3
         /\ v1 = w1 /\ v2 = w2 /\ v4 = w4 /\ v5 = w5 /\ v6 = w6 /\ v7 = w7 /\ v8 = w8
      \/ /\ x = w4 /\ y = v4
         /\ v1 = w1 /\ v2 = w2 /\ v3 = w3 /\ v5 = w5 /\ v6 = w6 /\ v7 = w7 /\ v8 = w8
      \/ /\ x = w5 /\ y = v5
         /\ v1 = w1 /\ v2 = w2 /\ v3 = w3 /\ v4 = w4 /\ v6 = w6 /\ v7 = w7 /\ v8 = w8
      \/ /\ x = w6 /\ y = v6
         /\ v1 = w1 /\ v2 = w2 /\ v3 = w3 /\ v4 = w4 /\ v5 = w5 /\ v7 = w7 /\ v8 = w8
      \/ /\ x = w7 /\ y = v7
         /\ v1 = w1 /\ v2 = w2 /\ v3 = w3 /\ v4 = w4 /\ v5 = w5 /\ v6 = w6 /\ v8 = w8
      \/ /\ x = w8 /\ y = v8
         /\ v1 = w1 /\ v2 = w2 /\ v3 = w3 /\ v4 = w4 /\ v5 = w5 /\ v6 = w6 /\ v7 = w7
  <2>1. i \in {1, 2, 3, 4, 5, 6, 7, 8}
    OBVIOUS
  <2> QED
    BY <1>1, <1>2, <1>5, <2>1
<1>7. PICK r : r = w1 + w2 + w3 + w4 + w5 + w6 + w7 + w8 - x
  OBVIOUS
<1>8. r \in Nat /\ w1 + w2 + w3 + w4 + w5 + w6 + w7 + w8 = r + x /\ v1 + v2 + v3 + v4 + v5 + v6 + v7 + v8 = r + y
  BY <1>3, <1>6, <1>7
<1> QED
  BY <1>4, <1>5, <1>8

LEMMA SumsButTwo ==
    ASSUME NEW w \in Values, NEW v \in Values, NEW i \in 1..7,
           \A j \in 1..8 : j \notin {i, i + 1} => v[j] = w[j]
    PROVE  \E r \in Nat : SumOf(w) = r + w[i] + w[i + 1] /\ SumOf(v) = r + v[i] + v[i + 1]
<1>1. PICK w1, w2, w3, w4, w5, w6, w7, w8 :
        /\ w1 = w[1] /\ w2 = w[2] /\ w3 = w[3] /\ w4 = w[4]
        /\ w5 = w[5] /\ w6 = w[6] /\ w7 = w[7] /\ w8 = w[8]
  OBVIOUS
<1>2. PICK v1, v2, v3, v4, v5, v6, v7, v8 :
        /\ v1 = v[1] /\ v2 = v[2] /\ v3 = v[3] /\ v4 = v[4]
        /\ v5 = v[5] /\ v6 = v[6] /\ v7 = v[7] /\ v8 = v[8]
  OBVIOUS
<1>3. /\ w1 \in 0..33 /\ w2 \in 0..33 /\ w3 \in 0..33 /\ w4 \in 0..33
      /\ w5 \in 0..33 /\ w6 \in 0..33 /\ w7 \in 0..33 /\ w8 \in 0..33
      /\ v1 \in 0..33 /\ v2 \in 0..33 /\ v3 \in 0..33 /\ v4 \in 0..33
      /\ v5 \in 0..33 /\ v6 \in 0..33 /\ v7 \in 0..33 /\ v8 \in 0..33
  BY <1>1, <1>2 DEF Values
<1>4. /\ SumOf(w) = w1 + w2 + w3 + w4 + w5 + w6 + w7 + w8
      /\ SumOf(v) = v1 + v2 + v3 + v4 + v5 + v6 + v7 + v8
  BY <1>1, <1>2 DEF SumOf
<1>5. PICK x, x2, y, y2 : x = w[i] /\ x2 = w[i + 1] /\ y = v[i] /\ y2 = v[i + 1]
  OBVIOUS
<1>6. \/ /\ x = w1 /\ y = v1 /\ x2 = w2 /\ y2 = v2
         /\ v3 = w3 /\ v4 = w4 /\ v5 = w5 /\ v6 = w6 /\ v7 = w7 /\ v8 = w8
      \/ /\ x = w2 /\ y = v2 /\ x2 = w3 /\ y2 = v3
         /\ v1 = w1 /\ v4 = w4 /\ v5 = w5 /\ v6 = w6 /\ v7 = w7 /\ v8 = w8
      \/ /\ x = w3 /\ y = v3 /\ x2 = w4 /\ y2 = v4
         /\ v1 = w1 /\ v2 = w2 /\ v5 = w5 /\ v6 = w6 /\ v7 = w7 /\ v8 = w8
      \/ /\ x = w4 /\ y = v4 /\ x2 = w5 /\ y2 = v5
         /\ v1 = w1 /\ v2 = w2 /\ v3 = w3 /\ v6 = w6 /\ v7 = w7 /\ v8 = w8
      \/ /\ x = w5 /\ y = v5 /\ x2 = w6 /\ y2 = v6
         /\ v1 = w1 /\ v2 = w2 /\ v3 = w3 /\ v4 = w4 /\ v7 = w7 /\ v8 = w8
      \/ /\ x = w6 /\ y = v6 /\ x2 = w7 /\ y2 = v7
         /\ v1 = w1 /\ v2 = w2 /\ v3 = w3 /\ v4 = w4 /\ v5 = w5 /\ v8 = w8
      \/ /\ x = w7 /\ y = v7 /\ x2 = w8 /\ y2 = v8
         /\ v1 = w1 /\ v2 = w2 /\ v3 = w3 /\ v4 = w4 /\ v5 = w5 /\ v6 = w6
  <2>1. i \in {1, 2, 3, 4, 5, 6, 7}
    OBVIOUS
  <2> QED
    BY <1>1, <1>2, <1>5, <2>1
<1>7. PICK r : r = w1 + w2 + w3 + w4 + w5 + w6 + w7 + w8 - x - x2
  OBVIOUS
<1>8. /\ r \in Nat /\ w1 + w2 + w3 + w4 + w5 + w6 + w7 + w8 = r + x + x2
      /\ v1 + v2 + v3 + v4 + v5 + v6 + v7 + v8 = r + y + y2
  BY <1>3, <1>6, <1>7
<1> QED
  BY <1>4, <1>5, <1>8

\* Two payloads that differ in one value at most.
LEMMA SumsShare ==
    ASSUME NEW p \in Values, NEW q \in Values, NEW i \in 1..8,
           \A j \in 1..8 : j # i => q[j] = p[j]
    PROVE  \E r \in Nat : /\ LuhnSum(p) = r + Weighted(i, p[i])
                          /\ LuhnSum(q) = r + Weighted(i, q[i])
<1>1. \A j \in 1..8 : j # i => Weights(q)[j] = Weights(p)[j]
  BY WeightsAre
<1>2. \E r \in Nat : /\ SumOf(Weights(p)) = r + Weights(p)[i]
                     /\ SumOf(Weights(q)) = r + Weights(q)[i]
  BY <1>1, WeightsAre, SumsBut
<1> QED
  BY <1>2, WeightsAre

LEMMA OneKeyTells ==
    ASSUME NEW p \in Values, NEW q \in Values, NEW i \in 1..8,
           \A j \in 1..8 : j # i => q[j] = p[j],
           LuhnCheckValue(p) = LuhnCheckValue(q)
    PROVE  p[i] = q[i]
<1>1. PICK r \in Nat : /\ LuhnSum(p) = r + Weighted(i, p[i])
                       /\ LuhnSum(q) = r + Weighted(i, q[i])
  BY SumsShare
<1>2. /\ p[i] \in 0..33 /\ q[i] \in 0..33
      /\ Weighted(i, p[i]) \in 0..33 /\ Weighted(i, q[i]) \in 0..33
  BY CheckIsValue
<1>3. PICK x, y : x = Weighted(i, p[i]) /\ y = Weighted(i, q[i])
  OBVIOUS
<1>4. (34 - ((r + x) % 34)) % 34 = (34 - ((r + y) % 34)) % 34
  BY <1>1, <1>3, CheckIsValue
<1>5. Weighted(i, p[i]) = Weighted(i, q[i])
  BY <1>2, <1>3, <1>4, SumTells
<1> QED
  BY <1>2, <1>5, WeightTells

\* Two payloads in which two neighbours are swapped.
LEMMA SwapsShare ==
    ASSUME NEW p \in Values, NEW q \in Values, NEW i \in 1..7,
           q[i] = p[i + 1], q[i + 1] = p[i],
           \A j \in 1..8 : j \notin {i, i + 1} => q[j] = p[j]
    PROVE  \E r \in Nat : /\ LuhnSum(p) = r + Weighted(i, p[i]) + Weighted(i + 1, p[i + 1])
                          /\ LuhnSum(q) = r + Weighted(i, p[i + 1]) + Weighted(i + 1, p[i])
<1>1. \A j \in 1..8 : j \notin {i, i + 1} => Weights(q)[j] = Weights(p)[j]
  BY WeightsAre
<1>2. \E r \in Nat : /\ SumOf(Weights(p)) = r + Weights(p)[i] + Weights(p)[i + 1]
                     /\ SumOf(Weights(q)) = r + Weights(q)[i] + Weights(q)[i + 1]
  BY <1>1, WeightsAre, SumsButTwo
<1>3. i \in 1..8 /\ i + 1 \in 1..8
  OBVIOUS
<1> QED
  BY <1>2, <1>3, WeightsAre

LEMMA SwappedKeysTell ==
    ASSUME NEW p \in Values, NEW q \in Values, NEW i \in 1..7,
           q[i] = p[i + 1], q[i + 1] = p[i],
           \A j \in 1..8 : j \notin {i, i + 1} => q[j] = p[j],
           LuhnCheckValue(p) = LuhnCheckValue(q)
    PROVE  p[i] % 17 = p[i + 1] % 17
<1>1. PICK a, b : a = p[i] /\ b = p[i + 1]
  OBVIOUS
<1>2. PICK r \in Nat : /\ LuhnSum(p) = r + Weighted(i, a) + Weighted(i + 1, b)
                       /\ LuhnSum(q) = r + Weighted(i, b) + Weighted(i + 1, a)
  BY <1>1, SwapsShare
<1>3. a \in 0..33 /\ b \in 0..33
  BY <1>1, CheckIsValue
<1>4. (34 - (LuhnSum(p) % 34)) % 34 = (34 - (LuhnSum(q) % 34)) % 34
  BY CheckIsValue
<1>5. PICK a3, b3 : a3 = (a * 3) % 34 /\ b3 = (b * 3) % 34
  OBVIOUS
<1>6. a3 \in 0..33 /\ b3 \in 0..33
  BY <1>3, <1>5
<1>7. \/ LuhnSum(p) = r + b + a3 /\ LuhnSum(q) = r + a + b3
      \/ LuhnSum(p) = r + a + b3 /\ LuhnSum(q) = r + b + a3
  <2>1. CASE i % 2 = 0
    <3>1. (i + 1) % 2 # 0
      BY <2>1
    <3>2. /\ Weighted(i, a) = a3 /\ Weighted(i, b) = b3
          /\ Weighted(i + 1, a) = a /\ Weighted(i + 1, b) = b
      BY <1>5, <2>1, <3>1 DEF Weighted, N
    <3>3. r + a3 + b = r + b + a3 /\ r + b3 + a = r + a + b3
      BY <1>3, <1>6
    <3> QED
      BY <1>2, <3>2, <3>3
  <2>2. CASE i % 2 # 0
    <3>1. (i + 1) % 2 = 0
      BY <2>2
    <3>2. /\ Weighted(i, a) = a /\ Weighted(i, b) = b
          /\ Weighted(i + 1, a) = a3 /\ Weighted(i + 1, b) = b3
      BY <1>5, <2>2, <3>1 DEF Weighted, N
    <3> QED
      BY <1>2, <3>2
  <2> QED
    BY <2>1, <2>2
<1>8. (34 - ((r + a + b3) % 34)) % 34 = (34 - ((r + b + a3) % 34)) % 34
  BY <1>4, <1>7
<1>9. a % 17 = b % 17
  BY <1>3, <1>5, <1>8, SwapTells, ZenonT(30)
<1> QED
  BY <1>1, <1>9

\* The last digit and the check value, swapped.
LEMMA LastKeysTell ==
    ASSUME NEW p \in Values, NEW q \in Values, p[8] \in Digits, q[8] \in Digits,
           \A j \in 1..7 : q[j] = p[j],
           q[8] = LuhnCheckValue(p), p[8] = LuhnCheckValue(q)
    PROVE  p[8] = q[8]
<1>1. PICK r \in Nat : LuhnSum(p) = r + Weighted(8, p[8]) /\ LuhnSum(q) = r + Weighted(8, q[8])
  BY SumsShare
<1>2. Weighted(8, p[8]) = (p[8] * 3) % 34 /\ Weighted(8, q[8]) = (q[8] * 3) % 34
  BY DEF Weighted, N
<1>3. p[8] \in 0..9 /\ q[8] \in 0..9
  BY DEF Digits
<1>4. /\ q[8] = (34 - ((r + ((p[8] * 3) % 34)) % 34)) % 34
      /\ p[8] = (34 - ((r + ((q[8] * 3) % 34)) % 34)) % 34
  BY <1>1, <1>2, CheckIsValue
<1> QED
  BY <1>3, <1>4, LastTells

-----------------------------------------------------------------------------
(* Codes *)

\* Nine keys, of which some may be no key of the alphabet.
Codes == [1..9 -> -1..33]

LEMMA PayloadIs ==
    ASSUME NEW c \in Codes
    PROVE  /\ Len(c) = 9 /\ DOMAIN Payload(c) = 1..8
           /\ \A i \in 1..8 : Payload(c)[i] = c[i]
           /\ VerifyChecksum(c) => Payload(c) \in Values
<1>1. Len(c) = 9
  BY SequenceOf DEF Codes
<1>2. DOMAIN Payload(c) = 1..8 /\ \A i \in 1..8 : Payload(c)[i] = c[i]
  BY DEF Payload
<1>3. VerifyChecksum(c) => Payload(c) \in Values
  BY DEF VerifyChecksum, Payload, Values, N
<1> QED
  BY <1>1, <1>2, <1>3

\* What parseRoomCode() and isValidRoomId() make of nine keys.
LEMMA CodeIsParsed ==
    ASSUME NEW c \in Codes
    PROVE  /\ ParseRoomCode(Code(c)) =
                IF VerifyChecksum(c) /\ IsBare(Payload(c)) /\ c[1] \in GroupLetters
                THEN [roomId |-> Code(Payload(c)), kind |-> "group"]
                ELSE [roomId |-> NoId, kind |-> Null]
           /\ IsValidRoomId(Code(c)) <=> IsBare(Payload(c)) /\ VerifyChecksum(c)
<1>1. Len(c) = 9
  BY PayloadIs
<1>2. Code(c).form = "code" /\ Code(c).chars = c
  BY DEF Code, Id
<1> QED
  BY <1>1, <1>2 DEF ParseRoomCode, IsValidRoomId

\* A code that generateRoomCode() mints.
LEMMA MintedIs ==
    ASSUME NEW p \in Payloads
    PROVE  LET c == AppendChecksum(p) IN
           /\ p \in Values /\ c \in Codes /\ Payload(c) = p
           /\ \A i \in 1..8 : c[i] = p[i]
           /\ c[9] = LuhnCheckValue(p)
           /\ VerifyChecksum(c) /\ IsBare(Payload(c)) /\ c[1] \in GroupLetters
<1> DEFINE c == AppendChecksum(p)
<1>1. /\ p \in Values /\ p[1] \in GroupLetters
      /\ \A i \in 2..4 : p[i] \in FullLetters
      /\ \A i \in 5..8 : p[i] \in Digits
  BY UrlAssumption DEF Values
<1>2. LuhnCheckValue(p) \in 0..33
  BY <1>1, CheckIsValue
<1>3. c = [i \in 1..9 |-> IF i = 9 THEN LuhnCheckValue(p) ELSE p[i]]
  BY DEF AppendChecksum
<1> HIDE DEF c
<1>4. /\ \A i \in 1..8 : c[i] = p[i]
      /\ c[9] = LuhnCheckValue(p)
  BY <1>3
<1>5. c \in Codes
  BY <1>1, <1>2, <1>3 DEF Codes, Values
<1>6. Payload(c) = p
  BY <1>1, <1>4 DEF Payload, Values
<1>7. VerifyChecksum(c)
  BY <1>1, <1>4, <1>6 DEF VerifyChecksum, Values, N
<1>8. IsBare(Payload(c))
  <2>1. p[1] \in FullLetters
    BY <1>1 DEF GroupLetters, FullLetters
  <2> QED
    BY <1>1, <1>6, <2>1 DEF IsBare
<1> QED
  BY <1>1, <1>4, <1>5, <1>6, <1>7, <1>8 DEF c

\* A minted code in which one key is another, or two neighbours are swapped.
LEMMA SlipOfOneKey ==
    ASSUME NEW p \in Payloads, NEW i \in 1..9, NEW v \in -1..33, v # AppendChecksum(p)[i]
    PROVE  ~VerifyChecksum([AppendChecksum(p) EXCEPT ![i] = v])
<1> DEFINE c == AppendChecksum(p)
<1>1. /\ p \in Values /\ c \in Codes /\ Payload(c) = p /\ \A j \in 1..8 : c[j] = p[j]
      /\ c[9] = LuhnCheckValue(p)
  BY MintedIs
<1> HIDE DEF c
<1>2. PICK d : d = [c EXCEPT ![i] = v]
  OBVIOUS
<1>3. d \in Codes /\ d[i] = v /\ \A j \in 1..9 : j # i => d[j] = c[j]
  BY <1>1, <1>2 DEF Codes
<1>4. ASSUME VerifyChecksum(d) PROVE FALSE
  <2>1. /\ Payload(d) \in Values /\ \A j \in 1..8 : Payload(d)[j] = d[j]
        /\ d[9] = LuhnCheckValue(Payload(d))
    BY <1>3, <1>4, PayloadIs DEF VerifyChecksum
  <2>2. CASE i = 9
    <3>1. Payload(d) = p
      BY <1>1, <1>3, <2>1, <2>2 DEF Values
    <3> QED
      BY <1>1, <1>3, <2>1, <2>2, <3>1 DEF c
  <2>3. CASE i # 9
    <3>1. i \in 1..8 /\ \A j \in 1..8 : j # i => Payload(d)[j] = p[j]
      BY <1>1, <1>3, <2>1, <2>3
    <3>2. LuhnCheckValue(p) = LuhnCheckValue(Payload(d))
      BY <1>1, <1>3, <2>1, <2>3
    <3>3. p[i] = Payload(d)[i]
      BY <1>1, <2>1, <3>1, <3>2, OneKeyTells
    <3> QED
      BY <1>1, <1>3, <2>1, <3>1, <3>3 DEF c
  <2> QED
    BY <2>2, <2>3
<1> QED
  BY <1>2, <1>4 DEF c

LEMMA SlipOfTwoKeys ==
    ASSUME NEW p \in Payloads, NEW i \in 1..8, NEW d \in Codes,
           AppendChecksum(p)[i] # AppendChecksum(p)[i + 1],
           d[i] = AppendChecksum(p)[i + 1], d[i + 1] = AppendChecksum(p)[i],
           \A j \in 1..9 : j \notin {i, i + 1} => d[j] = AppendChecksum(p)[j],
           VerifyChecksum(d), IsBare(Payload(d))
    PROVE  i \in 1..7 /\ AppendChecksum(p)[i] % 17 = AppendChecksum(p)[i + 1] % 17
<1> DEFINE c == AppendChecksum(p)
<1>1. /\ p \in Values /\ c \in Codes /\ Payload(c) = p /\ \A j \in 1..8 : c[j] = p[j]
      /\ c[9] = LuhnCheckValue(p) /\ IsBare(p)
  BY MintedIs
<1>2. /\ Payload(d) \in Values /\ \A j \in 1..8 : Payload(d)[j] = d[j]
      /\ d[9] = LuhnCheckValue(Payload(d))
  BY PayloadIs DEF VerifyChecksum
<1>a. /\ c[i] # c[i + 1] /\ d[i] = c[i + 1] /\ d[i + 1] = c[i]
      /\ \A j \in 1..9 : j \notin {i, i + 1} => d[j] = c[j]
  OBVIOUS
<1> HIDE DEF c
<1>3. CASE i = 8
  <2>1. d[8] = LuhnCheckValue(p) /\ p[8] = LuhnCheckValue(Payload(d)) /\ p[8] # d[8]
    BY <1>1, <1>2, <1>3, <1>a
  <2>2. \A j \in 1..7 : Payload(d)[j] = p[j]
    BY <1>1, <1>2, <1>3, <1>a
  <2>3. p[8] \in Digits /\ Payload(d)[8] \in Digits
    BY <1>1 DEF IsBare
  <2>4. p[8] = Payload(d)[8]
    BY <1>1, <1>2, <2>1, <2>2, <2>3, LastKeysTell
  <2> QED
    BY <1>2, <2>1, <2>4
<1>4. CASE i # 8
  <2>1. i \in 1..7 /\ i + 1 \in 1..8 /\ 9 \notin {i, i + 1}
    BY <1>4
  <2>2. /\ Payload(d)[i] = p[i + 1] /\ Payload(d)[i + 1] = p[i]
        /\ \A j \in 1..8 : j \notin {i, i + 1} => Payload(d)[j] = p[j]
    BY <1>1, <1>2, <1>a, <2>1
  <2>3. LuhnCheckValue(p) = LuhnCheckValue(Payload(d))
    BY <1>1, <1>2, <1>a, <2>1
  <2>4. p[i] % 17 = p[i + 1] % 17
    BY <1>1, <1>2, <2>1, <2>2, <2>3, SwappedKeysTell
  <2>5. c[i] = p[i] /\ c[i + 1] = p[i + 1]
    BY <1>1, <2>1
  <2> QED
    BY <2>1, <2>4, <2>5 DEF c
<1> QED
  BY <1>3, <1>4

-----------------------------------------------------------------------------
(* From the minting of an id to the parsing of its URL *)

HasRoom == urlStage \in {"minted", "built", "parsed"}

MintedSo ==
    \/ minted.kind = "group" /\ \E p \in Payloads : minted.id = Code(AppendChecksum(p))
    \/ minted.kind \in {"1to1", "burner", "sealed"} /\ minted.id.form \in {"opaque", "uuid"}

\* A URL as it was built, or with what happened to it since.
UrlSo ==
    /\ slip \in {"none", "key", "swap", "route"}
    /\ slip = "none" => url \in UrlsOf(minted)
    /\ slip = "key" =>
        /\ minted.kind = "group"
        /\ \E audio : \E i \in 1..9, v \in -1..33 :
            /\ v # minted.id.chars[i]
            /\ url = Url("/r/", Code([minted.id.chars EXCEPT ![i] = v]), "none", audio)
    /\ slip = "swap" =>
        /\ minted.kind = "group"
        /\ \E audio : \E i \in 1..8 :
            /\ minted.id.chars[i] # minted.id.chars[i + 1]
            /\ url = Url("/r/", Code([minted.id.chars EXCEPT ![i] = minted.id.chars[i + 1],
                                                             ![i + 1] = minted.id.chars[i]]),
                         "none", audio)

UrlInv ==
    /\ urlStage \in {"start", "drawing", "refused", "minted", "built", "parsed"}
    /\ urlStage \in {"start", "drawing", "minted"} => slip = "none"
    /\ urlStage = "drawing" => minted.kind \in {"1to1", "burner", "sealed"}
                               /\ DOMAIN minted = {"kind", "id"}
    /\ HasRoom => MintedSo
    /\ urlStage \in {"built", "parsed"} => UrlSo
    /\ urlStage = "parsed" => parsedUrl = ParseRoomUrl(url)

LEMMA GroupUrl ==
    ASSUME minted.kind = "group"
    PROVE  UrlsOf(minted) = {Url("/r/", minted.id, "none", FALSE)}
BY DEF UrlsOf

LEMMA OtherUrls ==
    ASSUME minted.kind \in {"1to1", "burner", "sealed"}, NEW u \in UrlsOf(minted)
    PROVE  /\ u.id = minted.id
           /\ \/ u.fragment = "none"
              \/ u.fragment = "call" /\ u.prefix = ""
              \/ u.fragment = "burner" /\ u.prefix = "/c/"
<1>1. CASE minted.kind = "1to1"
  <2>1. u \in [prefix : {""}, id : {minted.id}, fragment : {"none", "call"}, audio : BOOLEAN]
    BY <1>1 DEF UrlsOf
  <2> QED
    BY <2>1
<1>2. CASE minted.kind = "burner"
  <2>1. u = Url("/c/", minted.id, "burner", FALSE)
    BY <1>2 DEF UrlsOf
  <2> QED
    BY <2>1 DEF Url
<1>3. CASE minted.kind = "sealed"
  <2>1. u = Url("/m/", minted.id, "none", FALSE)
    BY <1>3 DEF UrlsOf
  <2> QED
    BY <2>1 DEF Url
<1> QED
  BY <1>1, <1>2, <1>3

LEMMA SlippedUrl ==
    ASSUME NEW c, NEW d, NEW a
    PROVE  [Url("/r/", Code(c), "none", a) EXCEPT !.id.chars = d] = Url("/r/", Code(d), "none", a)
BY DEF Url, Code, Id

LEMMA MistypeKeeps ==
    ASSUME UrlInv, Mistype
    PROVE  UrlInv'
<1>1. /\ urlStage = "built" /\ slip = "none" /\ minted.kind = "group"
      /\ UNCHANGED <<urlStage, draws, minted, parsedUrl>>
  BY DEF Mistype
<1>2. PICK audio : url = Url("/r/", minted.id, "none", audio)
  BY <1>1, GroupUrl DEF UrlInv, UrlSo
<1>3. PICK p \in Payloads : minted.id = Code(AppendChecksum(p))
  BY <1>1 DEF UrlInv, HasRoom, MintedSo
<1>4. PICK c : c = AppendChecksum(p)
  OBVIOUS
<1>5. url = Url("/r/", Code(c), "none", audio) /\ url.id.chars = c /\ minted.id.chars = c
  BY <1>2, <1>3, <1>4 DEF Url, Code, Id
<1>6. /\ minted'.kind = "group" /\ minted'.id.chars = c /\ MintedSo'
  BY <1>1, <1>5 DEF UrlInv, HasRoom, MintedSo
<1>7. slip' \in {"key", "swap"} /\ UrlSo'
  <2>1. ASSUME NEW i \in 1..9, NEW v \in -1..33, v # url.id.chars[i],
               url' = [url EXCEPT !.id.chars[i] = v], slip' = "key"
        PROVE  UrlSo'
    <3>1. url' = Url("/r/", Code([c EXCEPT ![i] = v]), "none", audio)
      <4>1. url' = [url EXCEPT !.id.chars = [c EXCEPT ![i] = v]]
        BY <1>5, <2>1 DEF Url, Code, Id
      <4> QED
        BY <1>5, <4>1, SlippedUrl
    <3>2. v # minted'.id.chars[i]
      BY <1>5, <1>6, <2>1
    <3> QED
      BY <1>6, <2>1, <3>1, <3>2 DEF UrlSo
  <2>2. ASSUME NEW i \in 1..8, url.id.chars[i] # url.id.chars[i + 1],
               url' = [url EXCEPT !.id.chars[i] = url.id.chars[i + 1],
                                  !.id.chars[i + 1] = url.id.chars[i]],
               slip' = "swap"
        PROVE  UrlSo'
    <3>1. url' = Url("/r/", Code([c EXCEPT ![i] = c[i + 1], ![i + 1] = c[i]]), "none", audio)
      <4>1. url' = [url EXCEPT !.id.chars = [c EXCEPT ![i] = c[i + 1], ![i + 1] = c[i]]]
        BY <1>5, <2>2, ZenonT(30) DEF Url, Code, Id
      <4> QED
        BY <1>5, <4>1, SlippedUrl
    <3>2. minted'.id.chars[i] # minted'.id.chars[i + 1]
      BY <1>5, <1>6, <2>2
    <3> QED
      BY <1>6, <2>2, <3>1, <3>2 DEF UrlSo
  <2> QED
    BY <2>1, <2>2 DEF Mistype
<1> QED
  BY <1>1, <1>6, <1>7 DEF UrlInv, HasRoom

LEMMA UrlStep ==
    ASSUME UrlInv, [UrlNext]_urlVars
    PROVE  UrlInv'
<1>1. CASE MintGroup
  <2>1. PICK p \in Payloads : minted' = [kind |-> "group", id |-> Code(AppendChecksum(p))]
    BY <1>1 DEF MintGroup
  <2>2. MintedSo'
    BY <2>1 DEF MintedSo
  <2> QED
    BY <1>1, <2>2 DEF MintGroup, UrlInv, HasRoom
<1>2. CASE MintOpaque
  <2>1. PICK kind \in RealKinds \ {"group"} :
            \/ minted' = [kind |-> kind, id |-> NoId] /\ urlStage' = "drawing"
            \/ minted' = [kind |-> kind, id |-> Id("uuid", <<>>)] /\ urlStage' = "minted"
    BY <1>2 DEF MintOpaque
  <2>2. kind \in {"1to1", "burner", "sealed"}
    BY DEF RealKinds
  <2>3. minted'.kind = kind /\ DOMAIN minted' = {"kind", "id"}
    BY <2>1
  <2>4. urlStage' = "minted" => MintedSo'
    BY <2>1, <2>2 DEF MintedSo, Id
  <2> QED
    BY <1>2, <2>1, <2>2, <2>3, <2>4 DEF MintOpaque, UrlInv, HasRoom
<1>3. CASE Draw
  <2>1. minted.kind \in {"1to1", "burner", "sealed"} /\ DOMAIN minted = {"kind", "id"}
        /\ slip' = slip /\ slip = "none"
    BY <1>3 DEF Draw, UrlInv
  <2>2. CASE minted' = [minted EXCEPT !.id = Id("opaque", <<>>)] /\ urlStage' = "minted"
    <3>1. minted'.kind = minted.kind /\ minted'.id = Id("opaque", <<>>)
      BY <2>1, <2>2
    <3>2. MintedSo'
      BY <2>1, <3>1 DEF MintedSo, Id
    <3> QED
      BY <2>1, <2>2, <3>2 DEF UrlInv, HasRoom
  <2>3. CASE urlStage' \in {"refused", "drawing"} /\ minted' = minted
    BY <2>1, <2>3 DEF UrlInv, HasRoom
  <2> QED
    BY <1>3, <2>2, <2>3 DEF Draw
<1>4. CASE Build
  <2>1. slip' = "none" /\ url' \in UrlsOf(minted)' /\ MintedSo' /\ urlStage' = "built"
    BY <1>4 DEF Build, UrlInv, HasRoom, MintedSo
  <2> QED
    BY <2>1 DEF UrlInv, UrlSo, HasRoom
<1>5. CASE Mistype
  BY <1>5, MistypeKeeps
<1>6. CASE Reroute
  <2>1. slip' = "route" /\ urlStage' = "built" /\ MintedSo'
    BY <1>6 DEF Reroute, UrlInv, HasRoom, MintedSo
  <2> QED
    BY <2>1 DEF UrlInv, UrlSo, HasRoom
<1>7. CASE Parse
  <2>1. UNCHANGED <<minted, url, slip>> /\ urlStage = "built" /\ urlStage' = "parsed"
        /\ parsedUrl' = ParseRoomUrl(url)
    BY <1>7 DEF Parse
  <2>2. MintedSo' /\ UrlSo'
    BY <2>1 DEF UrlInv, HasRoom, MintedSo, UrlSo
  <2> QED
    BY <2>1, <2>2 DEF UrlInv, HasRoom
<1>8. CASE UNCHANGED urlVars
  <2>1. UNCHANGED <<urlStage, minted, url, slip, parsedUrl>>
    BY <1>8 DEF urlVars
  <2>2. (MintedSo => MintedSo') /\ (UrlSo => UrlSo')
    BY <2>1 DEF MintedSo, UrlSo
  <2> QED
    BY <2>1, <2>2 DEF UrlInv, HasRoom
<1> QED
  BY <1>1, <1>2, <1>3, <1>4, <1>5, <1>6, <1>7, <1>8 DEF UrlNext

\* What parsing finds, from what parseRoomCode() found.
LEMMA ParsedIs ==
    ASSUME NEW u
    PROVE  /\ ParseRoomCode(u.id).kind = Null => ParseRoomUrl(u) = Refusal
           /\ ParseRoomUrl(u).fragment = "call" => u.prefix = ""
           /\ ParseRoomUrl(u).fragment = "burner" => u.prefix = "/c/"
BY DEF ParseRoomUrl, Refusal

LEMMA WrongKey ==
    ASSUME UrlInv, urlStage = "parsed", slip = "key"
    PROVE  parsedUrl = Refusal /\ ~IsValidRoomId(url.id)
<1>1. minted.kind = "group" /\ parsedUrl = ParseRoomUrl(url)
  BY DEF UrlInv, UrlSo
<1>2. PICK p \in Payloads : minted.id = Code(AppendChecksum(p))
  BY <1>1 DEF UrlInv, HasRoom, MintedSo
<1>3. minted.id.chars = AppendChecksum(p)
  BY <1>2 DEF Code, Id
<1>4. PICK audio : \E i \in 1..9, v \in -1..33 :
            /\ v # AppendChecksum(p)[i]
            /\ url = Url("/r/", Code([AppendChecksum(p) EXCEPT ![i] = v]), "none", audio)
  BY <1>3 DEF UrlInv, UrlSo
<1>a. PICK i \in 1..9, v \in -1..33 :
            /\ v # AppendChecksum(p)[i]
            /\ url = Url("/r/", Code([AppendChecksum(p) EXCEPT ![i] = v]), "none", audio)
  BY <1>4
<1>5. PICK d : d = [AppendChecksum(p) EXCEPT ![i] = v]
  OBVIOUS
<1>6. ~VerifyChecksum(d)
  BY <1>a, <1>5, SlipOfOneKey
<1>7. d \in Codes /\ url.id = Code(d)
  <2>1. AppendChecksum(p) \in Codes
    BY MintedIs
  <2>2. d \in Codes
    BY <1>5, <2>1 DEF Codes
  <2> QED
    BY <1>a, <1>5, <2>2 DEF Url
<1>8. ParseRoomCode(url.id).kind = Null /\ ~IsValidRoomId(url.id)
  BY <1>6, <1>7, CodeIsParsed
<1> QED
  BY <1>1, <1>8, ParsedIs

LEMMA SwappedKeys ==
    ASSUME UrlInv, urlStage = "parsed", slip = "swap", parsedUrl # Refusal
    PROVE  \E i \in 1..7 : /\ minted.id.chars[i] # url.id.chars[i]
                           /\ minted.id.chars[i] % 17 = minted.id.chars[i + 1] % 17
<1>1. minted.kind = "group" /\ parsedUrl = ParseRoomUrl(url)
  BY DEF UrlInv, UrlSo
<1>2. PICK p \in Payloads : minted.id = Code(AppendChecksum(p))
  BY <1>1 DEF UrlInv, HasRoom, MintedSo
<1>3. PICK c : c = AppendChecksum(p)
  OBVIOUS
<1>4. minted.id.chars = c /\ c \in Codes
  BY <1>2, <1>3, MintedIs DEF Code, Id
<1>5. PICK audio : \E i \in 1..8 :
            /\ c[i] # c[i + 1]
            /\ url = Url("/r/", Code([c EXCEPT ![i] = c[i + 1], ![i + 1] = c[i]]), "none", audio)
  BY <1>4 DEF UrlInv, UrlSo
<1>a. PICK i \in 1..8 :
            /\ c[i] # c[i + 1]
            /\ url = Url("/r/", Code([c EXCEPT ![i] = c[i + 1], ![i + 1] = c[i]]), "none", audio)
  BY <1>5
<1>6. PICK d : d = [c EXCEPT ![i] = c[i + 1], ![i + 1] = c[i]]
  OBVIOUS
<1>7. url.id = Code(d) /\ url.id.chars = d
  BY <1>a, <1>6 DEF Url, Code, Id
<1>8. /\ d \in Codes /\ d[i] = c[i + 1] /\ d[i + 1] = c[i]
      /\ \A j \in 1..9 : j \notin {i, i + 1} => d[j] = c[j]
  <2>1. i \in 1..9 /\ i + 1 \in 1..9 /\ i # i + 1
    OBVIOUS
  <2>2. c[i] \in -1..33 /\ c[i + 1] \in -1..33
    BY <1>4, <2>1 DEF Codes
  <2> QED
    BY <1>4, <1>6, <2>1, <2>2 DEF Codes
<1>9. VerifyChecksum(d) /\ IsBare(Payload(d))
  <2>1. ParseRoomCode(Code(d)).kind # Null
    BY <1>1, <1>7, ParsedIs
  <2> QED
    BY <1>8, <2>1, CodeIsParsed
<1>10. i \in 1..7 /\ c[i] % 17 = c[i + 1] % 17
  BY <1>3, <1>a, <1>8, <1>9, SlipOfTwoKeys
<1> QED
  BY <1>4, <1>a, <1>7, <1>8, <1>10

LEMMA AsBuilt ==
    ASSUME UrlInv, urlStage = "parsed", slip = "none"
    PROVE  /\ parsedUrl.roomId = IF minted.kind = "group"
                                 THEN Code(Payload(minted.id.chars)) ELSE minted.id
           /\ parsedUrl.kind = IF minted.kind = "group" THEN "group" ELSE "opaque"
           /\ parsedUrl.fragment = url.fragment
           /\ parsedUrl.audio = url.audio
<1>1. url \in UrlsOf(minted) /\ parsedUrl = ParseRoomUrl(url) /\ MintedSo
  BY DEF UrlInv, UrlSo, HasRoom
<1>2. CASE minted.kind = "group"
  <2>1. url = Url("/r/", minted.id, "none", FALSE)
    BY <1>1, <1>2, GroupUrl
  <2>2. PICK p \in Payloads : minted.id = Code(AppendChecksum(p))
    BY <1>1, <1>2 DEF MintedSo
  <2>3. PICK c : c = AppendChecksum(p)
    OBVIOUS
  <2>4. /\ c \in Codes /\ VerifyChecksum(c) /\ IsBare(Payload(c)) /\ c[1] \in GroupLetters
    BY <2>3, MintedIs
  <2>5. minted.id.chars = c /\ url.id = Code(c) /\ url.prefix = "/r/" /\ url.fragment = "none"
    BY <2>1, <2>2, <2>3 DEF Url, Code, Id
  <2>6. ParseRoomCode(url.id) = [roomId |-> Code(Payload(c)), kind |-> "group"]
    BY <2>4, <2>5, CodeIsParsed
  <2> QED
    BY <1>1, <1>2, <2>5, <2>6 DEF ParseRoomUrl, Null
<1>3. CASE minted.kind # "group"
  <2>1. minted.kind \in {"1to1", "burner", "sealed"} /\ minted.id.form \in {"opaque", "uuid"}
    BY <1>1, <1>3 DEF MintedSo
  <2>2. /\ url.id = minted.id
        /\ \/ url.fragment = "none"
           \/ url.fragment = "call" /\ url.prefix = ""
           \/ url.fragment = "burner" /\ url.prefix = "/c/"
    BY <1>1, <2>1, OtherUrls
  <2>3. ParseRoomCode(url.id) = [roomId |-> minted.id, kind |-> "opaque"]
    BY <2>1, <2>2 DEF ParseRoomCode
  <2>4. ParseRoomUrl(url) = [roomId |-> minted.id, kind |-> "opaque", fragment |-> url.fragment,
                             audio |-> url.audio]
    <3>1. CASE url.fragment = "none"
      BY <2>3, <3>1 DEF ParseRoomUrl, Null
    <3>2. CASE url.fragment = "call" /\ url.prefix = ""
      <4>1. PICK code : code = ParseRoomCode(url.id)
        OBVIOUS
      <4>2. code.kind = "opaque" /\ code.roomId = minted.id /\ code.kind # Null
        BY <2>3, <4>1 DEF Null
      <4> QED
        BY <3>2, <4>1, <4>2 DEF ParseRoomUrl
    <3>3. CASE url.fragment = "burner" /\ url.prefix = "/c/"
      BY <2>3, <3>3 DEF ParseRoomUrl, Null
    <3> QED
      BY <2>2, <3>1, <3>2, <3>3
  <2> QED
    BY <1>1, <1>3, <2>4
<1> QED
  BY <1>2, <1>3

\* A shared URL opens the room it was made for, with its secret (parseRoomUrl());
\* one wrong key opens none, and two keys swapped only where 17 divides what they
\* differ by (verifyChecksum()); no secret is taken for that of another route.
THEOREM UrlsOpenTheirRoom ==
    UrlSpec => []UrlOpensItsRoom
<1>1. UrlInit => UrlInv
  BY DEF UrlInit, UrlInv, HasRoom
<1>2. UrlInv /\ [UrlNext]_urlVars => UrlInv'
  BY UrlStep
<1>3. UrlInv => UrlOpensItsRoom
  <2> SUFFICES ASSUME UrlInv, urlStage = "parsed" PROVE UrlOpensItsRoom
    BY DEF UrlOpensItsRoom
  <2>1. parsedUrl = ParseRoomUrl(url)
    BY DEF UrlInv
  <2>2. /\ parsedUrl.fragment = "call" => url.prefix = ""
        /\ parsedUrl.fragment = "burner" => url.prefix = "/c/"
    BY <2>1, ParsedIs
  <2> QED
    BY <2>2, AsBuilt, WrongKey, SwappedKeys DEF UrlOpensItsRoom
<1> QED
  BY <1>1, <1>2, <1>3, PTL DEF UrlSpec

-----------------------------------------------------------------------------
(***************************************************************************)
(* WireFormats, for any dictionaries.                                      *)
(***************************************************************************)

WireSpec == WireInit /\ [][WireNext]_wireVars

-----------------------------------------------------------------------------
(* Negotiation *)

LEMMA DictOfEveryone ==
    ASSUME NEW shared
    PROVE  NegotiateDict(shared) \in (Dicts \cap shared) \cup {NoDict}
<1>1. CASE Dicts \cap shared = {}
  BY <1>1 DEF NegotiateDict
<1>2. CASE Dicts \cap shared # {}
  <2> DEFINE met == {i \in DOMAIN DictOrder : DictOrder[i] \in shared}
  <2>1. DictOrder \in Seq(Dicts)
    BY WireAssumption
  <2>2. met \subseteq DOMAIN DictOrder /\ met # {}
    BY <1>2 DEF Dicts
  <2>3. \A i \in DOMAIN DictOrder : i \in met <=> DictOrder[i] \in shared
    OBVIOUS
  <2> HIDE DEF met
  <2>4. PICK i \in met : \A j \in met : i <= j
    BY <2>1, <2>2, FirstPosition
  <2>5. DictOrder[i] \in shared /\ \A j \in 1..(i - 1) : DictOrder[j] \notin shared
    BY <2>1, <2>2, <2>3, <2>4
  <2>6. i \in DOMAIN DictOrder
    BY <2>2, <2>4
  <2>7. PICK k : k = CHOOSE h \in DOMAIN DictOrder :
                        DictOrder[h] \in shared /\ \A j \in 1..(h - 1) : DictOrder[j] \notin shared
    OBVIOUS
  <2>8. k \in DOMAIN DictOrder /\ DictOrder[k] \in shared
    BY <2>5, <2>6, <2>7
  <2>9. NegotiateDict(shared) = DictOrder[k]
    BY <1>2, <2>7 DEF NegotiateDict
  <2> QED
    BY <2>8, <2>9 DEF Dicts
<1> QED
  BY <1>1, <1>2

\* What every build of the room can read: JSON always, and the second envelope
\* where it can read the third.
LEMMA PeersRead ==
    ASSUME NEW p \in Peers
    PROVE  "json" \in p.caps /\ (Envelope3 \in p.caps => Envelope2 \in p.caps)
<1>1. PICK first, last :
        p \in {[caps |-> {"json"}, held |-> {}],
               [caps |-> {"json", "cbor"}, held |-> {}],
               [caps |-> {"json", "cbor", "cbor+zstd", Envelope2} \cup last, held |-> last],
               [caps |-> AllCaps, held |-> Dicts],
               [caps |-> AllCaps, held |-> first],
               [caps |-> AllCaps, held |-> {}]}
  BY DEF Peers
<1> QED
  BY <1>1 DEF AllCaps, Envelope2, Envelope3

LEMMA NegotiatedOptions ==
    ASSUME NEW p \in Peers, NEW q \in Peers
    PROVE  LET opts == Negotiated({p, q}) IN
           /\ opts.zstd => "cbor+zstd" \in p.caps
           /\ opts.cbor /\ ~opts.zstd => "cbor" \in p.caps
           /\ opts.dict \in (Dicts \cap p.caps) \cup {NoDict}
           /\ opts.envelope = 3 => Envelope3 \in p.caps /\ Envelope2 \in p.caps
           /\ opts.envelope = 2 => Envelope2 \in p.caps
<1> DEFINE shared == {cap \in AllCaps : \A r \in {p, q} : cap \in r.caps}
           opts == Negotiated({p, q})
<1>1. \A cap \in shared : cap \in p.caps
  OBVIOUS
<1> HIDE DEF shared
<1>2. /\ opts.zstd <=> NegotiateCap(shared) = "cbor+zstd"
      /\ opts.cbor <=> NegotiateCap(shared) # "json"
      /\ opts.dict = NegotiateDict(shared)
      /\ opts.envelope = NegotiateEnvelopeVersion({p, q}, shared)
  BY DEF Negotiated, shared
<1> HIDE DEF opts
<1>3. /\ NegotiateCap(shared) = "cbor+zstd" => "cbor+zstd" \in shared
      /\ NegotiateCap(shared) \notin {"json", "cbor+zstd"} => "cbor" \in shared
  BY DEF NegotiateCap
<1>4. /\ NegotiateEnvelopeVersion({p, q}, shared) = 3 => Envelope3 \in shared
      /\ NegotiateEnvelopeVersion({p, q}, shared) = 2 => Envelope2 \in shared
  BY DEF NegotiateEnvelopeVersion
<1>5. NegotiateDict(shared) \in (Dicts \cap shared) \cup {NoDict}
  BY DictOfEveryone
<1>6. opts.zstd => "cbor+zstd" \in p.caps
  BY <1>1, <1>2, <1>3
<1>7. opts.cbor /\ ~opts.zstd => "cbor" \in p.caps
  BY <1>1, <1>2, <1>3
<1>8. opts.dict \in (Dicts \cap p.caps) \cup {NoDict}
  BY <1>1, <1>2, <1>5
<1>9. /\ opts.envelope = 3 => Envelope3 \in p.caps /\ Envelope2 \in p.caps
      /\ opts.envelope = 2 => Envelope2 \in p.caps
  BY <1>1, <1>2, <1>4, PeersRead
<1> QED
  BY <1>6, <1>7, <1>8, <1>9 DEF opts

-----------------------------------------------------------------------------
(* Frames *)

\* The frames encode() makes, each with what the options must say for it.
Encoded(e, opts, f) ==
    \/ /\ f.magic = "0xCA" /\ opts.zstd /\ opts.envelope = 3 /\ CanEncodeAsV3(e, 7)
       /\ f.dict \in {opts.dict, NoDict} /\ f.body = Compact(e, 3)
    \/ /\ f.magic = "0xC8" /\ opts.zstd /\ opts.envelope \in {2, 3} /\ CanEncodeAsV2(e)
       /\ f.dict \in {opts.dict, NoDict} /\ f.body = Compact(e, 2)
    \/ f.magic \in {"0xC6", "0xC7"} /\ opts.zstd /\ f.dict \in {opts.dict, NoDict} /\ f.body = e
    \/ f.magic = "cbor" /\ opts.cbor /\ ~opts.zstd /\ f.dict = NoDict /\ f.body = e
    \/ f.magic = "{" /\ f.dict = NoDict /\ f.body = e

LEMMA FrameFields ==
    ASSUME NEW magic, NEW dict, NEW body
    PROVE  /\ Frame(magic, dict, body).magic = magic
           /\ Frame(magic, dict, body).dict = dict
           /\ Frame(magic, dict, body).body = body
BY DEF Frame

LEMMA EncodeIs ==
    ASSUME NEW e, NEW opts, NEW held, opts.zstd \in BOOLEAN, opts.cbor \in BOOLEAN,
           NEW f, f = Encode(e, opts, 7, held)
    PROVE  Encoded(e, opts, f)
<1> DEFINE v3 == opts.envelope = 3 /\ CanEncodeAsV3(e, 7)
           v2 == ~v3 /\ opts.envelope \in {2, 3} /\ CanEncodeAsV2(e)
           dict == IF opts.dict \in held THEN opts.dict ELSE NoDict
<1>1. dict \in {opts.dict, NoDict}
  OBVIOUS
<1>2. PICK d : d = dict
  OBVIOUS
<1>3. f =
        CASE opts.zstd /\ v3 -> Frame("0xCA", d, Compact(e, 3))
          [] opts.zstd /\ v2 -> Frame("0xC8", d, Compact(e, 2))
          [] opts.zstd /\ ~v3 /\ ~v2 /\ d # NoDict -> Frame("0xC7", d, e)
          [] opts.zstd /\ ~v3 /\ ~v2 /\ d = NoDict -> Frame("0xC6", NoDict, e)
          [] ~opts.zstd /\ opts.cbor -> Frame("cbor", NoDict, e)
          [] OTHER -> Frame("{", NoDict, e)
  BY <1>2 DEF Encode
<1>4. (v3 => opts.envelope = 3 /\ CanEncodeAsV3(e, 7))
      /\ (v2 => ~v3 /\ opts.envelope \in {2, 3} /\ CanEncodeAsV2(e))
  OBVIOUS
<1> HIDE DEF v2, v3, dict
<1>5. CASE opts.zstd /\ v3
  <2>1. f = Frame("0xCA", d, Compact(e, 3))
    BY <1>3, <1>4, <1>5
  <2>2. f.magic = "0xCA" /\ f.dict = d /\ f.body = Compact(e, 3)
    BY <2>1, FrameFields
  <2> QED
    BY <1>1, <1>2, <1>4, <1>5, <2>2 DEF Encoded
<1>6. CASE opts.zstd /\ ~v3 /\ v2
  <2>1. f = Frame("0xC8", d, Compact(e, 2))
    BY <1>3, <1>4, <1>6
  <2>2. f.magic = "0xC8" /\ f.dict = d /\ f.body = Compact(e, 2)
    BY <2>1, FrameFields
  <2> QED
    BY <1>1, <1>2, <1>4, <1>6, <2>2 DEF Encoded
<1>7. CASE opts.zstd /\ ~v3 /\ ~v2
  <2>1. f \in {Frame("0xC7", d, e), Frame("0xC6", NoDict, e)}
    BY <1>3, <1>7
  <2>2. f.magic \in {"0xC6", "0xC7"} /\ f.dict \in {d, NoDict} /\ f.body = e
    BY <2>1, FrameFields
  <2> QED
    BY <1>1, <1>2, <1>7, <2>2 DEF Encoded
<1>8. CASE ~opts.zstd /\ opts.cbor
  <2>1. f = Frame("cbor", NoDict, e)
    BY <1>3, <1>8
  <2>2. f.magic = "cbor" /\ f.dict = NoDict /\ f.body = e
    BY <2>1, FrameFields
  <2> QED
    BY <1>8, <2>2 DEF Encoded
<1>9. CASE ~opts.zstd /\ ~opts.cbor
  <2>1. f = Frame("{", NoDict, e)
    BY <1>3, <1>9
  <2>2. ASSUME NEW m, f = Frame(m, NoDict, e)
        PROVE  f.magic = m /\ f.dict = NoDict /\ f.body = e
    BY <2>2, FrameFields
  <2>3. f.magic = "{" /\ f.dict = NoDict /\ f.body = e
    BY <2>1, <2>2
  <2> QED
    BY <2>3 DEF Encoded
<1> QED
  BY <1>5, <1>6, <1>7, <1>8, <1>9

EnvelopeTypes == [id : {"uuid", "lenient", "other"}, ts : {"near", "far"},
                  kind : {"known", "new"}, from : {"sender", "missing"}]

LEMMA CompactFields ==
    ASSUME NEW id, NEW ts, NEW kind, NEW from, NEW v,
           NEW e, e = [id |-> id, ts |-> ts, kind |-> kind, from |-> from]
    PROVE  Compact(e, v) =
               [id |-> "bytes", ts |-> ts, kind |-> kind,
                from |-> IF v = 3 THEN "index" ELSE from]
<1>1. PICK newFrom : newFrom = IF v = 3 THEN "index" ELSE from
  OBVIOUS
<1>2. e.from = from
  OBVIOUS
<1>3. Compact(e, v) = [e EXCEPT !.id = "bytes", !.from = newFrom]
  BY <1>1, <1>2 DEF Compact
<1> QED
  BY <1>1, <1>3

LEMMA ExpandedFields ==
    ASSUME NEW ts, NEW kind, NEW from, NEW resolved,
           NEW c, c = [id |-> "bytes", ts |-> ts, kind |-> kind, from |-> from]
    PROVE  Expanded(c, resolved) =
               [id |-> "uuid", ts |-> ts,
                kind |-> IF kind = "new" THEN "chat-unknown-future" ELSE kind,
                from |-> IF from = "index" THEN IF resolved THEN "sender" ELSE "missing" ELSE from]
<1>1. PICK newKind, newFrom :
        /\ newKind = IF kind = "new" THEN "chat-unknown-future" ELSE kind
        /\ newFrom = IF from = "index" THEN IF resolved THEN "sender" ELSE "missing" ELSE from
  OBVIOUS
<1>2. c.kind = kind /\ c.from = from
  OBVIOUS
<1>3. Expanded(c, resolved) = [c EXCEPT !.id = "uuid", !.kind = newKind, !.from = newFrom]
  BY <1>1, <1>2 DEF Expanded
<1> QED
  BY <1>1, <1>3

\* What is compact is expanded to what it was.
LEMMA ExpandedIs ==
    ASSUME NEW e \in EnvelopeTypes, e.id # "lenient", NEW resolved \in BOOLEAN
    PROVE  /\ CanEncodeAsV2(e) => Expanded(Compact(e, 2), resolved) = e
           /\ CanEncodeAsV3(e, 7) => Expanded(Compact(e, 3), resolved) =
                                        IF resolved THEN e ELSE [e EXCEPT !.from = "missing"]
<1>1. /\ e.from \in {"sender", "missing"} /\ e.id \in {"uuid", "other"}
      /\ e = [id |-> e.id, ts |-> e.ts, kind |-> e.kind, from |-> e.from]
  BY DEF EnvelopeTypes
<1>2. ASSUME CanEncodeAsV2(e) PROVE Expanded(Compact(e, 2), resolved) = e
  <2>1. e.id = "uuid" /\ e.kind = "known"
    BY <1>1, <1>2 DEF CanEncodeAsV2
  <2>2. PICK ts, from : /\ e = [id |-> "uuid", ts |-> ts, kind |-> "known", from |-> from]
                        /\ from \in {"sender", "missing"}
    BY <1>1, <2>1
  <2>3. Compact(e, 2) = [id |-> "bytes", ts |-> ts, kind |-> "known", from |-> from]
    BY <2>2, CompactFields
  <2>4. Expanded(Compact(e, 2), resolved) = [id |-> "uuid", ts |-> ts, kind |-> "known", from |-> from]
    BY <2>2, <2>3, ExpandedFields
  <2> QED
    BY <2>2, <2>4
<1>3. ASSUME CanEncodeAsV3(e, 7)
      PROVE  Expanded(Compact(e, 3), resolved) = IF resolved THEN e ELSE [e EXCEPT !.from = "missing"]
  <2>1. e.id = "uuid" /\ e.kind = "known" /\ e.from = "sender"
    BY <1>1, <1>3 DEF CanEncodeAsV3, CanEncodeAsV2
  <2>2. PICK ts : e = [id |-> "uuid", ts |-> ts, kind |-> "known", from |-> "sender"]
    BY <1>1, <2>1
  <2>3. Compact(e, 3) = [id |-> "bytes", ts |-> ts, kind |-> "known", from |-> "index"]
    BY <2>2, CompactFields
  <2>4. Expanded(Compact(e, 3), resolved) =
            [id |-> "uuid", ts |-> ts, kind |-> "known",
             from |-> IF resolved THEN "sender" ELSE "missing"]
    BY <2>3, ExpandedFields
  <2>5. [e EXCEPT !.from = "missing"] = [id |-> "uuid", ts |-> ts, kind |-> "known", from |-> "missing"]
    BY <2>2
  <2> QED
    BY <2>2, <2>4, <2>5
<1> QED
  BY <1>2, <1>3

LEMMA FrameIsRead ==
    ASSUME NEW p \in Peers, NEW q \in Peers, NEW e \in EnvelopeTypes, e.id # "lenient",
           NEW resolved \in BOOLEAN, NEW held, NEW f, f = Encode(e, Negotiated({p, q}), 7, held)
    PROVE  IF f.dict \in Dicts \ p.held
           THEN ReadBy(p, f, resolved) = Failed("DICT_NOT_LOADED")
           ELSE ReadBy(p, f, resolved) =
                    Read(IF f.magic = "0xCA" /\ ~resolved THEN [e EXCEPT !.from = "missing"] ELSE e)
<1>1. PICK opts : opts = Negotiated({p, q})
  OBVIOUS
<1>2. /\ opts.zstd => "cbor+zstd" \in p.caps
      /\ opts.cbor /\ ~opts.zstd => "cbor" \in p.caps
      /\ opts.dict \in (Dicts \cap p.caps) \cup {NoDict}
      /\ opts.envelope = 3 => Envelope3 \in p.caps /\ Envelope2 \in p.caps
      /\ opts.envelope = 2 => Envelope2 \in p.caps
  BY <1>1, NegotiatedOptions
<1>3. opts.zstd \in BOOLEAN /\ opts.cbor \in BOOLEAN
  BY <1>1 DEF Negotiated
<1>4. Encoded(e, opts, f)
  BY <1>1, <1>3, EncodeIs
<1>5. NoDict \notin Dicts /\ "json" \in p.caps
  BY WireAssumption, PeersRead
<1>6. f.dict \in (Dicts \cap p.caps) \cup {NoDict}
  BY <1>2, <1>4 DEF Encoded
<1>7. Needs(f) \subseteq p.caps
  <2>1. CASE f.magic = "0xCA"
    BY <1>2, <1>4, <2>1 DEF Encoded, Needs
  <2>2. CASE f.magic = "0xC8"
    BY <1>2, <1>4, <2>2 DEF Encoded, Needs
  <2>3. CASE f.magic \in {"0xC6", "0xC7"}
    BY <1>2, <1>4, <2>3 DEF Encoded, Needs
  <2>4. CASE f.magic = "cbor"
    BY <1>2, <1>4, <2>4 DEF Encoded, Needs
  <2>5. CASE f.magic = "{"
    BY <1>5, <2>5 DEF Needs
  <2> QED
    BY <1>4, <2>1, <2>2, <2>3, <2>4, <2>5 DEF Encoded
<1>8. ReadBy(p, f, resolved) = Decode(f, TRUE, p.held, resolved)
  BY <1>6, <1>7 DEF ReadBy
<1>9. CASE f.magic \in {"{", "cbor"}
  <2>1. f.body = e /\ f.dict = NoDict
    BY <1>4, <1>9 DEF Encoded
  <2> QED
    BY <1>5, <1>8, <1>9, <2>1 DEF Decode
<1>10. CASE f.magic \in {"0xC6", "0xC7", "0xC8", "0xCA"}
  <2>1. CASE f.dict \in Dicts \ p.held
    BY <1>5, <1>8, <1>10, <2>1 DEF Decode
  <2>2. CASE f.dict \notin Dicts \ p.held
    <3>1. ReadBy(p, f, resolved) =
            Read(IF f.magic \in {"0xC8", "0xCA"} THEN Expanded(f.body, resolved) ELSE f.body)
      BY <1>5, <1>6, <1>8, <1>10, <2>2 DEF Decode
    <3>2. CASE f.magic = "0xCA"
      BY <1>4, <2>2, <3>1, <3>2, ExpandedIs DEF Encoded
    <3>3. CASE f.magic = "0xC8"
      BY <1>4, <2>2, <3>1, <3>3, ExpandedIs DEF Encoded
    <3>4. CASE f.magic \in {"0xC6", "0xC7"}
      BY <1>4, <2>2, <3>1, <3>4 DEF Encoded
    <3> QED
      BY <1>10, <3>2, <3>3, <3>4
  <2> QED
    BY <2>1, <2>2
<1> QED
  BY <1>4, <1>9, <1>10 DEF Encoded

-----------------------------------------------------------------------------
(* The other frames *)

LEMMA ReadFields ==
    ASSUME NEW x
    PROVE  Read(x).value = x /\ "value" \in DOMAIN Read(x) /\ "value" \notin DOMAIN Failed(x)
BY DEF Read, Failed

\* A frame of a later build: its kind is read as one unknown.
LEMMA ForeignIsRead ==
    ASSUME NEW kind \in {"known", "new"}, NEW magic \in {"0xC8", "0xCA"}, NEW dict, NEW v,
           NEW ready, NEW held, NEW resolved, NEW f, NEW got,
           f = Frame(magic, dict, Compact([id |-> "uuid", ts |-> "near", kind |-> kind,
                                           from |-> "sender"], v)),
           got = Decode(f, ready, held, resolved), "value" \in DOMAIN got
    PROVE  got.value.kind = IF f.body.kind = "new" THEN "chat-unknown-future" ELSE "known"
<1>1. PICK from : from = IF v = 3 THEN "index" ELSE "sender"
  OBVIOUS
<1>2. f.magic = magic /\ f.body = [id |-> "bytes", ts |-> "near", kind |-> kind, from |-> from]
  BY <1>1, FrameFields, CompactFields
<1>3. got = Read(Expanded(f.body, resolved))
  <2>1. got = Read(Expanded(f.body, resolved)) \/ \E code : got = Failed(code)
    BY <1>2 DEF Decode
  <2> QED
    BY <2>1, ReadFields
<1>4. Expanded(f.body, resolved).kind = IF kind = "new" THEN "chat-unknown-future" ELSE kind
  <2>1. PICK newFrom :
          newFrom = IF from = "index" THEN IF resolved THEN "sender" ELSE "missing" ELSE from
    OBVIOUS
  <2>2. Expanded(f.body, resolved) =
            [id |-> "uuid", ts |-> "near",
             kind |-> IF kind = "new" THEN "chat-unknown-future" ELSE kind, from |-> newFrom]
    BY <1>2, <2>1, ExpandedFields
  <2> QED
    BY <2>2
<1>5. got.value.kind = IF kind = "new" THEN "chat-unknown-future" ELSE kind
  BY <1>3, <1>4, ReadFields
<1> QED
  BY <1>2, <1>5

\* A body that is posted: its dictionary is one of this process, and the server
\* has them all.
LEMMA BodyIsRead ==
    ASSUME NEW held, held \subseteq Dicts, NEW hint
    PROVE  DecodeHttpBody(EncodeHttpBody(hint, held), TRUE, Dicts) = Read("json")
<1>1. PICK f : f = EncodeHttpBody(hint, held)
  OBVIOUS
<1>2. /\ f.magic \in {"0xC6", "0xC7"} /\ f.body = "json"
      /\ f.dict \in Dicts \/ f.dict = NoDict
  BY <1>1, FrameFields DEF EncodeHttpBody
<1>3. DecodeHttpBody(f, TRUE, Dicts) = Decode(f, TRUE, Dicts, FALSE)
  BY <1>2 DEF DecodeHttpBody
<1>4. Decode(f, TRUE, Dicts, FALSE) = Read("json")
  BY <1>2 DEF Decode
<1> QED
  BY <1>1, <1>3, <1>4

\* A bundle is read only whole, and what is signed is then what is read.
LEMMA BundleIsRead ==
    ASSUME NEW body \in Nat, NEW extra \in Int, NEW w,
           w.declared = body, w.length = MeshLength(body) + extra,
           "value" \in DOMAIN DecodeMeshBundle(w)
    PROVE  /\ extra = 0 /\ DecodeMeshBundle(w) = Read(body)
           /\ MeshBundleSignedRange(w) = Read(MeshHeader + body)
<1>1. PICK length, whole : /\ length = w.length /\ length = whole + extra
                           /\ whole = MeshLength(body) /\ whole = 61 + body + 64
  BY DEF MeshLength, MeshHeader, MeshSignature
<1>2. /\ length >= MeshLength(0) /\ body <= MeshBodyCap /\ length = MeshLength(body)
      /\ DecodeMeshBundle(w) = Read(body)
  <2>1. \/ \E code : DecodeMeshBundle(w) = Failed(code)
        \/ /\ ~(length < MeshLength(0)) /\ ~(body > MeshBodyCap) /\ length = MeshLength(body)
           /\ DecodeMeshBundle(w) = Read(body)
    BY <1>1 DEF DecodeMeshBundle
  <2>2. length \in Int /\ MeshLength(0) \in Int /\ MeshBodyCap \in Int
    BY <1>1 DEF MeshLength, MeshHeader, MeshSignature, MeshBodyCap
  <2> QED
    BY <2>1, <2>2, ReadFields
<1>3. extra = 0
  BY <1>1, <1>2
<1>4. MeshBundleSignedRange(w) = Read(MeshHeader + body)
  BY <1>1, <1>2 DEF MeshBundleSignedRange, MeshLength, MeshHeader, MeshSignature
<1> QED
  BY <1>2, <1>3, <1>4

-----------------------------------------------------------------------------
(* The invariant *)

FramesInv ==
    /\ dictCache \in [Dicts -> Int]
    /\ loaderGeneration \in Int
    /\ FramesAreReadAsSent

\* A step that reads no frame touches only the dictionaries.
LEMMA NothingRead ==
    ASSUME exchange' = NoExchange
    PROVE  NegotiatedIsReadable' /\ ForeignFramesAreSafe'
BY DEF NegotiatedIsReadable, ForeignFramesAreSafe, NoExchange

LEMMA EnvelopeReadAsSent ==
    ASSUME SendEnvelope
    PROVE  NegotiatedIsReadable' /\ ForeignFramesAreSafe'
<1>0. PICK p \in Peers, q \in Peers, e \in Envelopes, resolved \in BOOLEAN :
        LET f == Encode(e, Negotiated({p, q}), 7, Held)
        IN exchange' = [kind |-> "peer", sent |-> e, frame |-> f, reader |-> p,
                        got |-> ReadBy(p, f, resolved), resolved |-> resolved]
  BY DEF SendEnvelope
<1>1. PICK f :
        /\ f = Encode(e, Negotiated({p, q}), 7, Held)
        /\ exchange' = [kind |-> "peer", sent |-> e, frame |-> f, reader |-> p,
                        got |-> ReadBy(p, f, resolved), resolved |-> resolved]
  BY <1>0
<1>2. e \in EnvelopeTypes
  BY DEF Envelopes, EnvelopeTypes
<1>3. PICK got, held : got = ReadBy(p, f, resolved) /\ held = Held
  OBVIOUS
<1>4. /\ exchange'.kind = "peer" /\ exchange'.sent = e /\ exchange'.frame = f
      /\ exchange'.reader = p /\ exchange'.got = got /\ exchange'.resolved = resolved
  BY <1>1, <1>3
<1>5. ASSUME e.id # "lenient"
      PROVE  IF f.dict \in Dicts \ p.held
             THEN got = Failed("DICT_NOT_LOADED")
             ELSE got = Read(IF f.magic = "0xCA" /\ ~resolved
                             THEN [e EXCEPT !.from = "missing"] ELSE e)
  BY <1>1, <1>2, <1>3, <1>5, FrameIsRead
<1>6. NegotiatedIsReadable'
  BY <1>4, <1>5 DEF NegotiatedIsReadable
<1>7. ForeignFramesAreSafe'
  BY <1>4 DEF ForeignFramesAreSafe
<1> QED
  BY <1>6, <1>7

LEMMA ForeignReadSafely ==
    ASSUME ReceiveEnvelope
    PROVE  NegotiatedIsReadable' /\ ForeignFramesAreSafe'
<1>1. PICK magic \in {"0xC8", "0xCA"}, dict \in Dicts \cup {NoDict, "later"},
           kind \in {"known", "new"}, resolved \in BOOLEAN :
            LET f == Frame(magic, dict,
                           Compact([id |-> "uuid", ts |-> "near", kind |-> kind,
                                    from |-> "sender"], IF magic = "0xCA" THEN 3 ELSE 2))
            IN exchange' = [kind |-> "foreign", frame |-> f, resolved |-> resolved,
                            got |-> Decode(f, codecStage = "ready", Held, resolved)]
  BY DEF ReceiveEnvelope
<1>2. PICK v, f, got :
        /\ v = IF magic = "0xCA" THEN 3 ELSE 2
        /\ f = Frame(magic, dict, Compact([id |-> "uuid", ts |-> "near", kind |-> kind,
                                           from |-> "sender"], v))
        /\ got = Decode(f, codecStage = "ready", Held, resolved)
  OBVIOUS
<1>3. exchange'.kind = "foreign" /\ exchange'.frame = f /\ exchange'.got = got
  BY <1>1, <1>2
<1>4. "value" \in DOMAIN got =>
        got.value.kind = IF f.body.kind = "new" THEN "chat-unknown-future" ELSE "known"
  <2>1. PICK ready, held : got = Decode(f, ready, held, resolved)
    BY <1>2
  <2> QED
    BY <1>2, <2>1, ForeignIsRead
<1>5. ForeignFramesAreSafe'
  BY <1>3, <1>4 DEF ForeignFramesAreSafe
<1>6. NegotiatedIsReadable'
  BY <1>3 DEF NegotiatedIsReadable
<1> QED
  BY <1>5, <1>6

LEMMA BodyReadAsPosted ==
    ASSUME PostBody
    PROVE  NegotiatedIsReadable' /\ ForeignFramesAreSafe'
<1>1. PICK hint, held, f : /\ f = EncodeHttpBody(hint, held) /\ held = Held
                           /\ exchange' = [kind |-> "http", frame |-> f,
                                           got |-> DecodeHttpBody(f, TRUE, Dicts)]
  BY DEF PostBody
<1>2. held \subseteq Dicts
  BY <1>1 DEF Held
<1>3. exchange'.kind = "http" /\ exchange'.got = Read("json")
  BY <1>1, <1>2, BodyIsRead
<1> QED
  BY <1>3 DEF NegotiatedIsReadable, ForeignFramesAreSafe

LEMMA BundleReadWhole ==
    ASSUME RelayBundle
    PROVE  NegotiatedIsReadable' /\ ForeignFramesAreSafe'
<1> DEFINE Relayed(body, extra, w) ==
        IF w = Failed("MESH_BUNDLE_FIELD_INVALID") \/ w = Failed("MESH_BUNDLE_TOO_LARGE")
        THEN [kind |-> "mesh", body |-> body, extra |-> extra, got |-> w, signed |-> w]
        ELSE LET cut == [w.value EXCEPT !.length = @ + extra]
             IN [kind |-> "mesh", body |-> body, extra |-> extra,
                 got |-> DecodeMeshBundle(cut), signed |-> MeshBundleSignedRange(cut)]
<1>0. PICK body \in {0, 1, MeshBodyCap, MeshBodyCap + 1}, fit \in BOOLEAN, extra \in {-64, -1, 0, 1} :
        exchange' = Relayed(body, extra, EncodeMeshBundle(body, fit))
  BY DEF RelayBundle
<1>1. PICK w : w = EncodeMeshBundle(body, fit) /\ exchange' = Relayed(body, extra, w)
  BY <1>0
<1>2. body \in Nat /\ extra \in Int
  BY DEF MeshBodyCap
<1>3. CASE w \in {Failed("MESH_BUNDLE_FIELD_INVALID"), Failed("MESH_BUNDLE_TOO_LARGE")}
  <2>1. exchange'.kind = "mesh" /\ exchange'.got = w
    BY <1>1, <1>3
  <2>2. "value" \notin DOMAIN w
    BY <1>3, ReadFields
  <2> QED
    BY <2>1, <2>2 DEF NegotiatedIsReadable, ForeignFramesAreSafe
<1>4. CASE w \notin {Failed("MESH_BUNDLE_FIELD_INVALID"), Failed("MESH_BUNDLE_TOO_LARGE")}
  <2>1. w = Read([declared |-> body, length |-> MeshLength(body)])
    BY <1>1, <1>4 DEF EncodeMeshBundle
  <2>2. PICK length : length = MeshLength(body)
    OBVIOUS
  <2>3. w.value = [declared |-> body, length |-> length]
    BY <2>1, <2>2, ReadFields
  <2>4. PICK cut : cut = [w.value EXCEPT !.length = @ + extra]
    OBVIOUS
  <2>5. cut.declared = body /\ cut.length = length + extra
    BY <2>3, <2>4
  <2>6. PICK got, signed : got = DecodeMeshBundle(cut) /\ signed = MeshBundleSignedRange(cut)
    OBVIOUS
  <2>7. exchange' = [kind |-> "mesh", body |-> body, extra |-> extra,
                     got |-> got, signed |-> signed]
    BY <1>1, <1>4, <2>4, <2>6
  <2>8. "value" \in DOMAIN got => extra = 0 /\ got = Read(body) /\ signed = Read(MeshHeader + body)
    BY <1>2, <2>2, <2>5, <2>6, BundleIsRead
  <2>9. /\ exchange'.kind = "mesh" /\ exchange'.body = body /\ exchange'.extra = extra
        /\ exchange'.got = got /\ exchange'.signed = signed
    BY <2>7
  <2> QED
    BY <2>8, <2>9 DEF NegotiatedIsReadable, ForeignFramesAreSafe
<1> QED
  BY <1>3, <1>4

LEMMA WireInitInv == WireInit => FramesInv
BY WireAssumption DEF WireInit, FramesInv, FramesAreReadAsSent, NoStaleDictionary, NegotiatedIsReadable,
   ForeignFramesAreSafe, NoExchange, NoBytes

LEMMA WireNextInv == FramesInv /\ [WireNext]_wireVars => FramesInv'
<1> SUFFICES ASSUME FramesInv, [WireNext]_wireVars PROVE FramesInv'
  OBVIOUS
<1> USE DEF FramesInv, NoStaleDictionary, FramesAreReadAsSent
<1>1. CASE \E d \in Dicts : LoadDict(d)
  BY <1>1, NothingRead DEF LoadDict
<1>2. ASSUME NEW d \in Dicts, NEW g \in Generations, FetchSettles(d, g) PROVE FramesInv'
  <2>1. loaderGeneration' = loaderGeneration /\ g \in Int
    BY <1>2, WireAssumption DEF FetchSettles, Generations
  <2>2. NegotiatedIsReadable' /\ ForeignFramesAreSafe'
    BY <1>2, NothingRead DEF FetchSettles
  <2>3. CASE dictCache' = dictCache
    BY <2>1, <2>2, <2>3
  <2>4. CASE dictCache' = KeptFetch(d, g)
    BY <2>1, <2>2, <2>4 DEF KeptFetch
  <2> QED
    BY <1>2, <2>3, <2>4 DEF FetchSettles
<1>3. CASE SetDictLoader
  BY <1>3, NothingRead DEF SetDictLoader, NoBytes
<1>4. CASE EnsureWireCodecReady
  BY <1>4, NothingRead DEF EnsureWireCodecReady
<1>5. CASE ZstdInit
  BY <1>5, NothingRead DEF ZstdInit
<1>6. CASE PreloadDict
  BY <1>6, NothingRead DEF PreloadDict
<1>7. CASE CodecReady
  BY <1>7, NothingRead DEF CodecReady
<1>8. CASE SendEnvelope
  BY <1>8, EnvelopeReadAsSent DEF SendEnvelope
<1>9. CASE ReceiveEnvelope
  BY <1>9, ForeignReadSafely DEF ReceiveEnvelope
<1>10. CASE PostBody
  BY <1>10, BodyReadAsPosted DEF PostBody
<1>11. CASE RelayBundle
  BY <1>11, BundleReadWhole DEF RelayBundle
<1>12. CASE UNCHANGED wireVars
  BY <1>12 DEF wireVars, NegotiatedIsReadable, ForeignFramesAreSafe
<1> QED
  BY <1>1, <1>2, <1>3, <1>4, <1>5, <1>6, <1>7, <1>8, <1>9, <1>10, <1>11, <1>12 DEF WireNext

\* However loads, failures and loader swaps interleave, whatever the peers of a
\* room advertise and have loaded: a frame built for them is read as the
\* envelope that was sent, or refused for a dictionary its reader lacks; a later
\* build's frame, a request's body and a mesh bundle are read as what they are.
THEOREM FramesReadAsSent == WireSpec => []FramesAreReadAsSent
<1>1. FramesInv => FramesAreReadAsSent
  BY DEF FramesInv
<1> QED
  BY <1>1, WireInitInv, WireNextInv, PTL DEF WireSpec
=============================================================================
