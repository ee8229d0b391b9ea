-------------------------- MODULE PushRegistration --------------------------
(***************************************************************************)
(* packages/chat-sdk/src/push.ts: a page's web push subscription, which is *)
(* kept twice, by the browser and by the server.  subscribe() creates or   *)
(* takes the browser's and posts it; unsubscribe() has the server forget   *)
(* it and then removes it, whatever the server said.  Calls may overlap,   *)
(* the browser may replace or drop the subscription at any time.           *)
(***************************************************************************)
EXTENDS Naturals

CONSTANTS
    PushCalls,      \* calls of subscribe() and unsubscribe(), each made once
    MaxEndpoint,    \* bound on the endpoints the browser creates
    NoEndpoint      \* no subscription

ASSUME EndpointAssumption == MaxEndpoint \in Nat \ {0} /\ NoEndpoint \notin Nat

Endpoints == 1..MaxEndpoint

VARIABLES
    permission, \* Notification.permission
    vapid,      \* vapidCache is filled
    browser,    \* the PushManager's subscription
    created,    \* endpoints created so far
    devices,    \* endpoints the server would deliver to
    pushCall    \* [PushCalls -> [stage, held, fault]]

pushVars == <<permission, vapid, browser, created, devices, pushCall>>

\* `held' is the subscription a call has in hand, `fault' a server error that
\* unsubscribe() keeps for its end.
PushStage ==
    {"idle", "keying", "finding", "creating", "posting",        \* subscribe()
     "reading", "deleting", "removing",                         \* unsubscribe()
     "subscribed", "unsubscribed", "refused", "failed"}

PushTypeOK ==
    /\ permission \in {"default", "granted", "denied"}
    /\ vapid \in BOOLEAN
    /\ browser \in Endpoints \cup {NoEndpoint}
    /\ created \in 0..MaxEndpoint
    /\ devices \subseteq Endpoints
    /\ pushCall \in [PushCalls -> [stage : PushStage, held : Endpoints \cup {NoEndpoint},
                                   fault : BOOLEAN]]

PushInit ==
    /\ permission \in {"default", "granted", "denied"}
    /\ vapid = FALSE
    /\ browser \in {NoEndpoint, 1}
    /\ created = IF browser = NoEndpoint THEN 0 ELSE 1
    /\ devices \in {{}, {1} \cap {browser}}
    /\ pushCall = [c \in PushCalls |->
                    [stage |-> "idle", held |-> NoEndpoint, fault |-> FALSE]]

Reaches(c, stage) == pushCall' = [pushCall EXCEPT ![c].stage = stage]
Holds(c, stage, e) == pushCall' = [pushCall EXCEPT ![c].stage = stage, ![c].held = e]

-----------------------------------------------------------------------------
(* subscribe() *)

\* Permission first, then the VAPID key, from the cache if it is there.
Subscribe(c) ==
    /\ pushCall[c].stage = "idle"
    /\ IF permission = "granted"
       THEN Reaches(c, IF vapid THEN "finding" ELSE "keying")
       ELSE Reaches(c, "failed")
    /\ UNCHANGED <<permission, vapid, browser, created, devices>>

\* getVapidPublicKey(): a failure leaves the cache empty.
KeyArrives(c) ==
    /\ pushCall[c].stage = "keying"
    /\ vapid' = TRUE
    /\ Reaches(c, "finding")
    /\ UNCHANGED <<permission, browser, created, devices>>

\* getSubscription(): one that exists is reused.
Found(c) ==
    /\ pushCall[c].stage = "finding"
    /\ IF browser # NoEndpoint THEN Holds(c, "posting", browser) ELSE Reaches(c, "creating")
    /\ UNCHANGED <<permission, vapid, browser, created, devices>>

\* pushManager.subscribe(), which gives every caller the same subscription, and
\* fails when the permission has been withdrawn meanwhile.
Created(c) ==
    /\ pushCall[c].stage = "creating"
    /\ permission = "granted"
    /\ IF browser # NoEndpoint
       THEN Holds(c, "posting", browser) /\ UNCHANGED <<browser, created>>
       ELSE /\ created < MaxEndpoint
            /\ created' = created + 1
            /\ browser' = created + 1
            /\ Holds(c, "posting", created + 1)
    /\ UNCHANGED <<permission, vapid, devices>>

\* The server registers the endpoint; its answer may be lost, or name no device.
Registered(c) ==
    /\ pushCall[c].stage = "posting"
    /\ devices' = devices \cup {pushCall[c].held}
    /\ \/ Reaches(c, "subscribed")
       \/ Reaches(c, "failed")
    /\ UNCHANGED <<permission, vapid, browser, created>>

\* Any request or browser call of subscribe() fails.
SubscribeFails(c) ==
    /\ pushCall[c].stage \in {"keying", "finding", "creating", "posting"}
    /\ Reaches(c, "failed")
    /\ UNCHANGED <<permission, vapid, browser, created, devices>>

-----------------------------------------------------------------------------
(* unsubscribe() *)

Unsubscribe(c) ==
    /\ pushCall[c].stage = "idle"
    /\ Reaches(c, "reading")
    /\ UNCHANGED <<permission, vapid, browser, created, devices>>

ReadSubscription(c) ==
    /\ pushCall[c].stage = "reading"
    /\ IF browser = NoEndpoint THEN Reaches(c, "unsubscribed") ELSE Holds(c, "deleting", browser)
    /\ UNCHANGED <<permission, vapid, browser, created, devices>>

\* Mutant of DeleteSettles: an error of the server ends the call at once.
DeleteThrows(c) ==
    /\ pushCall[c].stage = "deleting"
    /\ \E forgot, fault \in BOOLEAN :
        /\ ~fault => forgot
        /\ devices' = IF forgot THEN devices \ {pushCall[c].held} ELSE devices
        /\ pushCall' = [pushCall EXCEPT ![c].stage = IF fault THEN "failed" ELSE "removing",
                                        ![c].fault = fault]
    /\ UNCHANGED <<permission, vapid, browser, created>>

\* The DELETE is answered, refused, or lost before or after it took effect: an
\* error is kept, and the browser's subscription goes all the same.
DeleteSettles(c) ==
    /\ pushCall[c].stage = "deleting"
    /\ \E forgot, fault \in BOOLEAN :
        /\ ~fault => forgot
        /\ devices' = IF forgot THEN devices \ {pushCall[c].held} ELSE devices
        /\ pushCall' = [pushCall EXCEPT ![c].stage = "removing", ![c].fault = fault]
    /\ UNCHANGED <<permission, vapid, browser, created>>

\* sub.unsubscribe(), on the subscription in hand; then the kept error.
Removed(c) ==
    /\ pushCall[c].stage = "removing"
    /\ browser' = IF browser = pushCall[c].held THEN NoEndpoint ELSE browser
    /\ Reaches(c, IF pushCall[c].fault THEN "failed" ELSE "unsubscribed")
    /\ UNCHANGED <<permission, vapid, created, devices>>

\* The browser says no: that error goes before the kept one.
RemovalRefused(c) ==
    /\ pushCall[c].stage = "removing"
    /\ Reaches(c, "refused")
    /\ UNCHANGED <<permission, vapid, browser, created, devices>>

-----------------------------------------------------------------------------
(* The browser and its user (external) *)

PermissionChanges ==
    /\ \E p \in {"default", "granted", "denied"} \ {permission} :
        /\ permission' = p
        /\ browser' = IF p = "granted" THEN browser ELSE NoEndpoint
    /\ UNCHANGED <<vapid, created, devices, pushCall>>

\* pushsubscriptionchange: another endpoint in the place of the old one.  The
\* listener only tells the host, which may call subscribe() again.
BrowserRotates ==
    /\ browser # NoEndpoint
    /\ created < MaxEndpoint
    /\ created' = created + 1
    /\ browser' = created + 1
    /\ UNCHANGED <<permission, vapid, devices, pushCall>>

PushNext ==
    \/ \E c \in PushCalls :
        \/ Subscribe(c)
        \/ KeyArrives(c)
        \/ Found(c)
        \/ Created(c)
        \/ Registered(c)
        \/ SubscribeFails(c)
        \/ Unsubscribe(c)
        \/ ReadSubscription(c)
        \/ DeleteSettles(c)
        \/ Removed(c)
        \/ RemovalRefused(c)
    \/ PermissionChanges
    \/ BrowserRotates

\* unsubscribe() leaves no subscription behind: when it is over, whether it
\* succeeded or the server failed it, the browser no longer has the one it
\* read, even beside other calls; and unless another call held the same one, a
\* success leaves the server without it as well.
NoLeakedSubscription ==
    \A c \in PushCalls :
        pushCall[c].held # NoEndpoint =>
            /\ pushCall[c].stage = "unsubscribed" => browser # pushCall[c].held
            /\ pushCall[c].stage = "failed" /\ pushCall[c].fault => browser # pushCall[c].held
            /\ pushCall[c].stage = "unsubscribed"
                    /\ (\A d \in PushCalls \ {c} : pushCall[d].held # pushCall[c].held)
                => pushCall[c].held \notin devices
=============================================================================
