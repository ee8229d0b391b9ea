--------------------------- MODULE MCClientStreams ---------------------------
(***************************************************************************)
(* How rows get from the server to their consumers, for TLC: one           *)
(* subscription's stream (Subscribe), the delivery through the shared      *)
(* chain of a room (DecryptDelivery), and the chain under callers that do  *)
(* anything at all (RoomDecryptChain).  A behaviour is one of the three;   *)
(* `part' names it, and the others keep their initial state.               *)
(***************************************************************************)
EXTENDS DecryptDelivery, Subscribe

CONSTANTS
    s1, s2,
    ChainTasks,         \* tasks of arbitrary callers,
    MaxCalls            \* and their calls per entry that count as a generation

VARIABLE part

mcVars == <<part, vars, streamVars>>

\* Two rows for s1; s2 shares the room and is sent nothing.
MCBound == [c \in Consumers |-> CASE c = s1 -> 2 [] c = s2 -> 0 [] OTHER -> 1]

PageTasks == {<<c, 1>> : c \in Fetches} \cup {<<s1, 1>>}

In(name) == part = name

MCInit ==
    /\ part \in {"chain", "delivery", "stream"}
    /\ Init
    /\ StreamInit /\ (part # "stream" => mode = "direct")

\* Any caller acquires, appends and releases, as often as the bounds allow.
ChainPart ==
    /\ In("chain")
    /\ ChainNext
    /\ \A e \in Entries :
         /\ generation'[e] <= MaxCalls
         /\ \A i \in DOMAIN queue'[e] : queue'[e][i] \in ChainTasks
    /\ UNCHANGED <<part, clientVars, streamVars>>

DeliveryPart == In("delivery") /\ Next /\ UNCHANGED <<part, streamVars>>

StreamPart == In("stream") /\ StreamNext /\ UNCHANGED <<part, vars>>

MCNext == ChainPart \/ DeliveryPart \/ StreamPart

\* The fairness of each part, in its own behaviours: of ChainFairness,
MCChainFairness ==
    /\ \A e \in Entries :
         /\ WF_chainVars(In("chain") /\ StartTask(e))
         /\ WF_chainVars(In("chain") /\ SettleTask(e))
    /\ WF_chainVars(In("chain") /\ Reaction)

\* of Fairness,
MCDeliveryFairness ==
    /\ \A e \in Entries :
         /\ WF_vars(In("delivery") /\ TaskBegins(e))
         /\ WF_vars(In("delivery") /\ SignalAbort(e))
         /\ WF_vars(In("delivery") /\ SkipCancelled(e))
         /\ WF_vars(In("delivery") /\ ForceDrain(e))
    /\ \A f \in Fetches :
         /\ WF_vars(In("delivery") /\ FetchAppend(f))
         /\ WF_vars(In("delivery") /\ FetchReturns(f))
    /\ WF_vars(In("delivery") /\ RemovalRuns)

\* and of StreamFairness.
MCStreamFairness ==
    /\ WF_streamVars(In("stream") /\ \E t \in timers : TimerFires(t))
    /\ WF_streamVars(In("stream") /\ \E c \in cycles : ReplayPage(c))
    /\ WF_streamVars(In("stream") /\ \E c \in cycles : TicketGranted(c))
    /\ WF_streamVars(In("stream") /\ Prelude)
    /\ WF_streamVars(In("stream") /\ Message)
    /\ WF_streamVars(In("stream") /\ WatchdogFires)

MCSpec ==
    /\ MCInit
    /\ [][MCNext]_mcVars
    /\ MCChainFairness
    /\ MCDeliveryFairness
    /\ MCStreamFairness
=============================================================================
