--------------------------- MODULE SerialUnseal ---------------------------
(***************************************************************************)
(* What RoomDecryptChain promises its callers, with no chain entries, no   *)
(* promises and no deferred deletes: every room owns ONE first-in          *)
(* first-out executor that runs at most one unseal task at a time, accepts *)
(* tasks only while the room has a live subscriber, and runs to completion *)
(* whatever it accepted, across teardown and resubscription.               *)
(***************************************************************************)
EXTENDS Naturals, Sequences

CONSTANTS Rooms, Tasks

VARIABLES
    users,    \* [Rooms -> Nat]: live subscribers of the room
    pending,  \* [Rooms -> Seq(Tasks)]: accepted tasks that have not settled
    busy      \* [Rooms -> BOOLEAN]: the head of pending[r] is being unsealed

vars == <<users, pending, busy>>

Init ==
    /\ users = [r \in Rooms |-> 0]
    /\ pending = [r \in Rooms |-> <<>>]
    /\ busy = [r \in Rooms |-> FALSE]

Join(r) ==
    /\ users' = [users EXCEPT ![r] = @ + 1]
    /\ UNCHANGED <<pending, busy>>

Leave(r) ==
    /\ users[r] > 0
    /\ users' = [users EXCEPT ![r] = @ - 1]
    /\ UNCHANGED <<pending, busy>>

Submit(r, t) ==
    /\ users[r] > 0
    /\ pending' = [pending EXCEPT ![r] = Append(@, t)]
    /\ UNCHANGED <<users, busy>>

Start(r) ==
    /\ pending[r] # <<>>
    /\ ~busy[r]
    /\ busy' = [busy EXCEPT ![r] = TRUE]
    /\ UNCHANGED <<users, pending>>

Finish(r) ==
    /\ busy[r]
    /\ busy' = [busy EXCEPT ![r] = FALSE]
    /\ pending' = [pending EXCEPT ![r] = Tail(@)]
    /\ UNCHANGED users

RoomStep(r) ==
    \/ Join(r)
    \/ Leave(r)
    \/ \E t \in Tasks : Submit(r, t)
    \/ Start(r)
    \/ Finish(r)

Next == \E r \in Rooms : RoomStep(r)

Safety == Init /\ [][Next]_vars

Spec == Safety /\ \A r \in Rooms : WF_vars(Start(r)) /\ WF_vars(Finish(r))
=============================================================================
