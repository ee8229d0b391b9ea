-------------------------- MODULE MlsGroupsProofs --------------------------
(***************************************************************************)
(* Proofs about MlsGroups, for any number of rooms, calls, KeyPackages,    *)
(* commits, reloads and faults, in an application that awaits its first    *)
(* getMlsManager() (the other kind is the run mls_before_restore's).       *)
(***************************************************************************)
EXTENDS MlsGroups, SharedLemmas

(* The invariant *)

\* Which call is where, and what it has by then.
CallShape(o) ==
    /\ Active(o) => op[o].room \in Rooms /\ op[o].kind \in CallKinds
    /\ op[o].pc \in {"fetch", "welcome"} => op[o].kind \in {"create", "add"}
    /\ op[o].pc \in {"commit", "send"} => op[o].kind \in {"create", "add", "remove"}
    /\ op[o].pc = "mls" => op[o].kind \in {"create", "welcome", "message"}
    /\ op[o].pc \in {"fetch", "commit", "welcome", "send", "apply", "persist"} => op[o].st \in State
    /\ AtAny(o, {"create", "message"}, "mls") => op[o].st \in State
    /\ op[o].pc \in {"idle", "load", "done"} \/ At(o, "welcome", "mls") => op[o].st = None
    /\ AtAny(o, {"create", "welcome"}, "mls") => op[o].kp \in Packages
    /\ op[o].kind = "welcome" => op[o].arg \in welcomes
    /\ op[o].kind = "message" => op[o].arg \in [gid : Groups, n : Nat \ {0}]
                                 /\ op[o].arg.n <= Len(log[op[o].arg.gid])
    /\ op[o].kind = "create" /\ op[o].pc \in {"mls", "fetch", "commit", "welcome", "send"} =>
            op[o].st.gid = o

Shapes == \A o \in Ops : CallShape(o)

\* No call and no save before restoreAll() is through; what it has loaded it
\* seals with, but for the room it is at.
RestoreComesFirst ==
    /\ init \in {"none", "listing", "restoring"} =>
        /\ \A o \in Ops : ~Active(o)
        /\ tx = <<>> /\ dirty = {} /\ overlapped = {} /\ disposal.pc = "none"
    /\ init \in {"none", "listing"} => \A r \in Rooms : mem[r] = None /\ bound[r] = None
    /\ init = "restoring" => \A r \in Rooms :
        /\ r \in toRestore => mem[r] = None /\ bound[r] = None
        /\ mem[r] # None => aead[r] = mem[r] \/ restoring = [room |-> r, st |-> mem[r]]
    /\ restoring # None => init = "restoring" /\ mem[restoring.room] = restoring.st

\* The call's room has the state and the group it works with.
CallBound(o) ==
    /\ op[o].pc = "apply" => bound[op[o].room] # None /\ mem[op[o].room] # None
    /\ op[o].kind \in Writers \cup {"message"} /\ op[o].pc \in {"mls", "fetch", "commit", "welcome", "send"} =>
            mem[op[o].room] # None
    /\ op[o].kind = "create" /\ op[o].pc \in {"mls", "fetch", "commit", "welcome", "send"} =>
            bound[op[o].room] # None

Bindings == ~Disposed =>
    /\ \A r \in Rooms : mem[r] # None => bound[r] # None
    /\ \A o \in Ops : CallBound(o)

\* A save under way is that of a call that waits for it, or dispose()'s.
Queue ==
    /\ \A i \in DOMAIN tx :
        /\ tx[i].by \in Ops => op[tx[i].by].pc = "persist" /\ op[tx[i].by].room = tx[i].room
        /\ tx[i].by = Disposer => disposal.pc = "saving"
    /\ \A i, j \in DOMAIN tx : tx[i].by = tx[j].by => i = j
    /\ useFallback => tx = <<>>
    /\ ~useFallback => \A r \in Rooms : fallback[r] = None

OwnSaves(r) == {i \in DOMAIN tx : tx[i].room = r /\ tx[i].by # Disposer}

\* The calls' saves under way leave the room with this state.
EndsWith(r, st) ==
    \/ OwnSaves(r) = {} /\ LastSaved(r) = st
    \/ \E i \in OwnSaves(r) : tx[i].st = st /\ \A j \in OwnSaves(r) : j <= i

\* A call is about to save whatever the room's state is.
ToBeSaved(r) == \E o \in Ops : op[o].pc = "apply" /\ op[o].room = r

\* A commit was written that is not sent, or whose call failed.
Unsent(o, r) == op[o].kind \in Writers /\ op[o].pc \in {"welcome", "send"} /\ op[o].room = r
Unsure(r) == r \in dirty \/ \E o \in Ops : Unsent(o, r)

\* No save under way would take the room for saved and be overtaken by another.
NoFalseSave(r) ==
    \A i \in DOMAIN tx : tx[i].room = r /\ tx[i].st = mem[r] =>
        tx[i].by = Disposer /\ \A j \in OwnSaves(r) : j < i

SavedLater(r) == ToBeSaved(r) \/ (Unsure(r) /\ NoFalseSave(r))

\* The room's state is saved, or is on its way.
RoomIsSaved(r) == mem[r] # None => EndsWith(r, mem[r]) \/ SavedLater(r)

SaveIsOnItsWay == ~Disposed => \A r \in Rooms : RoomIsSaved(r)

\* dispose() saves the room's state, unless a call will do so later.
SweepIsGood(i) == tx[i].by = Disposer =>
    \/ tx[i].st = mem[tx[i].room]
    \/ SavedLater(tx[i].room)
    \/ \E j \in OwnSaves(tx[i].room) : j > i

DisposerSaves == ~Disposed => \A i \in DOMAIN tx : SweepIsGood(i)

\* A commit is in no history before its call has made it.
Mentions(hist, o) == \E k \in DOMAIN hist : hist[k] = o
Uncommitted(o) == op[o].pc = "idle" \/ (op[o].kind \in Writers /\ op[o].pc \in {"load", "fetch", "commit"})
In(st, o) == st # None /\ Mentions(st.hist, o)

Nowhere(o) ==
    /\ \A r \in Rooms : ~In(mem[r], o) /\ ~In(idb[r], o) /\ ~In(fallback[r], o)
    /\ \A i \in DOMAIN tx : ~In(tx[i].st, o)
    /\ \A p \in Ops : ~In(op[p].st, o)
    /\ \A g \in Groups : ~Mentions(log[g], o)
    /\ \A w \in welcomes : ~Mentions(w.hist, o)

CommitsAreNew == \A o \in Ops : Uncommitted(o) => Nowhere(o)

\* In a room whose calls do not overlap a call works on the room's state.
OneAtATime ==
    \A r \in Rooms : r \notin overlapped => \A o, p \in ActiveIn(r) : o = p

Alone(o) == Active(o) /\ op[o].room \notin overlapped

HoldsState(o) ==
    LET held == mem[op[o].room] IN
    /\ op[o].kind # "create" /\ op[o].st # None /\ op[o].pc # "persist" => held \in {op[o].st, None}
    /\ ~Disposed /\ (op[o].pc = "apply" \/ Unsent(o, op[o].room)) => held = op[o].st
    /\ op[o].kind = "create" /\ op[o].pc \notin {"apply", "persist"} => held = None

WorksOnTheState == \A o \in Ops : Alone(o) => HoldsState(o)

\* What is about to be sealed in the room's epoch.
SealsNext(o, r) == op[o].room = r /\ ((op[o].pc = "apply" /\ op[o].st = mem[r]) \/ Unsent(o, r))

SealsSoon(r) ==
    r \notin overlapped /\ mem[r] # None => aead[r] = mem[r] \/ r \in dirty \/ \E o \in Ops : SealsNext(o, r)

HasSealed(o) == Alone(o) /\ op[o].pc = "persist" => aead[op[o].room] = mem[op[o].room]

SealingFollows ==
    init = "ready" /\ disposal.pc = "none" =>
        (\A r \in Rooms : SealsSoon(r)) /\ \A o \in Ops : HasSealed(o)

\* A KeyPackage opens one Welcome, once.
HasGroup(g) ==
    \/ \E r \in Rooms : \E st \in {mem[r], idb[r], fallback[r]} : st # None /\ st.gid = g
    \/ \E i \in DOMAIN tx : tx[i].st.gid = g
    \/ \E o \in Ops : op[o].st # None /\ op[o].st.gid = g
Spent(k) == package[k] \in {"held", "lost"} /\ \A i \in DOMAIN pending : pending[i] # k

PendingIsHeld ==
    /\ \A i, j \in DOMAIN pending : pending[i] = pending[j] => i = j
    /\ \A i \in DOMAIN pending : package[pending[i]] = "held"

WelcomesOpenOnce ==
    /\ \A w \in welcomes : w.gid \in PeerGroups /\ (HasGroup(w.gid) => Spent(w.kp))
    /\ \A g \in PeerGroups : HasGroup(g) => \E w \in welcomes : w.gid = g
    /\ \A v, w \in welcomes : v.gid = w.gid => v = w

\* A call has the KeyPackage at the head of the queue, or one that was.
Loose(k) == package[k] \in {"held", "lost"} /\ \A i \in DOMAIN pending : pending[i] = k => i = 1
PackageInHand(o) == AtAny(o, {"create", "welcome"}, "mls") => Loose(op[o].kp)

NotJoined(o) ==
    Alone(o) /\ At(o, "welcome", "mls") /\ Joinable(o) =>
        mem[op[o].room] = None \/ mem[op[o].room].gid # op[o].arg.gid

PackagesAreUsedOnce ==
    /\ PendingIsHeld /\ WelcomesOpenOnce
    /\ \A o \in Ops : PackageInHand(o) /\ NotJoined(o)

MlsInv ==
    /\ TypeOK /\ Shapes /\ RestoreComesFirst /\ Bindings /\ Queue
    /\ SaveIsOnItsWay /\ DisposerSaves /\ CommitsAreNew
    /\ OneAtATime /\ WorksOnTheState /\ SealingFollows
    /\ PackagesAreUsedOnce

-----------------------------------------------------------------------------
(* What a step does to the calls *)

LEMMA Names ==
    /\ Peer \notin Ops /\ Disposer \notin Ops /\ PeerGroups \cap Ops = {}
    /\ None \notin Groups /\ None \notin Rooms /\ None \notin Packages /\ None \notin State
    /\ None \notin Loaded
    /\ MaxMembers \in Nat /\ MaxEpoch \in Nat /\ MaxActive \in Nat /\ MaxReloads \in Nat
    /\ MaxFaults \in Nat
  BY NamesAssumption

LEMMA CallFields ==
    ASSUME TypeOK, NEW o \in Ops
    PROVE  /\ op \in [Ops -> Calls] /\ op[o] \in Calls
           /\ op[o].kind \in {"none", "create", "welcome", "message", "add", "remove"}
           /\ op[o].room \in Rooms \cup {None}
           /\ op[o].arg \in {None} \cup Welcome \cup [gid : Groups, n : Nat]
           /\ op[o].pc \in Stages /\ op[o].st \in State \cup {None}
           /\ op[o].kp \in Packages \cup {None} /\ op[o].left \in Nat
<1>1. op \in [Ops -> Calls]
  BY DEF TypeOK
<1>2. op[o] \in Calls
  BY <1>1
<1> QED
  BY <1>1, <1>2 DEF Calls, CallKinds

OthersStay(o) == \A p \in Ops : p # o => op'[p] = op[p]

\* The call goes on; only the fields named may change.
GoesOn(o, pc, st) ==
    /\ op' \in [Ops -> Calls] /\ OthersStay(o)
    /\ op'[o].kind = op[o].kind /\ op'[o].room = op[o].room /\ op'[o].arg = op[o].arg
    /\ op'[o].kp = op[o].kp
    /\ op'[o].pc = pc /\ op'[o].st = st

LEMMA GotoGoesOn ==
    ASSUME TypeOK, NEW o \in Ops, NEW pc \in Stages, Goto(o, pc)
    PROVE  GoesOn(o, pc, op[o].st) /\ op'[o].left = op[o].left
<1>1. op \in [Ops -> Calls] /\ op[o] \in Calls
  BY CallFields
<1> DEFINE e == [op[o] EXCEPT !.pc = pc]
<1>2. op' = [op EXCEPT ![o] = e]
  BY DEF Goto
<1>3. /\ e \in Calls /\ e.kind = op[o].kind /\ e.room = op[o].room /\ e.arg = op[o].arg
      /\ e.kp = op[o].kp /\ e.pc = pc /\ e.st = op[o].st /\ e.left = op[o].left
  BY <1>1 DEF Calls
<1> HIDE DEF e
<1> QED
  BY <1>1, <1>2, <1>3 DEF GoesOn, OthersStay

LEMMA GotoWithGoesOn ==
    ASSUME TypeOK, NEW o \in Ops, NEW pc \in Stages, NEW st \in State, GotoWith(o, pc, st)
    PROVE  GoesOn(o, pc, st) /\ op'[o].left = op[o].left
<1>1. op \in [Ops -> Calls] /\ op[o] \in Calls
  BY CallFields
<1> DEFINE e == [op[o] EXCEPT !.pc = pc, !.st = st]
<1>2. op' = [op EXCEPT ![o] = e]
  BY <1>1 DEF GotoWith
<1>3. /\ e \in Calls /\ e.kind = op[o].kind /\ e.room = op[o].room /\ e.arg = op[o].arg
      /\ e.kp = op[o].kp /\ e.pc = pc /\ e.st = st /\ e.left = op[o].left
  BY <1>1 DEF Calls
<1> HIDE DEF e
<1> QED
  BY <1>1, <1>2, <1>3 DEF GoesOn, OthersStay

\* The call has returned.
IsOver(o) ==
    /\ op' \in [Ops -> Calls] /\ OthersStay(o)
    /\ op'[o].kind = "none" /\ op'[o].room = None /\ op'[o].arg = None /\ op'[o].kp = None
    /\ op'[o].pc = "done" /\ op'[o].st = None

DoneCall == [Idle EXCEPT !.pc = "done"]

LEMMA DoneCallFields ==
    /\ DoneCall \in Calls /\ DoneCall.kind = "none" /\ DoneCall.room = None
    /\ DoneCall.arg = None /\ DoneCall.kp = None /\ DoneCall.pc = "done" /\ DoneCall.st = None
  BY DEF DoneCall, Idle, Calls, Stages

LEMMA ReturnsIsOver ==
    ASSUME TypeOK, NEW o \in Ops, Returns(o)
    PROVE  IsOver(o)
<1>1. op \in [Ops -> Calls]
  BY CallFields
<1>2. op' = [op EXCEPT ![o] = DoneCall]
  BY DEF Returns, DoneCall
<1> QED
  BY <1>1, <1>2, DoneCallFields DEF IsOver, OthersStay

\* Every call that runs has returned or is gone.
LEMMA AllAreOver ==
    ASSUME TypeOK, NEW Gone, op' = [o \in Ops |-> IF o \in Gone THEN DoneCall ELSE op[o]]
    PROVE  /\ op' \in [Ops -> Calls]
           /\ \A o \in Ops : o \notin Gone => op'[o] = op[o]
           /\ \A o \in Ops : o \in Gone => op'[o] = DoneCall
<1>1. op \in [Ops -> Calls] /\ DoneCall \in Calls
  BY DoneCallFields DEF TypeOK
<1> QED
  BY <1>1

-----------------------------------------------------------------------------
(* Types *)

LogGrows == \A g \in Groups : Len(log[g]) <= Len(log'[g])

LEMMA ShapeStays ==
    ASSUME TypeOK, TypeOK', NEW p \in Ops, CallShape(p), op'[p] = op[p], welcomes \subseteq welcomes',
           LogGrows
    PROVE  CallShape(p)'
<1>1. op[p].kind = "message" => op[p].arg.n <= Len(log'[op[p].arg.gid])
  <2> SUFFICES ASSUME op[p].kind = "message" PROVE op[p].arg.n <= Len(log'[op[p].arg.gid])
    OBVIOUS
  <2>1. /\ op[p].arg.gid \in Groups /\ op[p].arg.n \in Nat
        /\ op[p].arg.n <= Len(log[op[p].arg.gid])
    BY DEF CallShape
  <2>2. Len(log[op[p].arg.gid]) <= Len(log'[op[p].arg.gid])
    BY <2>1 DEF LogGrows
  <2>3. log[op[p].arg.gid] \in Seq(Ops \cup {Peer}) /\ log'[op[p].arg.gid] \in Seq(Ops \cup {Peer})
    BY <2>1 DEF TypeOK
  <2>4. Len(log[op[p].arg.gid]) \in Nat /\ Len(log'[op[p].arg.gid]) \in Nat
    BY <2>3
  <2> DEFINE n == op[p].arg.n
             before == Len(log[op[p].arg.gid])
             after == Len(log'[op[p].arg.gid])
  <2>5. n \in Nat /\ before \in Nat /\ after \in Nat /\ n <= before /\ before <= after
    BY <2>1, <2>2, <2>4
  <2> HIDE DEF n, before, after
  <2>6. n <= after
    BY <2>5
  <2> QED
    BY <2>6 DEF n, after
<1> QED
  BY <1>1 DEF CallShape, Active, AtAny, At

\* A call that is over fits as well.
LEMMA OverShape ==
    ASSUME NEW p \in Ops, op'[p].kind = "none", op'[p].pc = "done", op'[p].st = None
    PROVE  CallShape(p)'
  BY DEF CallShape, Active, AtAny, At

LEMMA AllShapes ==
    ASSUME TypeOK, TypeOK', Shapes, NEW o \in Ops, OthersStay(o), CallShape(o)',
           welcomes \subseteq welcomes', LogGrows
    PROVE  Shapes'
<1> SUFFICES ASSUME NEW p \in Ops PROVE CallShape(p)'
  BY DEF Shapes
<1>1. CASE p = o
  BY <1>1
<1>2. CASE p # o
  BY <1>2, ShapeStays DEF OthersStay, Shapes
<1> QED
  BY <1>1, <1>2

LEMMA LogStays ==
    ASSUME TypeOK, log' = log
    PROVE  LogGrows
<1>1. \A g \in Groups : Len(log[g]) \in Nat
  BY DEF TypeOK
<1> QED
  BY <1>1 DEF LogGrows

\* TypeOK, variable by variable.
Typed ==
    /\ op \in [Ops -> Calls]
    /\ init \in {"none", "listing", "restoring", "ready", "broken"}
    /\ toRestore \subseteq Rooms /\ restoring \in Loaded \cup {None}
    /\ mem \in [Rooms -> State \cup {None}] /\ aead \in [Rooms -> State \cup {None}]
    /\ idb \in [Rooms -> State \cup {None}] /\ fallback \in [Rooms -> State \cup {None}]
    /\ bound \in [Rooms -> Groups \cup {None}]
    /\ pending \in Seq(Packages)
    /\ package \in [Packages -> {"new", "posted", "held", "lost"}]
    /\ disposal \in [pc : {"none", "sweeping", "saving", "failed", "done"}, seen : SUBSET Rooms]
    /\ tx \in Seq([by : Ops \cup {Disposer}, room : Rooms, st : State])
    /\ useFallback \in BOOLEAN /\ idbUp \in BOOLEAN
    /\ log \in [Groups -> Seq(Ops \cup {Peer})]
    /\ directory \subseteq Packages /\ welcomes \subseteq Welcome
    /\ dirty \subseteq Rooms /\ overlapped \subseteq Rooms
    /\ reloads \in 0..MaxReloads /\ faults \in 0..MaxFaults

LEMMA TypedIs == TypeOK <=> Typed
<1>1. {mem, aead, idb, fallback} \subseteq [Rooms -> State \cup {None}] <=>
        /\ mem \in [Rooms -> State \cup {None}] /\ aead \in [Rooms -> State \cup {None}]
        /\ idb \in [Rooms -> State \cup {None}] /\ fallback \in [Rooms -> State \cup {None}]
  OBVIOUS
<1>2. {useFallback, idbUp} \subseteq BOOLEAN <=> useFallback \in BOOLEAN /\ idbUp \in BOOLEAN
  OBVIOUS
<1>3. dirty \cup overlapped \subseteq Rooms <=> dirty \subseteq Rooms /\ overlapped \subseteq Rooms
  OBVIOUS
<1> QED
  BY <1>1, <1>2, <1>3, Zenon DEF TypeOK, Typed

LEMMA TypedNext == TypeOK' <=> Typed'
  BY TypedIs, PTL

\* The calls keep their types in a step of one of them.
LEMMA CallsTyped ==
    ASSUME NEW o \in Ops, GoesOn(o, op'[o].pc, op'[o].st) \/ IsOver(o)
    PROVE  op' \in [Ops -> Calls] /\ OthersStay(o)
  BY DEF GoesOn, IsOver

\* A commit added to a state.
LEMMA OneMore ==
    ASSUME NEW st \in State, NEW a \in Ops \cup {Peer}
    PROVE  /\ [st EXCEPT !.hist = Append(@, a)] \in State
           /\ [st EXCEPT !.hist = Append(@, a)].gid = st.gid
           /\ [st EXCEPT !.hist = Append(@, a)].hist = Append(st.hist, a)
<1>1. st.hist \in Seq(Ops \cup {Peer}) /\ st.gid \in Groups
  BY DEF State
<1>2. Append(st.hist, a) \in Seq(Ops \cup {Peer})
  BY <1>1, Appended
<1> QED
  BY <1>1, <1>2 DEF State

\* What a call has made of its state.
LEMMA CommittedFields ==
    ASSUME TypeOK, NEW o \in Ops, op[o].st \in State
    PROVE  /\ Committed(o) \in State /\ Committed(o).gid = op[o].st.gid
           /\ Committed(o).hist = Append(op[o].st.hist, o)
  BY OneMore DEF Committed

LEMMA RequestTypes ==
    ASSUME TypeOK, NEW who \in Ops \cup {Disposer}, NEW r \in Rooms, RequestsSave(who, r)
    PROVE  /\ tx' \in Seq([by : Ops \cup {Disposer}, room : Rooms, st : State])
           /\ useFallback' = useFallback /\ fallback' = fallback /\ idb' = idb /\ idbUp' = idbUp
           /\ dirty' = dirty /\ ~useFallback /\ ~Disposed /\ mem[r] \in State
           /\ tx' = Append(tx, [by |-> who, room |-> r, st |-> mem[r]])
<1>1. mem[r] \in State
  BY DEF TypeOK, RequestsSave, NothingToSave
<1>2. tx \in Seq([by : Ops \cup {Disposer}, room : Rooms, st : State])
  BY DEF TypeOK
<1> QED
  BY <1>1, <1>2 DEF RequestsSave, NothingToSave

LEMMA InMemoryTypes ==
    ASSUME TypeOK, NEW r \in Rooms, SavesInMemory(r)
    PROVE  /\ fallback' \in [Rooms -> State \cup {None}]
           /\ fallback'[r] = mem[r] /\ \A q \in Rooms : q # r => fallback'[q] = fallback[q]
           /\ useFallback' = useFallback /\ tx' = tx /\ idb' = idb /\ idbUp' = idbUp
           /\ dirty' = dirty \ {r} /\ useFallback /\ ~Disposed /\ mem[r] \in State
<1>1. mem[r] \in State /\ fallback \in [Rooms -> State \cup {None}]
  BY DEF TypeOK, SavesInMemory, NothingToSave
<1> QED
  BY <1>1 DEF SavesInMemory, NothingToSave

\* An answer is lost, or not.
LEMMA FaultTypes ==
    ASSUME TypeOK, Fault \/ faults' = faults
    PROVE  faults' \in 0..MaxFaults
<1>1. faults \in 0..MaxFaults /\ MaxFaults \in Nat
  BY Names DEF TypeOK
<1> QED
  BY <1>1 DEF Fault

LEMMA PopTypes ==
    ASSUME TypeOK, pending' = pending \/ (pending # <<>> /\ pending' = Tail(pending))
    PROVE  pending' \in Seq(Packages)
<1>1. pending \in Seq(Packages)
  BY DEF TypeOK
<1> QED
  BY <1>1, TailOf

\* A state is written to memory.
Writes(r, st) ==
    /\ mem' \in [Rooms -> State \cup {None}]
    /\ mem'[r] = st /\ \A q \in Rooms : q # r => mem'[q] = mem[q]

LEMMA WritesState ==
    ASSUME TypeOK, NEW r \in Rooms, NEW st \in State, mem' = [mem EXCEPT ![r] = st]
    PROVE  Writes(r, st)
<1>1. mem \in [Rooms -> State \cup {None}]
  BY DEF TypeOK
<1> QED
  BY <1>1 DEF Writes

\* The steps of a call, one by one: what they need and what they leave.
StartsCall(o) ==
    /\ op[o].pc = "idle" /\ HasManager /\ ~Disposed
    /\ op' \in [Ops -> Calls] /\ OthersStay(o)
    /\ op'[o].pc = "load" /\ op'[o].st = None /\ op'[o].kp = None
    /\ op'[o].kind \in CallKinds /\ op'[o].room \in Rooms
    /\ op'[o].kind = "create" => mem[op'[o].room] = None
    /\ op'[o].kind = "welcome" => op'[o].arg \in welcomes
    /\ op'[o].kind = "message" => op'[o].arg \in [gid : Groups, n : Nat \ {0}]
                                  /\ op'[o].arg.n <= Len(log[op'[o].arg.gid])
    /\ overlapped' = IF ActiveIn(op'[o].room) = {} THEN overlapped
                     ELSE overlapped \cup {op'[o].room}
    /\ UNCHANGED <<pageVars, package, idb, idbUp, worldVars, dirty, boundVars>>

LEMMA CallBeginsDoes ==
    ASSUME TypeOK, NEW o \in Ops, CallBegins(o)
    PROVE  StartsCall(o)
<1>1. PICK kind \in CallKinds, r \in Rooms, arg \in {None} \cup welcomes \cup Messages,
           left \in 0..MaxMembers : Starts(o, kind, r, arg, left)
  BY DEF CallBegins
<1> DEFINE e == [kind |-> kind, room |-> r, arg |-> arg, pc |-> "load", st |-> None,
                 kp |-> None, left |-> left]
<1>2. op \in [Ops -> Calls] /\ welcomes \subseteq Welcome
  BY DEF TypeOK
<1>3. /\ e.kind = kind /\ e.room = r /\ e.arg = arg /\ e.pc = "load" /\ e.st = None /\ e.kp = None
  OBVIOUS
<1>4. e \in Calls
  <2>1. \A n \in 1..MaxEpoch : n \in Nat
    BY Names
  <2>2. \A n \in 0..MaxMembers : n \in Nat
    BY Names
  <2>3. arg \in {None} \cup Welcome \cup [gid : Groups, n : Nat]
    BY <1>2, <2>1 DEF Messages
  <2> QED
    BY <2>2, <2>3 DEF Calls, Stages, CallKinds
<1>5. op' = [op EXCEPT ![o] = e]
  BY <1>1 DEF Starts
<1>6. kind = "message" => arg \in [gid : Groups, n : Nat \ {0}] /\ arg.n <= Len(log[arg.gid])
  <2>1. \A n \in 1..MaxEpoch : n \in Nat \ {0}
    BY Names
  <2> QED
    BY <1>1, <2>1 DEF Starts, Request, Messages, Writers
<1>7. /\ kind = "create" => mem[r] = None
      /\ kind = "welcome" => arg \in welcomes
  BY <1>1 DEF Starts, Request, Writers
<1> HIDE DEF e
<1>8. /\ op' \in [Ops -> Calls] /\ OthersStay(o) /\ op'[o] = e
  BY <1>2, <1>4, <1>5 DEF OthersStay
<1>9. overlapped' = IF ActiveIn(op'[o].room) = {} THEN overlapped
                     ELSE overlapped \cup {op'[o].room}
  BY <1>1, <1>3, <1>8 DEF Starts
<1>10. UNCHANGED <<pageVars, package, idb, idbUp, worldVars, dirty, boundVars>>
  BY <1>1 DEF Starts
<1>11. /\ op'[o].kind \in CallKinds /\ op'[o].room \in Rooms /\ op'[o].pc = "load"
       /\ op'[o].st = None /\ op'[o].kp = None
       /\ op'[o].kind = "create" => mem[op'[o].room] = None
       /\ op'[o].kind = "welcome" => op'[o].arg \in welcomes
       /\ op'[o].kind = "message" => op'[o].arg \in [gid : Groups, n : Nat \ {0}]
                                     /\ op'[o].arg.n <= Len(log[op'[o].arg.gid])
  BY <1>3, <1>6, <1>7, <1>8
<1> QED
  BY <1>1, <1>8, <1>9, <1>10, <1>11 DEF Starts, StartsCall

-----------------------------------------------------------------------------
(* The steps of a call, by what they do to the state *)

storesStay == UNCHANGED <<useFallback, fallback, tx, idb, idbUp>>

\* The service takes the commit.
Sends(o) ==
    /\ op[o].pc = "send" /\ Follows(op[o].st)
    /\ log' = [log EXCEPT ![op[o].st.gid] = op[o].st.hist]

\* A call returns, or fails, and leaves memory as it is.
CallEnds(o) ==
    /\ op[o].pc \in {"load", "mls", "fetch", "welcome", "send", "apply"}
    /\ op[o].pc = "apply" => bound[op[o].room] = None
    /\ IsOver(o)
    /\ dirty' = IF Unsent(o, op[o].room) THEN dirty \cup {op[o].room} ELSE dirty
    /\ log' = log \/ Sends(o)
    /\ UNCHANGED <<initVars, mem, bound, aead, pending, disposal, package, directory, welcomes,
                   overlapped, reloads>>
    /\ storesStay

\* A KeyPackage is taken, not removed.
TakesPackage(o) ==
    /\ op[o].pc = "load" /\ pending # <<>>
    /\ op' \in [Ops -> Calls] /\ OthersStay(o)
    /\ op'[o].kind = op[o].kind /\ op'[o].room = op[o].room /\ op'[o].arg = op[o].arg
    /\ op'[o].pc = "mls" /\ op'[o].kp = Head(pending)
    /\ \/ op[o].kind = "create" /\ op'[o].st = [gid |-> o, hist |-> <<>>]
          /\ bound' = [bound EXCEPT ![op[o].room] = o]
       \/ op[o].kind = "welcome" /\ op'[o].st = op[o].st /\ bound' = bound
    /\ UNCHANGED <<initVars, mem, aead, pending, disposal, package, log, directory, welcomes,
                   dirty, overlapped, reloads>>
    /\ storesStay

\* A call goes on with a state of its own.
Transition(o, pc, st) ==
    \/ /\ op[o].pc = "load" /\ mem[op[o].room] # None /\ st = mem[op[o].room] /\ log' = log
       /\ \/ op[o].kind = "add" /\ pc = "fetch"
          \/ op[o].kind = "remove" /\ pc = "commit"
          \/ op[o].kind = "message" /\ pc = "mls"
    \/ /\ op[o].pc = "mls" /\ op[o].kind = "create" /\ pc = "fetch" /\ st = op[o].st /\ log' = log
    \/ op[o].pc = "fetch" /\ pc = "commit" /\ st = op[o].st /\ log' = log
    \/ op[o].pc = "commit" /\ op[o].kind = "create" /\ pc = "welcome" /\ st = Committed(o)
       /\ log' = log
    \/ op[o].pc = "welcome" /\ pc = "send" /\ st = op[o].st /\ log' = log
    \/ Sends(o) /\ op[o].kind \in Writers /\ pc = "apply" /\ st = op[o].st
    \/ Sends(o) /\ op[o].kind = "create" /\ pc = "fetch" /\ st = op[o].st

Advances(o) ==
    /\ \E pc \in Stages, st \in State : GoesOn(o, pc, st) /\ Transition(o, pc, st)
    /\ UNCHANGED <<initVars, mem, bound, aead, pending, disposal, package, directory, welcomes,
                   dirty, overlapped, reloads>>
    /\ storesStay

Pops == pending' = IF pending = <<>> THEN pending ELSE Tail(pending)

\* A call writes the state it ends with.
Installation(o, st) ==
    \/ /\ op[o].kind = "create" /\ st = op[o].st /\ bound' = bound /\ Pops
       /\ (op[o].pc = "mls" /\ log' = log) \/ Sends(o)
    \/ /\ At(o, "welcome", "mls") /\ Joinable(o) /\ SameGroup(o)
       /\ st = [gid |-> op[o].arg.gid, hist |-> op[o].arg.hist]
       /\ bound' = [bound EXCEPT ![op[o].room] = st.gid] /\ Pops /\ log' = log
    \/ /\ At(o, "message", "mls") /\ Applies(o)
       /\ st.gid = op[o].st.gid /\ st.hist = Append(op[o].st.hist, Peer)
       /\ bound' = bound /\ pending' = pending /\ log' = log

Installs(o) ==
    /\ \E st \in State : GoesOn(o, "apply", st) /\ Writes(op[o].room, st) /\ Installation(o, st)
    /\ UNCHANGED <<initVars, aead, disposal, package, directory, welcomes, dirty, overlapped,
                   reloads>>
    /\ storesStay

\* A call writes the state it is going to send.
WritesCommit(o) ==
    /\ op[o].pc = "commit" /\ op[o].kind \in Writers
    /\ Committed(o) \in State
    /\ GoesOn(o, IF op[o].kind = "remove" THEN "send" ELSE "welcome", Committed(o))
    /\ Writes(op[o].room, Committed(o))
    /\ UNCHANGED <<initVars, bound, aead, pending, disposal, package, log, directory, welcomes,
                   dirty, overlapped, reloads>>
    /\ storesStay

\* A call applies its epoch, and saves the room.
SealsAndSaves(o) ==
    /\ op[o].pc = "apply" /\ bound[op[o].room] # None
    /\ aead' = [aead EXCEPT ![op[o].room] = op[o].st]
    /\ \/ NothingToSave(op[o].room) /\ IsOver(o) /\ storesStay /\ dirty' = dirty
       \/ SavesInMemory(op[o].room) /\ IsOver(o)
       \/ RequestsSave(o, op[o].room) /\ GoesOn(o, "persist", op[o].st)
    /\ UNCHANGED <<initVars, mem, bound, pending, disposal, package, log, directory, welcomes,
                   overlapped, reloads>>

CallSteps(o) ==
    \/ StartsCall(o) \/ CallEnds(o) \/ TakesPackage(o) \/ Advances(o) \/ Installs(o)
    \/ WritesCommit(o) \/ SealsAndSaves(o)

LEMMA EndsCall ==
    ASSUME TypeOK, NEW o \in Ops,
           NothingToWorkOn(o) \/ WelcomeRefused(o) \/ MessageRefused(o) \/ EpochHasNoGroup(o)
             \/ CommitRefused(o)
    PROVE  CallEnds(o)
<1>1. Returns(o) => IsOver(o)
  BY ReturnsIsOver
<1>2. CASE NothingToWorkOn(o)
  BY <1>1, <1>2 DEF NothingToWorkOn, CallEnds, Unsent, pageVars, worldVars, historyVars, boundVars,
     storesStay, initVars
<1>3. CASE WelcomeRefused(o)
  BY <1>1, <1>3 DEF WelcomeRefused, At, CallEnds, Unsent, pageVars, worldVars, historyVars, boundVars,
     storesStay, initVars
<1>4. CASE MessageRefused(o)
  BY <1>1, <1>4 DEF MessageRefused, At, CallEnds, Unsent, pageVars, worldVars, historyVars, boundVars,
     storesStay, initVars
<1>5. CASE EpochHasNoGroup(o)
  BY <1>1, <1>5 DEF EpochHasNoGroup, CallEnds, Unsent, pageVars, worldVars, historyVars, boundVars,
     storesStay, initVars
<1>6. CASE CommitRefused(o)
  BY <1>1, <1>6 DEF CommitRefused, FailsToSend, CallEnds, Unsent, pageVars, worldVars, storesStay,
     initVars
<1> QED
  BY <1>2, <1>3, <1>4, <1>5, <1>6

LEMMA FailsEnds ==
    ASSUME TypeOK, NEW o \in Ops, FailsToSend(o), op[o].pc \in {"welcome", "send"},
           log' = log \/ Sends(o), storesStay,
           UNCHANGED <<initVars, mem, bound, aead, pending, disposal, package, directory, welcomes,
                       overlapped, reloads>>
    PROVE  CallEnds(o)
<1>1. IsOver(o)
  BY ReturnsIsOver DEF FailsToSend
<1> QED
  BY <1>1 DEF FailsToSend, CallEnds, Unsent

LEMMA PackageTaken ==
    ASSUME TypeOK, NEW o \in Ops, CreateBegins(o) \/ WelcomeBegins(o)
    PROVE  TakesPackage(o)
<1>1. op \in [Ops -> Calls] /\ op[o] \in Calls
  BY CallFields
<1>2. pending # <<>>
  BY DEF CreateBegins, WelcomeBegins
<1>3. Head(pending) \in Packages
  <2>1. pending \in Seq(Packages)
    BY DEF TypeOK
  <2> QED
    BY <1>2, <2>1
<1>4. CASE CreateBegins(o)
  <2> DEFINE st == [gid |-> o, hist |-> <<>>]
             e == [op[o] EXCEPT !.pc = "mls", !.kp = Head(pending), !.st = st]
  <2>1. op' = [op EXCEPT ![o] = e]
    BY <1>1, <1>4 DEF CreateBegins
  <2>2. st \in State
    BY DEF State, Groups
  <2> HIDE DEF st
  <2>3. /\ e \in Calls /\ e.kind = op[o].kind /\ e.room = op[o].room /\ e.arg = op[o].arg
        /\ e.pc = "mls" /\ e.kp = Head(pending) /\ e.st = st
    BY <1>1, <1>3, <2>2 DEF Calls, Stages
  <2> HIDE DEF e
  <2>4. /\ op' \in [Ops -> Calls] /\ OthersStay(o) /\ op'[o] = e
    BY <1>1, <2>1, <2>3 DEF OthersStay
  <2>5. op'[o].st = [gid |-> o, hist |-> <<>>]
    BY <2>3, <2>4 DEF st
  <2> QED
    BY <1>2, <1>4, <2>3, <2>4, <2>5 DEF CreateBegins, At, TakesPackage, initVars, storeVars, storesStay, worldVars,
       historyVars, boundVars
<1>5. CASE WelcomeBegins(o)
  <2> DEFINE e == [op[o] EXCEPT !.pc = "mls", !.kp = Head(pending)]
  <2>1. op' = [op EXCEPT ![o] = e]
    BY <1>1, <1>5 DEF WelcomeBegins
  <2>3. /\ e \in Calls /\ e.kind = op[o].kind /\ e.room = op[o].room /\ e.arg = op[o].arg
        /\ e.pc = "mls" /\ e.kp = Head(pending) /\ e.st = op[o].st
    BY <1>1, <1>3 DEF Calls, Stages
  <2> HIDE DEF e
  <2>4. /\ op' \in [Ops -> Calls] /\ OthersStay(o) /\ op'[o] = e
    BY <1>1, <2>1, <2>3 DEF OthersStay
  <2> QED
    BY <1>2, <1>5, <2>3, <2>4 DEF WelcomeBegins, At, TakesPackage, pageVars, initVars, storesStay, worldVars,
       historyVars, boundVars
<1> QED
  BY <1>4, <1>5

\* The room and the state of a call under way.
LEMMA ActiveCall ==
    ASSUME TypeOK, NEW o \in Ops, CallShape(o), op[o].pc \notin {"idle", "done"}
    PROVE  /\ op[o].room \in Rooms /\ op[o].kind \in CallKinds /\ mem[op[o].room] \in State \cup {None}
           /\ op[o].pc \in {"fetch", "commit", "welcome", "send", "apply", "persist"} => op[o].st \in State
           /\ AtAny(o, {"create", "message"}, "mls") => op[o].st \in State
<1>1. op[o].room \in Rooms /\ op[o].kind \in CallKinds
  BY DEF CallShape, Active
<1>2. mem[op[o].room] \in State \cup {None}
  BY <1>1 DEF TypeOK
<1> QED
  BY <1>1, <1>2 DEF CallShape

LEMMA ReadsState ==
    ASSUME TypeOK, NEW o \in Ops, CallShape(o), StateRead(o)
    PROVE  Advances(o)
<1>1. mem[op[o].room] \in State /\ op[o].pc = "load" /\ mem[op[o].room] # None
  BY ActiveCall DEF StateRead
<1>2. \A pc \in Stages : GotoWith(o, pc, mem[op[o].room]) => GoesOn(o, pc, mem[op[o].room])
  BY <1>1, GotoWithGoesOn
<1>3. {"fetch", "commit", "mls"} \subseteq Stages
  BY DEF Stages
<1>4. /\ log' = log /\ storesStay
      /\ UNCHANGED <<initVars, mem, bound, aead, pending, disposal, package, directory, welcomes,
                     dirty, overlapped, reloads>>
  BY DEF StateRead, pageVars, initVars, storesStay, worldVars, historyVars, boundVars
<1>5. \E pc \in Stages : GoesOn(o, pc, mem[op[o].room]) /\ Transition(o, pc, mem[op[o].room])
  <2>1. CASE op[o].kind = "add" /\ GotoWith(o, "fetch", mem[op[o].room])
    BY <1>1, <1>2, <1>3, <1>4, <2>1 DEF Transition
  <2>2. CASE op[o].kind = "remove" /\ GotoWith(o, "commit", mem[op[o].room])
    BY <1>1, <1>2, <1>3, <1>4, <2>2 DEF Transition
  <2>3. CASE op[o].kind = "message" /\ GotoWith(o, "mls", mem[op[o].room])
    BY <1>1, <1>2, <1>3, <1>4, <2>3 DEF Transition
  <2> QED
    BY <2>1, <2>2, <2>3 DEF StateRead
<1> QED
  BY <1>1, <1>4, <1>5 DEF Advances

\* A call that keeps its state.
LEMMA GotoAdvances ==
    ASSUME TypeOK, NEW o \in Ops, NEW pc \in Stages, Goto(o, pc), op[o].st \in State,
           Transition(o, pc, op[o].st), storesStay,
           UNCHANGED <<initVars, mem, bound, aead, pending, disposal, package, directory, welcomes,
                       dirty, overlapped, reloads>>
    PROVE  Advances(o)
  BY GotoGoesOn DEF Advances

LEMMA InstallsStay ==
    ASSUME TypeOK, NEW o \in Ops, CallShape(o), InstallsCreated(o), op[o].kind = "create",
           (op[o].pc = "mls" /\ log' = log) \/ Sends(o), bound' = bound, storesStay,
           UNCHANGED <<initVars, aead, disposal, package, directory, welcomes, dirty, overlapped,
                       reloads>>
    PROVE  Installs(o)
<1>1. op[o].st \in State /\ op[o].room \in Rooms
  BY ActiveCall DEF Sends, AtAny
<1>2. GoesOn(o, "apply", op[o].st)
  BY GotoGoesOn DEF InstallsCreated, Stages
<1>3. Writes(op[o].room, op[o].st)
  BY <1>1, WritesState DEF InstallsCreated
<1>4. Installation(o, op[o].st)
  BY DEF Installation, InstallsCreated, Pops
<1> QED
  BY <1>1, <1>2, <1>3, <1>4 DEF Installs

LEMMA CreateMadeDoes ==
    ASSUME TypeOK, NEW o \in Ops, CallShape(o), CreateMade(o)
    PROVE  Advances(o) \/ Installs(o)
<1>1. /\ op[o].kind = "create" /\ op[o].pc = "mls" /\ log' = log /\ storesStay /\ bound' = bound
      /\ UNCHANGED <<initVars, aead, disposal, package, directory, welcomes, dirty, overlapped,
                     reloads>>
  BY DEF CreateMade, At, initVars, storeVars, storesStay, worldVars, historyVars, boundVars
<1>2. CASE op[o].left > 0 /\ Goto(o, "fetch") /\ UNCHANGED <<mem, pending>>
  <2>1. op[o].st \in State
    BY <1>1, ActiveCall DEF AtAny
  <2>2. Transition(o, "fetch", op[o].st) /\ "fetch" \in Stages
    BY <1>1 DEF Transition, Stages
  <2> QED
    BY <1>1, <1>2, <2>1, <2>2, GotoAdvances
<1>3. CASE InstallsCreated(o)
  BY <1>1, <1>3, InstallsStay
<1> QED
  BY <1>2, <1>3 DEF CreateMade

LEMMA KeyPackageDoes ==
    ASSUME TypeOK, NEW o \in Ops, CallShape(o), KeyPackageFetched(o)
    PROVE  Advances(o) \/ CallEnds(o)
<1>1. /\ op[o].pc = "fetch" /\ log' = log /\ storesStay
      /\ UNCHANGED <<initVars, mem, bound, aead, pending, disposal, package, directory, welcomes,
                     dirty, overlapped, reloads>>
  BY DEF KeyPackageFetched, pageVars, initVars, storesStay, worldVars, historyVars
<1>2. CASE Goto(o, "commit")
  <2>1. op[o].st \in State
    BY <1>1, ActiveCall
  <2>2. Transition(o, "commit", op[o].st) /\ "commit" \in Stages
    BY <1>1 DEF Transition, Stages
  <2> QED
    BY <1>1, <1>2, <2>1, <2>2, GotoAdvances
<1>3. CASE Returns(o)
  BY <1>1, <1>3, ReturnsIsOver DEF CallEnds, Unsent
<1> QED
  BY <1>2, <1>3 DEF KeyPackageFetched

LEMMA CommitMadeDoes ==
    ASSUME TypeOK, NEW o \in Ops, CallShape(o), CommitMade(o)
    PROVE  Advances(o) \/ WritesCommit(o)
<1>1. /\ op[o].pc = "commit" /\ log' = log /\ storesStay
      /\ UNCHANGED <<initVars, bound, aead, pending, disposal, package, directory, welcomes,
                     dirty, overlapped, reloads>>
  BY DEF CommitMade, initVars, storeVars, storesStay, worldVars, historyVars, boundVars
<1>2. op[o].st \in State /\ op[o].room \in Rooms /\ op[o].kind \in {"create", "add", "remove"}
  BY <1>1, ActiveCall DEF CallShape
<1>3. Committed(o) \in State
  BY <1>2, CommittedFields
<1> DEFINE pc == IF op[o].kind = "remove" THEN "send" ELSE "welcome"
<1>4. pc \in Stages
  BY DEF Stages
<1>5. GoesOn(o, pc, Committed(o))
  <2>1. GotoWith(o, pc, Committed(o))
    BY DEF CommitMade
  <2> HIDE DEF pc
  <2> QED
    BY <1>3, <1>4, <2>1, GotoWithGoesOn
<1>6. CASE op[o].kind = "create"
  <2>1. mem' = mem /\ pc = "welcome"
    BY <1>6 DEF CommitMade, Writers
  <2>2. Transition(o, "welcome", Committed(o))
    BY <1>1, <1>6 DEF Transition
  <2>3. GoesOn(o, "welcome", Committed(o)) /\ "welcome" \in Stages
    BY <1>4, <1>5, <2>1
  <2> QED
    BY <1>1, <1>3, <2>1, <2>2, <2>3 DEF Advances
<1>7. CASE op[o].kind \in Writers
  <2>1. Writes(op[o].room, Committed(o))
    BY <1>2, <1>3, <1>7, WritesState DEF CommitMade
  <2> QED
    BY <1>1, <1>3, <1>5, <1>7, <2>1 DEF WritesCommit
<1> QED
  BY <1>2, <1>6, <1>7 DEF Writers

LEMMA WelcomeSentDoes ==
    ASSUME TypeOK, NEW o \in Ops, CallShape(o), WelcomeSent(o)
    PROVE  Advances(o) \/ CallEnds(o)
<1>1. /\ op[o].pc = "welcome" /\ log' = log /\ storesStay
      /\ UNCHANGED <<initVars, mem, bound, aead, pending, disposal, package, directory, welcomes,
                     overlapped, reloads>>
  BY DEF WelcomeSent, pageVars, initVars, storesStay, worldVars
<1>2. CASE Goto(o, "send") /\ UNCHANGED <<dirty, faults>>
  <2>1. op[o].st \in State
    BY <1>1, ActiveCall
  <2>2. Transition(o, "send", op[o].st) /\ "send" \in Stages
    BY <1>1 DEF Transition, Stages
  <2> QED
    BY <1>1, <1>2, <2>1, <2>2, GotoAdvances
<1>3. CASE FailsToSend(o)
  BY <1>1, <1>3, FailsEnds
<1> QED
  BY <1>2, <1>3 DEF WelcomeSent

LEMMA CommitTakenDoes ==
    ASSUME TypeOK, NEW o \in Ops, CallShape(o), CommitTaken(o)
    PROVE  Advances(o) \/ Installs(o) \/ CallEnds(o)
<1>1. /\ Sends(o) /\ op[o].pc = "send" /\ storesStay
      /\ UNCHANGED <<initVars, bound, aead, disposal, package, directory, welcomes,
                     overlapped, reloads>>
  BY DEF CommitTaken, Sends, initVars, storeVars, storesStay
<1>2. op[o].st \in State
  BY <1>1, ActiveCall
<1>3. "apply" \in Stages /\ "fetch" \in Stages
  BY DEF Stages
<1>4. CASE op[o].kind \in Writers /\ Goto(o, "apply") /\ UNCHANGED <<mem, pending, dirty, faults>>
  <2>1. Transition(o, "apply", op[o].st)
    BY <1>1, <1>4 DEF Transition
  <2> QED
    BY <1>1, <1>2, <1>3, <1>4, <2>1, GotoAdvances
<1>5. CASE /\ op[o].kind = "create" /\ op[o].left > 1
           /\ op' = [op EXCEPT ![o].pc = "fetch", ![o].left = @ - 1]
           /\ UNCHANGED <<mem, pending, dirty, faults>>
  <2>1. Transition(o, "fetch", op[o].st)
    BY <1>1, <1>5 DEF Transition
  <2>2. op \in [Ops -> Calls] /\ op[o] \in Calls /\ op[o].left \in Nat
    BY CallFields
  <2>3. op[o].left - 1 \in Nat
    BY <1>5, <2>2
  <2> DEFINE e == [op[o] EXCEPT !.pc = "fetch", !.left = op[o].left - 1]
  <2>4. op' = [op EXCEPT ![o] = e]
    BY <1>5, <2>2
  <2>5. /\ e \in Calls /\ e.kind = op[o].kind /\ e.room = op[o].room /\ e.arg = op[o].arg
        /\ e.kp = op[o].kp /\ e.pc = "fetch" /\ e.st = op[o].st
    BY <1>3, <2>2, <2>3 DEF Calls
  <2> HIDE DEF e
  <2>6. GoesOn(o, "fetch", op[o].st)
    BY <2>2, <2>4, <2>5 DEF GoesOn, OthersStay
  <2> QED
    BY <1>1, <1>2, <1>3, <1>5, <2>1, <2>6 DEF Advances
<1>6. CASE op[o].kind = "create" /\ op[o].left = 1 /\ InstallsCreated(o) /\ UNCHANGED <<dirty, faults>>
  BY <1>1, <1>6, InstallsStay
<1>7. CASE FailsToSend(o) /\ UNCHANGED <<mem, pending>>
  BY <1>1, <1>7, FailsEnds
<1> QED
  BY <1>4, <1>5, <1>6, <1>7 DEF CommitTaken

LEMMA JoinedDoes ==
    ASSUME TypeOK, NEW o \in Ops, CallShape(o), Joined(o)
    PROVE  Installs(o)
<1> DEFINE st == [gid |-> op[o].arg.gid, hist |-> op[o].arg.hist]
<1>1. op[o].room \in Rooms /\ st \in State
  <2>1. op[o].room \in Rooms
    BY ActiveCall DEF Joined, At
  <2>2. op[o].arg \in Welcome
    BY DEF Joined, At, CallShape, TypeOK
  <2> QED
    BY <2>1, <2>2 DEF Welcome, State
<1>2. /\ At(o, "welcome", "mls") /\ Joinable(o) /\ SameGroup(o) /\ log' = log /\ storesStay
      /\ GotoWith(o, "apply", st) /\ mem' = [mem EXCEPT ![op[o].room] = st]
      /\ bound' = [bound EXCEPT ![op[o].room] = st.gid] /\ Pops
      /\ UNCHANGED <<initVars, aead, disposal, package, directory, welcomes, dirty, overlapped,
                     reloads>>
  BY DEF Joined, Pops, initVars, storeVars, storesStay, worldVars, historyVars, boundVars
<1>3. Installation(o, st)
  BY <1>2 DEF Installation
<1> HIDE DEF st
<1>4. "apply" \in Stages
  BY DEF Stages
<1>5. GoesOn(o, "apply", st) /\ Writes(op[o].room, st)
  BY <1>1, <1>2, <1>4, GotoWithGoesOn, WritesState
<1> QED
  BY <1>1, <1>2, <1>3, <1>5 DEF Installs

LEMMA MessageAppliedDoes ==
    ASSUME TypeOK, NEW o \in Ops, CallShape(o), MessageApplied(o)
    PROVE  Installs(o)
<1> DEFINE st == [op[o].st EXCEPT !.hist = Append(@, Peer)]
<1>1. op[o].room \in Rooms /\ op[o].st \in State
  BY ActiveCall DEF MessageApplied, At, AtAny
<1>2. st \in State /\ st.gid = op[o].st.gid /\ st.hist = Append(op[o].st.hist, Peer)
  BY <1>1, OneMore
<1>3. /\ At(o, "message", "mls") /\ Applies(o) /\ log' = log /\ storesStay
      /\ GotoWith(o, "apply", st) /\ mem' = [mem EXCEPT ![op[o].room] = st]
      /\ bound' = bound /\ pending' = pending
      /\ UNCHANGED <<initVars, aead, disposal, package, directory, welcomes, dirty, overlapped,
                     reloads>>
  BY DEF MessageApplied, initVars, storeVars, storesStay, worldVars, historyVars, boundVars
<1> HIDE DEF st
<1>4. Installation(o, st)
  BY <1>2, <1>3 DEF Installation
<1>5. "apply" \in Stages
  BY DEF Stages
<1>6. GoesOn(o, "apply", st) /\ Writes(op[o].room, st)
  BY <1>1, <1>2, <1>3, <1>5, GotoWithGoesOn, WritesState
<1> QED
  BY <1>2, <1>3, <1>4, <1>6 DEF Installs

LEMMA EpochAppliedDoes ==
    ASSUME TypeOK, NEW o \in Ops, CallShape(o), EpochApplied(o)
    PROVE  SealsAndSaves(o)
<1>1. Returns(o) => IsOver(o)
  BY ReturnsIsOver
<1>2. Goto(o, "persist") => GoesOn(o, "persist", op[o].st)
  BY GotoGoesOn DEF Stages
<1> QED
  BY <1>1, <1>2 DEF EpochApplied, SealsAndSaves, initVars, storeVars, storesStay, worldVars, boundVars

\* What a call's step does.
LEMMA CallDoes ==
    ASSUME TypeOK, NEW o \in Ops, CallShape(o), Call(o)
    PROVE  CallSteps(o)
  BY CallBeginsDoes, EndsCall, PackageTaken, ReadsState, CreateMadeDoes, KeyPackageDoes,
     CommitMadeDoes, WelcomeSentDoes, CommitTakenDoes, JoinedDoes, MessageAppliedDoes,
     EpochAppliedDoes DEF Call, CallSteps

-----------------------------------------------------------------------------
(* Every step keeps the types and the calls' shapes *)

LEMMA CallFaults ==
    ASSUME TypeOK, NEW o \in Ops, Call(o)
    PROVE  faults' \in 0..MaxFaults
<1>1. faults' = faults \/ Fault
  <2>1. CASE \/ CallBegins(o) \/ NothingToWorkOn(o) \/ StateRead(o) \/ CreateBegins(o) \/ CreateMade(o)
             \/ CommitMade(o) \/ WelcomeBegins(o) \/ Joined(o)
    BY <2>1 DEF CallBegins, Starts, NothingToWorkOn, StateRead, CreateBegins, CreateMade, CommitMade,
       WelcomeBegins, Joined, boundVars
  <2>2. CASE KeyPackageFetched(o) \/ WelcomeSent(o) \/ CommitTaken(o) \/ CommitRefused(o)
    BY <2>2 DEF KeyPackageFetched, WelcomeSent, CommitTaken, CommitRefused
  <2>3. CASE \/ WelcomeRefused(o) \/ MessageApplied(o) \/ MessageRefused(o) \/ EpochApplied(o)
             \/ EpochHasNoGroup(o)
    BY <2>3 DEF WelcomeRefused, MessageApplied, MessageRefused, EpochApplied, EpochHasNoGroup, boundVars
  <2> QED
    BY <2>1, <2>2, <2>3 DEF Call
<1> QED
  BY <1>1, FaultTypes

LEMMA SendsTypes ==
    ASSUME TypeOK, NEW o \in Ops, CallShape(o), log' = log \/ Sends(o)
    PROVE  log' \in [Groups -> Seq(Ops \cup {Peer})] /\ LogGrows
<1>1. CASE log' = log
  BY <1>1, LogStays DEF TypeOK
<1>2. CASE Sends(o)
  <2> DEFINE g == op[o].st.gid
             h == op[o].st.hist
  <2>1. op[o].st \in State
    BY <1>2 DEF Sends, CallShape
  <2>2. g \in Groups /\ h \in Seq(Ops \cup {Peer})
    BY <2>1 DEF State
  <2>3. log \in [Groups -> Seq(Ops \cup {Peer})] /\ log' = [log EXCEPT ![g] = h] /\ log[g] = Front(h)
    BY <1>2 DEF TypeOK, Sends, Follows
  <2> HIDE DEF g, h
  <2>4. log' \in [Groups -> Seq(Ops \cup {Peer})]
    BY <2>2, <2>3
  <2>5. Len(Front(h)) <= Len(h)
    <3>1. CASE h = <<>>
      BY <2>2, <3>1 DEF Front
    <3>2. CASE h # <<>>
      BY <2>2, <3>2 DEF Front
    <3> QED
      BY <3>1, <3>2
  <2>6. \A q \in Groups : Len(log[q]) <= Len(log'[q])
    <3> SUFFICES ASSUME NEW q \in Groups PROVE Len(log[q]) <= Len(log'[q])
      OBVIOUS
    <3>1. log[q] \in Seq(Ops \cup {Peer})
      BY <2>3
    <3>2. CASE q = g
      BY <2>2, <2>3, <2>5, <3>2
    <3>3. CASE q # g
      BY <2>2, <2>3, <3>1, <3>3
    <3> QED
      BY <3>2, <3>3
  <2> QED
    BY <2>4, <2>6 DEF LogGrows
<1> QED
  BY <1>1, <1>2

LEMMA CallTypes ==
    ASSUME TypeOK, NEW o \in Ops, CallShape(o), CallSteps(o), faults' \in 0..MaxFaults
    PROVE  TypeOK'
<1>1. Typed
  BY TypedIs
<1> SUFFICES Typed'
  BY TypedNext
<1>2. CASE StartsCall(o)
  <2>1. overlapped' \subseteq Rooms
    BY <1>1, <1>2 DEF StartsCall, Typed
  <2> QED
    BY <1>1, <1>2, <2>1 DEF StartsCall, Typed, pageVars, worldVars, boundVars
<1>3. CASE CallEnds(o)
  <2>1. dirty' \subseteq Rooms
    BY <1>1, <1>3, ActiveCall DEF CallEnds, Typed
  <2>2. log' \in [Groups -> Seq(Ops \cup {Peer})]
    BY <1>3, SendsTypes DEF CallEnds
  <2> QED
    BY <1>1, <1>3, <2>1, <2>2 DEF CallEnds, IsOver, Typed, initVars, storesStay
<1>4. CASE TakesPackage(o)
  <2>1. bound' \in [Rooms -> Groups \cup {None}]
    BY <1>1, <1>4 DEF TakesPackage, Typed, Groups
  <2> QED
    BY <1>1, <1>4, <2>1 DEF TakesPackage, Typed, initVars, storesStay
<1>5. CASE Advances(o)
  <2>1. log' \in [Groups -> Seq(Ops \cup {Peer})]
    BY <1>5, SendsTypes DEF Advances, Transition
  <2>2. op' \in [Ops -> Calls]
    BY <1>5 DEF Advances, GoesOn
  <2> QED
    BY <1>1, <1>5, <2>1, <2>2 DEF Advances, Typed, initVars, storesStay
<1>6. CASE Installs(o)
  <2>1. PICK st \in State : GoesOn(o, "apply", st) /\ Writes(op[o].room, st) /\ Installation(o, st)
    BY <1>6 DEF Installs
  <2>2. log' \in [Groups -> Seq(Ops \cup {Peer})]
    BY <2>1, SendsTypes DEF Installation
  <2>3. bound' \in [Rooms -> Groups \cup {None}]
    <3>1. st.gid \in Groups
      BY DEF State
    <3> QED
      BY <1>1, <2>1, <3>1 DEF Installation, Typed
  <2>4. pending' \in Seq(Packages)
    BY <2>1, PopTypes DEF Installation, Pops
  <2> QED
    BY <1>1, <1>6, <2>1, <2>2, <2>3, <2>4 DEF Installs, GoesOn, Writes, Typed, initVars, storesStay
<1>7. CASE WritesCommit(o)
  BY <1>1, <1>7 DEF WritesCommit, GoesOn, Writes, Typed, initVars, storesStay
<1>8. CASE SealsAndSaves(o)
  <2> DEFINE r == op[o].room
  <2>1. r \in Rooms /\ op[o].st \in State
    BY <1>8, ActiveCall DEF SealsAndSaves
  <2> HIDE DEF r
  <2>2. /\ aead' = [aead EXCEPT ![r] = op[o].st]
        /\ UNCHANGED <<initVars, mem, bound, pending, disposal, package, log, directory, welcomes,
                       overlapped, reloads>>
    BY <1>8 DEF SealsAndSaves, r
  <2>3. aead' \in [Rooms -> State \cup {None}]
    BY <1>1, <2>1, <2>2 DEF Typed
  <2>4. CASE NothingToSave(r) /\ IsOver(o) /\ storesStay /\ dirty' = dirty
    BY <1>1, <2>2, <2>3, <2>4 DEF IsOver, storesStay, Typed, initVars
  <2>5. CASE SavesInMemory(r) /\ IsOver(o)
    <3>1. /\ fallback' \in [Rooms -> State \cup {None}] /\ dirty' \subseteq Rooms
          /\ useFallback' = useFallback /\ tx' = tx /\ idb' = idb /\ idbUp' = idbUp
      BY <1>1, <2>1, <2>5, InMemoryTypes DEF Typed
    <3> QED
      BY <1>1, <2>2, <2>3, <2>5, <3>1 DEF IsOver, Typed, initVars
  <2>6. CASE RequestsSave(o, r) /\ GoesOn(o, "persist", op[o].st)
    <3>1. /\ tx' \in Seq([by : Ops \cup {Disposer}, room : Rooms, st : State])
          /\ useFallback' = useFallback /\ fallback' = fallback /\ idb' = idb /\ idbUp' = idbUp
          /\ dirty' = dirty
      BY <2>1, <2>6, RequestTypes
    <3> QED
      BY <1>1, <2>2, <2>3, <2>6, <3>1 DEF GoesOn, Typed, initVars
  <2> QED
    BY <1>8, <2>4, <2>5, <2>6 DEF SealsAndSaves, r
<1> QED
  BY <1>2, <1>3, <1>4, <1>5, <1>6, <1>7, <1>8 DEF CallSteps

LEMMA CallShapes ==
    ASSUME TypeOK, TypeOK', Shapes, NEW o \in Ops, CallSteps(o)
    PROVE  Shapes' /\ LogGrows /\ OthersStay(o) /\ welcomes' = welcomes
<1>0. CallShape(o) /\ op \in [Ops -> Calls] /\ op[o].pc \in Stages
  BY CallFields DEF Shapes
<1>a. welcomes' = welcomes /\ OthersStay(o)
  BY DEF CallSteps, StartsCall, CallEnds, TakesPackage, Advances, Installs, WritesCommit,
     SealsAndSaves, GoesOn, IsOver, worldVars
<1>b. LogGrows
  BY <1>0, SendsTypes DEF CallSteps, StartsCall, CallEnds, TakesPackage, Advances, Installs,
     WritesCommit, SealsAndSaves, Transition, Installation, worldVars
<1>c. op[o].kind = "message" => op[o].arg \in [gid : Groups, n : Nat \ {0}]
                                /\ op[o].arg.n <= Len(log'[op[o].arg.gid])
  <2> SUFFICES ASSUME op[o].kind = "message"
               PROVE  op[o].arg \in [gid : Groups, n : Nat \ {0}] /\ op[o].arg.n <= Len(log'[op[o].arg.gid])
    OBVIOUS
  <2>1. op[o].arg \in [gid : Groups, n : Nat \ {0}] /\ op[o].arg.n <= Len(log[op[o].arg.gid])
    BY <1>0 DEF CallShape
  <2>2. op[o].arg.gid \in Groups /\ op[o].arg.n \in Nat
    BY <2>1
  <2>3. Len(log[op[o].arg.gid]) <= Len(log'[op[o].arg.gid])
    BY <1>b, <2>2 DEF LogGrows
  <2>4. Len(log[op[o].arg.gid]) \in Nat /\ Len(log'[op[o].arg.gid]) \in Nat
    BY <2>2, SMTT(30) DEF TypeOK
  <2> DEFINE n == op[o].arg.n
             before == Len(log[op[o].arg.gid])
             after == Len(log'[op[o].arg.gid])
  <2>5. n \in Nat /\ before \in Nat /\ after \in Nat /\ n <= before /\ before <= after
    BY <2>1, <2>2, <2>3, <2>4
  <2> HIDE DEF n, before, after
  <2>6. n <= after
    BY <2>5
  <2> QED
    BY <2>1, <2>6 DEF n, after
<1>d. Stages = {"idle", "load", "mls", "fetch", "commit", "welcome", "send", "apply", "persist", "done"}
  BY DEF Stages
<1>1. CallShape(o)'
  <2>1. CASE StartsCall(o)
    BY <2>1, <1>a DEF StartsCall, CallShape, Active, AtAny, At, CallKinds, worldVars
  <2>2. CASE IsOver(o)
    BY <2>2, OverShape DEF IsOver
  <2>3. CASE TakesPackage(o)
    <3>1. op'[o].st \in State \cup {None}
      BY <2>3, CallFields, <1>0 DEF TakesPackage, Calls
    <3>2. Head(pending) \in Packages
      <4>1. pending \in Seq(Packages)
        BY DEF TypeOK
      <4> QED
        BY <2>3, <4>1 DEF TakesPackage
    <3>3. op[o].kind = "create" => op'[o].st \in State /\ op'[o].st.gid = o
      <4> SUFFICES ASSUME op[o].kind = "create" PROVE op'[o].st \in State /\ op'[o].st.gid = o
        OBVIOUS
      <4>1. op'[o].st = [gid |-> o, hist |-> <<>>]
        BY <2>3 DEF TakesPackage
      <4> QED
        BY <4>1 DEF State, Groups
    <3>4. op[o].kind = "welcome" => op'[o].st = None
      BY <2>3, <1>0 DEF TakesPackage, CallShape
    <3>5. /\ op'[o].kind = op[o].kind /\ op'[o].room = op[o].room /\ op'[o].arg = op[o].arg
          /\ op'[o].pc = "mls" /\ op'[o].kp = Head(pending) /\ op[o].pc = "load"
          /\ op[o].kind \in {"create", "welcome"}
      BY <2>3 DEF TakesPackage
    <3> QED
      BY <1>0, <1>a, <3>2, <3>3, <3>4, <3>5 DEF CallShape, Active, AtAny, At, CallKinds
  <2>4. CASE Advances(o)
    <3>1. PICK pc \in Stages, st \in State : GoesOn(o, pc, st) /\ Transition(o, pc, st)
      BY <2>4 DEF Advances
    <3>2. op[o].kind = "create" /\ op[o].pc = "commit" /\ st = Committed(o) => st.gid = op[o].st.gid
      BY <1>0, CommittedFields DEF CallShape
    <3>3. /\ op'[o].kind = op[o].kind /\ op'[o].room = op[o].room /\ op'[o].arg = op[o].arg
          /\ op'[o].pc = pc /\ op'[o].st = st /\ op'[o].kp = op[o].kp
      BY <3>1 DEF GoesOn
    <3>4. /\ op[o].pc \in {"load", "mls", "fetch", "commit", "welcome", "send"}
          /\ pc \in {"fetch", "commit", "mls", "welcome", "send", "apply"}
      BY <3>1 DEF Transition, Sends
    <3>5. op[o].room \in Rooms /\ op[o].kind \in CallKinds
      BY <1>0, <3>4 DEF CallShape, Active
    <3>6. pc = "mls" => op[o].kind = "message"
      BY <3>1 DEF Transition, Sends
    <3>7. pc \in {"fetch", "welcome"} => op[o].kind \in {"create", "add"}
      BY <1>0, <3>1 DEF Transition, CallShape
    <3>8. pc \in {"commit", "send"} => op[o].kind \in {"create", "add", "remove"}
      BY <1>0, <3>1 DEF Transition, CallShape
    <3>9. op[o].kind = "create" => st.gid = o
      <4>1. op[o].kind = "create" => op[o].pc # "load"
        BY <3>1 DEF Transition, Sends
      <4>2. op[o].kind = "create" => op[o].st.gid = o
        BY <1>0, <3>4, <4>1 DEF CallShape
      <4>3. op[o].kind = "create" => st = op[o].st \/ st.gid = op[o].st.gid
        BY <3>1, <3>2, <4>1 DEF Transition
      <4> QED
        BY <4>2, <4>3
    <3>10. op[o].kind = "welcome" => op[o].arg \in welcomes'
      BY <1>0, <1>a DEF CallShape
    <3> QED
      BY <1>c, <3>3, <3>4, <3>5, <3>6, <3>7, <3>8, <3>9, <3>10 DEF CallShape, Active, AtAny, At
  <2>5. CASE Installs(o)
    <3>1. PICK st \in State : GoesOn(o, "apply", st) /\ Installation(o, st)
      BY <2>5 DEF Installs
    <3>2. op[o].pc \in {"mls", "send"}
      BY <3>1 DEF Installation, At, Sends
    <3>3. op[o].room \in Rooms /\ op[o].kind \in CallKinds
      BY <1>0, <3>2 DEF CallShape, Active
    <3>4. op[o].kind = "welcome" => op[o].arg \in welcomes'
      BY <1>0, <1>a DEF CallShape
    <3> QED
      BY <1>c, <3>1, <3>3, <3>4 DEF GoesOn, CallShape, Active, AtAny, At
  <2>6. CASE WritesCommit(o)
    <3>1. /\ op[o].pc = "commit" /\ op[o].kind \in {"add", "remove"} /\ Committed(o) \in State
          /\ GoesOn(o, IF op[o].kind = "remove" THEN "send" ELSE "welcome", Committed(o))
      BY <2>6 DEF WritesCommit, Writers
    <3>3. op[o].room \in Rooms /\ op[o].kind \in CallKinds
      BY <1>0, <3>1 DEF CallShape, Active
    <3> QED
      BY <3>1, <3>3 DEF GoesOn, CallShape, Active, AtAny, At
  <2>7. CASE SealsAndSaves(o) /\ GoesOn(o, "persist", op[o].st)
    <3>1. op[o].room \in Rooms /\ op[o].kind \in CallKinds /\ op[o].st \in State
      BY <1>0, <2>7 DEF SealsAndSaves, CallShape, Active
    <3>4. op[o].kind = "welcome" => op[o].arg \in welcomes'
      BY <1>0, <1>a DEF CallShape
    <3> QED
      BY <1>c, <2>7, <3>1, <3>4 DEF GoesOn, CallShape, Active, AtAny, At
  <2> QED
    BY <2>1, <2>2, <2>3, <2>4, <2>5, <2>6, <2>7 DEF CallSteps, CallEnds, SealsAndSaves
<1> QED
  BY <1>1, <1>a, <1>b, AllShapes

-----------------------------------------------------------------------------
(* The store *)

Save == [by : Ops \cup {Disposer}, room : Rooms, st : State]

LEMMA HeadOfQueue ==
    ASSUME TypeOK, tx # <<>>, tx' = Tail(tx)
    PROVE  /\ Head(tx) = tx[1] /\ tx[1] \in Save /\ 1 \in DOMAIN tx /\ tx' \in Seq(Save)
           /\ tx[1].by \in Ops \cup {Disposer} /\ tx[1].room \in Rooms /\ tx[1].st \in State
           /\ \A i \in DOMAIN tx' : i \in Nat /\ i >= 1 /\ i + 1 \in DOMAIN tx /\ tx'[i] = tx[i + 1]
           /\ \A i \in DOMAIN tx : i # 1 => i - 1 \in DOMAIN tx' /\ tx'[i - 1] = tx[i]
           /\ \A i \in DOMAIN tx : i \in Nat /\ i >= 1 /\ tx[i] \in Save
           /\ \A i \in DOMAIN tx' : tx'[i] \in Save
<1>1. tx \in Seq(Save)
  BY DEF TypeOK, Save
<1>2. /\ tx' \in Seq(Save)
      /\ DOMAIN tx' = 1..(Len(tx) - 1) /\ DOMAIN tx = 1..Len(tx) /\ Len(tx) \in Nat \ {0}
      /\ \A i \in 1..(Len(tx) - 1) : tx'[i] = tx[i + 1]
      /\ Head(tx) = tx[1] /\ tx[1] \in Save
  BY <1>1, TailOf
<1>3. tx[1].by \in Ops \cup {Disposer} /\ tx[1].room \in Rooms /\ tx[1].st \in State
  BY <1>2 DEF Save
<1> DEFINE n == Len(tx)
<1>4. /\ n \in Nat \ {0} /\ DOMAIN tx = 1..n /\ DOMAIN tx' = 1..(n - 1)
      /\ \A i \in 1..(n - 1) : tx'[i] = tx[i + 1]
      /\ \A i \in 1..n : tx[i] \in Save
  BY <1>1, <1>2
<1> HIDE DEF n
<1>5. \A i \in DOMAIN tx' : i \in Nat /\ i >= 1 /\ i + 1 \in DOMAIN tx /\ tx'[i] = tx[i + 1]
  BY <1>4
<1>6. \A i \in DOMAIN tx : i # 1 => i - 1 \in DOMAIN tx' /\ tx'[i - 1] = tx[i]
  <2> SUFFICES ASSUME NEW i \in 1..n, i # 1 PROVE i - 1 \in DOMAIN tx' /\ tx'[i - 1] = tx[i]
    BY <1>4
  <2>1. i - 1 \in 1..(n - 1) /\ (i - 1) + 1 = i
    BY <1>4
  <2> QED
    BY <1>4, <2>1
<1>7. 1 \in DOMAIN tx /\ \A i \in DOMAIN tx : i \in Nat /\ i >= 1 /\ tx[i] \in Save
  BY <1>4
<1>8. \A i \in DOMAIN tx' : tx'[i] \in Save
  BY <1>4, <1>5
<1> QED
  BY <1>2, <1>3, <1>5, <1>6, <1>7, <1>8

\* The save's caller goes on.
LEMMA SavedDoes ==
    ASSUME TypeOK, NEW who \in Ops \cup {Disposer}, Saved(who)
    PROVE  /\ op' \in [Ops -> Calls]
           /\ disposal' \in [pc : {"none", "sweeping", "saving", "failed", "done"}, seen : SUBSET Rooms]
           /\ who \in Ops => IsOver(who) /\ disposal' = disposal
           /\ who = Disposer => op' = op /\ disposal'.pc = "sweeping" /\ disposal'.seen = disposal.seen
<1>1. /\ op \in [Ops -> Calls]
      /\ disposal \in [pc : {"none", "sweeping", "saving", "failed", "done"}, seen : SUBSET Rooms]
  BY DEF TypeOK
<1>2. Disposer \notin Ops
  BY Names
<1>3. CASE who = Disposer
  BY <1>1, <1>2, <1>3 DEF Saved
<1>4. CASE who \in Ops
  <2>1. Returns(who) /\ disposal' = disposal
    BY <1>2, <1>4 DEF Saved
  <2>2. IsOver(who)
    BY <1>4, <2>1, ReturnsIsOver
  <2> QED
    BY <1>1, <1>2, <1>4, <2>1, <2>2 DEF IsOver
<1> QED
  BY <1>3, <1>4

LEMMA SaveCommitsTypes ==
    ASSUME TypeOK, SaveCommits
    PROVE  TypeOK'
<1>1. Typed
  BY TypedIs
<1> SUFFICES Typed'
  BY TypedNext
<1>2. /\ tx' \in Seq(Save) /\ tx[1].by \in Ops \cup {Disposer} /\ tx[1].room \in Rooms
      /\ tx[1].st \in State /\ Head(tx) = tx[1]
  BY HeadOfQueue DEF SaveCommits
<1>3. /\ op' \in [Ops -> Calls]
      /\ disposal' \in [pc : {"none", "sweeping", "saving", "failed", "done"}, seen : SUBSET Rooms]
  BY <1>2, SavedDoes DEF SaveCommits
<1>4. idb' \in [Rooms -> State \cup {None}] /\ dirty' \subseteq Rooms
  BY <1>1, <1>2 DEF SaveCommits, Typed
<1> QED
  BY <1>1, <1>2, <1>3, <1>4 DEF SaveCommits, Typed, Save, initVars, groupVars, worldVars, boundVars

LEMMA SaveAbortsTypes ==
    ASSUME TypeOK, SaveAborts
    PROVE  TypeOK'
<1>1. Typed
  BY TypedIs
<1> SUFFICES Typed'
  BY TypedNext
<1>2. /\ tx' \in Seq(Save) /\ tx[1].by \in Ops \cup {Disposer} /\ tx[1].room \in Rooms
      /\ tx[1].st \in State /\ Head(tx) = tx[1]
  BY HeadOfQueue DEF SaveAborts
<1>3. /\ op' \in [Ops -> Calls] /\ dirty' \subseteq Rooms
      /\ disposal' \in [pc : {"none", "sweeping", "saving", "failed", "done"}, seen : SUBSET Rooms]
  <2>1. CASE Head(tx).by = Disposer /\ disposal' = [disposal EXCEPT !.pc = "failed"] /\ UNCHANGED <<op, dirty>>
    BY <1>1, <2>1 DEF Typed
  <2>2. CASE Head(tx).by # Disposer /\ Returns(Head(tx).by) /\ dirty' = dirty \cup {Head(tx).room} /\ UNCHANGED disposal
    BY <1>1, <1>2, <2>2, ReturnsIsOver DEF Typed, IsOver
  <2> QED
    BY <2>1, <2>2 DEF SaveAborts
<1>4. faults' \in 0..MaxFaults
  BY FaultTypes DEF SaveAborts
<1> QED
  BY <1>1, <1>2, <1>3, <1>4 DEF SaveAborts, Typed, Save, initVars, groupVars, worldVars, boundVars

SavesOf(r) == {i \in DOMAIN tx : tx[i].room = r}

\* The in-memory store takes over with the newest save of each room.
LEMMA FallbackTakes ==
    ASSUME TypeOK, SaveFallsBack
    PROVE  /\ fallback' \in [Rooms -> State \cup {None}]
           /\ \A r \in Rooms : SavesOf(r) = {} => fallback'[r] = fallback[r]
           /\ \A r \in Rooms : SavesOf(r) # {} =>
                  \E i \in SavesOf(r) : fallback'[r] = tx[i].st /\ \A j \in SavesOf(r) : j <= i
<1>1. tx \in Seq(Save) /\ fallback \in [Rooms -> State \cup {None}]
  BY DEF TypeOK, Save
<1>2. \A i \in DOMAIN tx : i \in Nat /\ tx[i] \in Save
  BY <1>1
<1>3. fallback' = [r \in Rooms |-> IF SavesOf(r) = {} THEN fallback[r] ELSE tx[Max(SavesOf(r))].st]
  BY DEF SaveFallsBack, SavesOf
<1>4. ASSUME NEW r \in Rooms, SavesOf(r) # {}
      PROVE  Max(SavesOf(r)) \in SavesOf(r) /\ \A j \in SavesOf(r) : j <= Max(SavesOf(r))
  <2> DEFINE S == SavesOf(r)
  <2>1. S \subseteq DOMAIN tx
    BY DEF SavesOf
  <2> HIDE DEF S
  <2>2. \E i \in S : \A j \in S : j <= i
    BY <1>1, <1>4, <2>1, LastPosition DEF S
  <2>3. \A i, j \in S : j <= i <=> i >= j
    BY <1>2, <2>1
  <2>4. \E i \in S : \A j \in S : i >= j
    BY <2>2, <2>3
  <2>5. Max(S) \in S /\ \A j \in S : Max(S) >= j
    BY <2>4 DEF Max
  <2> QED
    BY <2>3, <2>5 DEF S
<1>5. \A r \in Rooms : SavesOf(r) # {} => tx[Max(SavesOf(r))].st \in State
  BY <1>2, <1>4 DEF SavesOf, Save
<1> QED
  BY <1>1, <1>3, <1>4, <1>5

LEMMA FallsBackCalls ==
    ASSUME TypeOK, SaveFallsBack
    PROVE  /\ op' \in [Ops -> Calls]
           /\ \A o \in Ops : op[o].pc # "persist" => op'[o] = op[o]
           /\ \A o \in Ops : op[o].pc = "persist" => op'[o] = DoneCall
<1> DEFINE Gone == {o \in Ops : op[o].pc = "persist"}
<1>1. op' = [o \in Ops |-> IF o \in Gone THEN DoneCall ELSE op[o]]
  BY DEF SaveFallsBack, DoneCall
<1> QED
  BY <1>1, AllAreOver

LEMMA FallsBackDisposal ==
    ASSUME TypeOK, SaveFallsBack
    PROVE  /\ disposal' \in [pc : {"none", "sweeping", "saving", "failed", "done"}, seen : SUBSET Rooms]
           /\ disposal.pc = "saving" => disposal'.pc = "sweeping"
           /\ disposal.pc # "saving" => disposal'.pc = disposal.pc
<1>1. disposal \in [pc : {"none", "sweeping", "saving", "failed", "done"}, seen : SUBSET Rooms]
  BY DEF TypeOK
<1> QED
  BY <1>1 DEF SaveFallsBack

LEMMA SaveFallsBackTypes ==
    ASSUME TypeOK, SaveFallsBack
    PROVE  TypeOK'
<1>1. Typed
  BY TypedIs
<1> SUFFICES Typed'
  BY TypedNext
<1>2. fallback' \in [Rooms -> State \cup {None}] /\ op' \in [Ops -> Calls]
  BY FallbackTakes, FallsBackCalls
<1>3. disposal' \in [pc : {"none", "sweeping", "saving", "failed", "done"}, seen : SUBSET Rooms]
  BY FallsBackDisposal
<1>4. tx' \in Seq(Save) /\ dirty' \subseteq Rooms /\ useFallback' \in BOOLEAN
  BY <1>1 DEF SaveFallsBack, Typed
<1> QED
  BY <1>1, <1>2, <1>3, <1>4 DEF SaveFallsBack, Typed, Save, initVars, groupVars, worldVars, boundVars

LEMMA StoreTypes ==
    ASSUME TypeOK, Store
    PROVE  TypeOK'
<1>1. CASE IdbBecomesUnavailable
  <2>1. Typed /\ faults' \in 0..MaxFaults
    BY <1>1, TypedIs, FaultTypes DEF IdbBecomesUnavailable
  <2>2. Typed'
    BY <1>1, <2>1 DEF IdbBecomesUnavailable, Typed, pageVars, worldVars, historyVars
  <2> QED
    BY <2>2, TypedNext
<1> QED
  BY <1>1, SaveCommitsTypes, SaveAbortsTypes, SaveFallsBackTypes DEF Store

-----------------------------------------------------------------------------
(* The initialisation, KeyPackages, dispose(), the world and the page *)

LEMMA ReadTypes ==
    ASSUME TypeOK, NEW r \in Rooms
    PROVE  /\ Switched \in BOOLEAN /\ Read(r) \in State \cup {None}
           /\ Switched => Read(r) = fallback[r]
           /\ ~Switched => Read(r) = idb[r] /\ ~useFallback
<1>1. Typed
  BY TypedIs
<1>2. /\ useFallback \in BOOLEAN /\ idbUp \in BOOLEAN
      /\ fallback[r] \in State \cup {None} /\ idb[r] \in State \cup {None}
  BY <1>1 DEF Typed
<1> QED
  BY <1>2 DEF Switched, Read

LEMMA RoomLoadedDoes ==
    ASSUME TypeOK, NEW r \in Rooms, RoomLoaded(r)
    PROVE  /\ init = "restoring" /\ restoring = None /\ r \in toRestore
           /\ useFallback' = Switched /\ toRestore' = toRestore \ {r}
           /\ \/ /\ Read(r) \in State /\ restoring' = [room |-> r, st |-> Read(r)]
                 /\ Writes(r, Read(r))
                 /\ bound' \in [Rooms -> Groups \cup {None}] /\ bound'[r] = Read(r).gid
                 /\ \A q \in Rooms : q # r => bound'[q] = bound[q]
              \/ UNCHANGED <<restoring, mem, bound>>
           /\ UNCHANGED <<op, init, aead, pending, disposal, fallback, tx, idb, idbUp, package,
                          worldVars, historyVars, boundVars>>
<1>1. Typed
  BY TypedIs
<1>2. /\ init = "restoring" /\ restoring = None /\ r \in toRestore
      /\ useFallback' = Switched /\ toRestore' = toRestore \ {r}
      /\ UNCHANGED <<op, init, aead, pending, disposal, fallback, tx, idb, idbUp, package,
                     worldVars, historyVars, boundVars>>
  BY DEF RoomLoaded
<1>3. Read(r) \in State \cup {None}
  BY ReadTypes
<1>4. CASE /\ Read(r) # None
           /\ restoring' = [room |-> r, st |-> Read(r)]
           /\ mem' = [mem EXCEPT ![r] = Read(r)]
           /\ bound' = [bound EXCEPT ![r] = Read(r).gid]
  <2>1. Read(r) \in State
    BY <1>3, <1>4
  <2>2. Writes(r, Read(r))
    BY <1>4, <2>1, WritesState
  <2>3. Read(r).gid \in Groups
    BY <2>1 DEF State
  <2>4. /\ bound' \in [Rooms -> Groups \cup {None}] /\ bound'[r] = Read(r).gid
        /\ \A q \in Rooms : q # r => bound'[q] = bound[q]
    BY <1>1, <1>4, <2>3 DEF Typed
  <2> QED
    BY <1>2, <1>4, <2>1, <2>2, <2>4
<1>5. CASE Read(r) = None /\ UNCHANGED <<restoring, mem, bound>>
  BY <1>2, <1>5
<1> QED
  BY <1>4, <1>5 DEF RoomLoaded

LEMMA InitialiseTypes ==
    ASSUME TypeOK, Initialise
    PROVE  TypeOK'
<1>1. Typed
  BY TypedIs
<1> SUFFICES Typed'
  BY TypedNext
<1>2. CASE Imported
  BY <1>1, <1>2 DEF Imported, Typed, groupVars, storeVars, worldVars, historyVars, boundVars
<1>3. CASE RoomsListed
  <2>1. Switched \in BOOLEAN
    BY <1>1 DEF Typed, Switched
  <2> QED
    BY <1>1, <1>3, <2>1 DEF RoomsListed, Typed, groupVars, worldVars, historyVars, boundVars
<1>4. CASE RoomRestored
  <2>1. restoring \in Loaded
    BY <1>1, <1>4 DEF RoomRestored, Typed
  <2>2. aead' \in [Rooms -> State \cup {None}]
    BY <1>1, <1>4, <2>1 DEF RoomRestored, Typed, Loaded
  <2> QED
    BY <1>1, <1>4, <2>2 DEF RoomRestored, Typed, storeVars, worldVars, historyVars, boundVars
<1>5. CASE RestoreThrows
  <2>1. faults' \in 0..MaxFaults
    BY <1>5, FaultTypes DEF RestoreThrows
  <2> QED
    BY <1>1, <1>5, <2>1 DEF RestoreThrows, Typed, groupVars, storeVars, worldVars, historyVars
<1>6. CASE RestoreDone
  BY <1>1, <1>6 DEF RestoreDone, Typed, groupVars, storeVars, worldVars, historyVars, boundVars
<1>7. ASSUME NEW r \in Rooms, RoomLoaded(r) PROVE Typed'
  <2>1. Switched \in BOOLEAN
    BY ReadTypes
  <2>2. /\ mem' \in [Rooms -> State \cup {None}] /\ bound' \in [Rooms -> Groups \cup {None}]
        /\ restoring' \in Loaded \cup {None}
    <3>1. CASE /\ Read(r) \in State /\ restoring' = [room |-> r, st |-> Read(r)]
               /\ Writes(r, Read(r)) /\ bound' \in [Rooms -> Groups \cup {None}]
      BY <3>1 DEF Writes, Loaded
    <3>2. CASE UNCHANGED <<restoring, mem, bound>>
      BY <1>1, <3>2 DEF Typed
    <3> QED
      BY <1>7, <3>1, <3>2, RoomLoadedDoes
  <2> QED
    BY <1>1, <1>7, <2>1, <2>2, RoomLoadedDoes DEF Typed, worldVars, historyVars, boundVars
<1>8. ASSUME NEW r \in Rooms, RoomDropped(r) PROVE Typed'
  <2>1. Switched \in BOOLEAN
    BY ReadTypes
  <2>2. idb' \in [Rooms -> State \cup {None}] /\ fallback' \in [Rooms -> State \cup {None}]
    BY <1>1, <1>8 DEF RoomDropped, Typed
  <2>3. faults' \in 0..MaxFaults
    BY <1>8, FaultTypes DEF RoomDropped
  <2> QED
    BY <1>1, <1>8, <2>1, <2>2, <2>3 DEF RoomDropped, Typed, groupVars, worldVars, historyVars
<1> QED
  BY <1>2, <1>3, <1>4, <1>5, <1>6, <1>7, <1>8 DEF Initialise

LEMMA PublishTypes ==
    ASSUME TypeOK, NEW k \in Packages, Publish(k)
    PROVE  TypeOK'
<1>1. Typed
  BY TypedIs
<1> SUFFICES Typed'
  BY TypedNext
<1>2. CASE PublishTaken(k)
  <2>1. package' \in [Packages -> {"new", "posted", "held", "lost"}] /\ directory' \subseteq Packages
    BY <1>1, <1>2 DEF PublishTaken, Typed
  <2> QED
    BY <1>1, <1>2, <2>1 DEF PublishTaken, Typed, pageVars, historyVars, boundVars
<1>3. CASE PublishDone(k)
  <2>1. package' \in [Packages -> {"new", "posted", "held", "lost"}] /\ pending' \in Seq(Packages)
    BY <1>1, <1>3, Appended DEF PublishDone, Typed
  <2> QED
    BY <1>1, <1>3, <2>1 DEF PublishDone, Typed, initVars, groupVars, storeVars, worldVars, historyVars,
       boundVars
<1>4. CASE PublishAnswerLost(k)
  <2>1. package' \in [Packages -> {"new", "posted", "held", "lost"}] /\ faults' \in 0..MaxFaults
    BY <1>1, <1>4, FaultTypes DEF PublishAnswerLost, Typed
  <2> QED
    BY <1>1, <1>4, <2>1 DEF PublishAnswerLost, Typed, pageVars, worldVars, historyVars
<1> QED
  BY <1>2, <1>3, <1>4 DEF Publish

LEMMA DisposeTypes ==
    ASSUME TypeOK, Dispose
    PROVE  TypeOK'
<1>1. Typed
  BY TypedIs
<1> SUFFICES Typed'
  BY TypedNext
<1>2. CASE DisposeBegins
  <2>1. disposal' \in [pc : {"none", "sweeping", "saving", "failed", "done"}, seen : SUBSET Rooms]
    BY <1>2 DEF DisposeBegins
  <2> QED
    BY <1>1, <1>2, <2>1 DEF DisposeBegins, Typed, initVars, groupVars, storeVars, worldVars, historyVars,
       boundVars
<1>3. CASE DisposeEnds
  <2>1. disposal' \in [pc : {"none", "sweeping", "saving", "failed", "done"}, seen : SUBSET Rooms]
    BY <1>1, <1>3 DEF DisposeEnds, Typed
  <2>2. /\ mem' \in [Rooms -> State \cup {None}] /\ aead' \in [Rooms -> State \cup {None}]
        /\ bound' \in [Rooms -> Groups \cup {None}] /\ pending' \in Seq(Packages)
    BY <1>3 DEF DisposeEnds
  <2> QED
    BY <1>1, <1>3, <2>1, <2>2 DEF DisposeEnds, Typed, initVars, storeVars, worldVars, historyVars, boundVars
<1>4. ASSUME NEW r \in Rooms, SweepRoom(r) PROVE Typed'
  <2>1. CASE SavesInMemory(r) /\ disposal' = [disposal EXCEPT !.seen = @ \cup {r}]
    <3>1. disposal' \in [pc : {"none", "sweeping", "saving", "failed", "done"}, seen : SUBSET Rooms]
      BY <1>1, <2>1 DEF Typed
    <3>2. /\ fallback' \in [Rooms -> State \cup {None}] /\ dirty' \subseteq Rooms
          /\ useFallback' = useFallback /\ tx' = tx /\ idb' = idb /\ idbUp' = idbUp
      BY <1>1, <2>1, InMemoryTypes DEF Typed
    <3> QED
      BY <1>1, <1>4, <3>1, <3>2 DEF SweepRoom, Typed, initVars, groupVars, worldVars, boundVars
  <2>2. CASE RequestsSave(Disposer, r) /\ disposal' = [pc |-> "saving", seen |-> disposal.seen \cup {r}]
    <3>1. disposal' \in [pc : {"none", "sweeping", "saving", "failed", "done"}, seen : SUBSET Rooms]
      BY <1>1, <2>2 DEF Typed
    <3>2. /\ tx' \in Seq([by : Ops \cup {Disposer}, room : Rooms, st : State])
          /\ useFallback' = useFallback /\ fallback' = fallback /\ idb' = idb /\ idbUp' = idbUp
          /\ dirty' = dirty
      BY <2>2, RequestTypes
    <3> QED
      BY <1>1, <1>4, <3>1, <3>2 DEF SweepRoom, Typed, initVars, groupVars, worldVars, boundVars
  <2> QED
    BY <1>4, <2>1, <2>2 DEF SweepRoom
<1> QED
  BY <1>2, <1>3, <1>4 DEF Dispose

\* The service's log of a group grows by a commit of a peer's.
LEMMA PeerCommittedDoes ==
    ASSUME TypeOK, NEW g \in Groups, PeerCommitted(g)
    PROVE  /\ log' \in [Groups -> Seq(Ops \cup {Peer})] /\ LogGrows
           /\ log' = [log EXCEPT ![g] = Append(log[g], Peer)]
<1>1. log \in [Groups -> Seq(Ops \cup {Peer})] /\ log[g] \in Seq(Ops \cup {Peer})
  BY DEF TypeOK
<1>2. log' = [log EXCEPT ![g] = Append(log[g], Peer)]
  BY DEF PeerCommitted
<1>3. Append(log[g], Peer) \in Seq(Ops \cup {Peer}) /\ Len(log[g]) <= Len(Append(log[g], Peer))
  BY <1>1
<1>4. \A q \in Groups : Len(log[q]) \in Nat
  BY <1>1
<1> QED
  BY <1>1, <1>2, <1>3, <1>4 DEF LogGrows

LEMMA WorldTypes ==
    ASSUME TypeOK, World
    PROVE  TypeOK' /\ LogGrows
<1>1. Typed
  BY TypedIs
<1>2. ASSUME NEW g \in Groups, PeerCommits(g) PROVE Typed' /\ LogGrows
  BY <1>1, <1>2, PeerCommittedDoes DEF PeerCommits, Typed, pageVars, historyVars, boundVars
<1>3. ASSUME NEW g \in PeerGroups, NEW k \in Packages, PeerInvites(g, k) PROVE Typed' /\ LogGrows
  <2>1. g \in Groups
    BY DEF Groups
  <2>2. log' \in [Groups -> Seq(Ops \cup {Peer})] /\ LogGrows
    BY <1>3, <2>1, PeerCommittedDoes DEF PeerInvites
  <2>3. welcomes' \subseteq Welcome /\ directory' \subseteq Packages
    BY <1>1, <1>3, <2>1, <2>2 DEF PeerInvites, Typed, Welcome
  <2> QED
    BY <1>1, <1>3, <2>2, <2>3 DEF PeerInvites, Typed, pageVars, historyVars, boundVars
<1>4. Typed' /\ LogGrows
  BY <1>2, <1>3 DEF World
<1> QED
  BY <1>4, TypedNext

LEMMA ReloadCalls ==
    ASSUME TypeOK, Reload
    PROVE  /\ op' \in [Ops -> Calls]
           /\ \A o \in Ops : op'[o] = IF Active(o) THEN DoneCall ELSE op[o]
<1> DEFINE Gone == {o \in Ops : Active(o)}
<1>1. op' = [o \in Ops |-> IF o \in Gone THEN DoneCall ELSE op[o]]
  BY DEF Reload, DoneCall
<1> QED
  BY <1>1, AllAreOver

LEMMA ReloadTypes ==
    ASSUME TypeOK, Reload
    PROVE  TypeOK'
<1>1. Typed
  BY TypedIs
<1> SUFFICES Typed'
  BY TypedNext
<1>2. op' \in [Ops -> Calls]
  BY ReloadCalls
<1>3. package' \in [Packages -> {"new", "posted", "held", "lost"}]
  BY DEF Reload
<1>4. /\ pending' \in Seq(Packages) /\ tx' \in Seq(Save)
      /\ disposal' \in [pc : {"none", "sweeping", "saving", "failed", "done"}, seen : SUBSET Rooms]
  BY DEF Reload
<1>5. reloads' \in 0..MaxReloads
  BY <1>1, Names DEF Reload, Typed
<1>6. /\ mem' \in [Rooms -> State \cup {None}] /\ aead' \in [Rooms -> State \cup {None}]
      /\ fallback' \in [Rooms -> State \cup {None}] /\ bound' \in [Rooms -> Groups \cup {None}]
  BY DEF Reload
<1>7. /\ init' = "none" /\ toRestore' = {} /\ restoring' = None /\ useFallback' = FALSE /\ idbUp' = TRUE
      /\ dirty' = {} /\ overlapped' = {} /\ UNCHANGED <<idb, worldVars, faults>>
  BY DEF Reload
<1> QED
  BY <1>1, <1>2, <1>3, <1>4, <1>5, <1>6, <1>7 DEF Typed, Save, worldVars

-----------------------------------------------------------------------------
(* Types and shapes together *)

\* All the calls that are not as before are over.
CallsOver == \A o \in Ops : op'[o] = op[o] \/ (op'[o].kind = "none" /\ op'[o].pc = "done" /\ op'[o].st = None)

LEMMA QuietShapes ==
    ASSUME TypeOK, TypeOK', Shapes, CallsOver, welcomes \subseteq welcomes', LogGrows
    PROVE  Shapes'
<1> SUFFICES ASSUME NEW o \in Ops PROVE CallShape(o)'
  BY DEF Shapes
<1>1. CASE op'[o] = op[o]
  BY <1>1, ShapeStays DEF Shapes
<1>2. CASE op'[o].kind = "none" /\ op'[o].pc = "done" /\ op'[o].st = None
  BY <1>2, OverShape
<1> QED
  BY <1>1, <1>2 DEF CallsOver

LEMMA NextTypes ==
    ASSUME TypeOK, Shapes, Next
    PROVE  TypeOK'
<1>1. ASSUME NEW o \in Ops, Call(o) PROVE TypeOK'
  BY <1>1, CallTypes, CallDoes, CallFaults DEF Shapes
<1> QED
  BY <1>1, StoreTypes, InitialiseTypes, PublishTypes, DisposeTypes, WorldTypes, ReloadTypes DEF Next

LEMMA OnlyCallsMove ==
    ASSUME TypeOK, Store \/ Initialise \/ Dispose \/ World \/ Reload \/ (\E k \in Packages : Publish(k))
    PROVE  CallsOver /\ welcomes \subseteq welcomes' /\ LogGrows
<1>1. CASE Store
  <2>1. welcomes' = welcomes /\ log' = log
    BY <1>1 DEF Store, SaveCommits, SaveAborts, SaveFallsBack, IdbBecomesUnavailable, worldVars
  <2>2. CASE SaveCommits
    <3>1. Head(tx).by \in Ops \cup {Disposer}
      BY <2>2, HeadOfQueue DEF SaveCommits
    <3> QED
      BY <2>1, <2>2, <3>1, SavedDoes, LogStays DEF SaveCommits, CallsOver, IsOver, OthersStay
  <2>3. CASE SaveAborts
    <3>1. Head(tx).by \in Ops \cup {Disposer}
      BY <2>3, HeadOfQueue DEF SaveAborts
    <3>2. op' = op \/ (Head(tx).by \in Ops /\ IsOver(Head(tx).by))
      BY <2>3, <3>1, ReturnsIsOver DEF SaveAborts
    <3> QED
      BY <2>1, <3>2, LogStays DEF CallsOver, IsOver, OthersStay
  <2>4. CASE SaveFallsBack
    BY <2>1, <2>4, FallsBackCalls, DoneCallFields, LogStays DEF CallsOver
  <2>5. CASE IdbBecomesUnavailable
    BY <2>1, <2>5, LogStays DEF IdbBecomesUnavailable, CallsOver
  <2> QED
    BY <1>1, <2>2, <2>3, <2>4, <2>5 DEF Store
<1>2. CASE Initialise
  <2>1. op' = op /\ welcomes' = welcomes /\ log' = log
    BY <1>2 DEF Initialise, Imported, RoomsListed, RoomRestored, RestoreThrows, RestoreDone, RoomLoaded,
       RoomDropped, worldVars
  <2> QED
    BY <2>1, LogStays DEF CallsOver
<1>3. CASE \E k \in Packages : Publish(k)
  <2>1. op' = op /\ welcomes' = welcomes /\ log' = log
    BY <1>3 DEF Publish, PublishTaken, PublishDone, PublishAnswerLost, worldVars
  <2> QED
    BY <2>1, LogStays DEF CallsOver
<1>4. CASE Dispose
  <2>1. op' = op /\ welcomes' = welcomes /\ log' = log
    BY <1>4 DEF Dispose, DisposeBegins, DisposeEnds, SweepRoom, worldVars
  <2> QED
    BY <2>1, LogStays DEF CallsOver
<1>5. CASE World
  <2>1. op' = op /\ welcomes \subseteq welcomes'
    BY <1>5 DEF World, PeerCommits, PeerInvites
  <2> QED
    BY <1>5, <2>1, WorldTypes DEF CallsOver
<1>6. CASE Reload
  <2>1. welcomes' = welcomes /\ log' = log
    BY <1>6 DEF Reload, worldVars
  <2> QED
    BY <1>6, <2>1, ReloadCalls, DoneCallFields, LogStays DEF CallsOver
<1> QED
  BY <1>1, <1>2, <1>3, <1>4, <1>5, <1>6

LEMMA NextShapes ==
    ASSUME TypeOK, Shapes, Next
    PROVE  TypeOK' /\ Shapes'
<1>0. TypeOK'
  BY NextTypes
<1>1. ASSUME NEW o \in Ops, Call(o) PROVE Shapes'
  BY <1>0, <1>1, CallDoes, CallShapes DEF Shapes
<1>2. CASE Store \/ Initialise \/ Dispose \/ World \/ Reload \/ (\E k \in Packages : Publish(k))
  BY <1>0, <1>2, OnlyCallsMove, QuietShapes
<1> QED
  BY <1>0, <1>1, <1>2 DEF Next

-----------------------------------------------------------------------------
(* The initialisation comes first *)

\* Every step but a call's, with what it needs of the invariant.
Others == Store \/ Initialise \/ Dispose \/ World \/ Reload \/ \E k \in Packages : Publish(k)

\* What no call and no save but dispose()'s touches.
LEMMA AfterInit ==
    ASSUME TypeOK, RestoreComesFirst, init' = init, restoring' = restoring,
           init \notin {"none", "listing", "restoring"}
    PROVE  RestoreComesFirst'
  BY DEF RestoreComesFirst, TypeOK

LEMMA CallsAfterInit ==
    ASSUME AppAwaitsInit, TypeOK, RestoreComesFirst, NEW o \in Ops, CallSteps(o)
    PROVE  init \notin {"none", "listing", "restoring"} /\ restoring = None /\ init' = init
           /\ restoring' = None
<1>1. init \notin {"none", "listing", "restoring"}
  <2>1. CASE StartsCall(o)
    BY <2>1 DEF StartsCall, HasManager
  <2>2. CASE ~StartsCall(o)
    <3>1. op[o].pc \in {"load", "mls", "fetch", "commit", "welcome", "send", "apply"}
      BY <2>2 DEF CallSteps, CallEnds, TakesPackage, Advances, Transition, Sends, Installs, Installation,
         At, WritesCommit, SealsAndSaves
    <3> QED
      BY <3>1 DEF RestoreComesFirst, Active
  <2> QED
    BY <2>1, <2>2
<1>2. init' = init /\ restoring' = restoring
  BY DEF CallSteps, StartsCall, CallEnds, TakesPackage, Advances, Installs, WritesCommit, SealsAndSaves,
     initVars, pageVars
<1> QED
  BY <1>1, <1>2 DEF RestoreComesFirst

LEMMA RestoreFrame ==
    ASSUME RestoreComesFirst,
           UNCHANGED <<op, tx, dirty, overlapped, disposal, mem, bound, aead, init, toRestore, restoring>>
    PROVE  RestoreComesFirst'
  BY DEF RestoreComesFirst, Active

LEMMA OthersComeLater ==
    ASSUME AppAwaitsInit, TypeOK, Shapes, TypeOK', RestoreComesFirst, Others
    PROVE  RestoreComesFirst'
<1>1. CASE Store
  <2>1. CASE IdbBecomesUnavailable
    BY <2>1, RestoreFrame DEF IdbBecomesUnavailable, pageVars, historyVars
  <2>2. CASE SaveCommits \/ SaveAborts \/ SaveFallsBack
    <3>1. init' = init /\ restoring' = restoring /\ tx # <<>>
      BY <2>2 DEF SaveCommits, SaveAborts, SaveFallsBack, initVars
    <3>2. init \notin {"none", "listing", "restoring"}
      BY <3>1 DEF RestoreComesFirst
    <3> QED
      BY <3>1, <3>2, AfterInit
  <2> QED
    BY <1>1, <2>1, <2>2 DEF Store
<1>2. CASE Initialise
  <2>1. CASE Imported
    BY <2>1 DEF Imported, RestoreComesFirst, Active, groupVars, storeVars, historyVars
  <2>2. CASE RoomsListed
    BY <2>2 DEF RoomsListed, RestoreComesFirst, Active, groupVars, historyVars
  <2>3. CASE RoomRestored
    <3>1. restoring \in Loaded /\ restoring.room \in Rooms /\ aead \in [Rooms -> State \cup {None}]
      BY <2>3 DEF RoomRestored, TypeOK, Loaded
    <3>2. /\ aead' = [aead EXCEPT ![restoring.room] = restoring.st] /\ restoring' = None
          /\ UNCHANGED <<op, init, toRestore, mem, bound, disposal, tx, dirty, overlapped>>
      BY <2>3 DEF RoomRestored, storeVars, historyVars
    <3>3. init = "restoring" /\ mem[restoring.room] = restoring.st
      BY <2>3 DEF RoomRestored, RestoreComesFirst
    <3>4. ASSUME NEW r \in Rooms, mem[r] # None PROVE aead'[r] = mem[r]
      <4>1. CASE r = restoring.room
        BY <3>1, <3>2, <3>3, <4>1
      <4>2. CASE r # restoring.room
        <5>1. aead[r] = mem[r] \/ restoring = [room |-> r, st |-> mem[r]]
          BY <3>3, <3>4 DEF RestoreComesFirst
        <5> QED
          BY <3>1, <3>2, <4>2, <5>1
      <4> QED
        BY <4>1, <4>2
    <3> QED
      BY <3>2, <3>3, <3>4 DEF RestoreComesFirst, Active
  <2>4. CASE RestoreThrows \/ RestoreDone
    BY <2>4 DEF RestoreThrows, RestoreDone, RestoreComesFirst
  <2>5. ASSUME NEW r \in Rooms, RoomLoaded(r) PROVE RestoreComesFirst'
    <3>1. /\ init = "restoring" /\ restoring = None /\ r \in toRestore /\ toRestore' = toRestore \ {r}
          /\ UNCHANGED <<op, init, aead, disposal, tx, dirty, overlapped>>
      BY <2>5, RoomLoadedDoes DEF historyVars
    <3>2. /\ \A p \in Ops : ~Active(p)
          /\ tx = <<>> /\ dirty = {} /\ overlapped = {} /\ disposal.pc = "none"
          /\ \A q \in Rooms : q \in toRestore => mem[q] = None /\ bound[q] = None
          /\ \A q \in Rooms : mem[q] # None => aead[q] = mem[q]
      <4>1. ASSUME NEW q \in Rooms, mem[q] # None PROVE restoring # [room |-> q, st |-> mem[q]]
        <5>1. mem[q] \in State
          BY <4>1 DEF TypeOK
        <5>2. [room |-> q, st |-> mem[q]] \in Loaded
          BY <5>1 DEF Loaded
        <5> QED
          BY <3>1, <5>2, Names
      <4> QED
        BY <3>1, <4>1 DEF RestoreComesFirst
    <3>3. CASE /\ Read(r) \in State /\ restoring' = [room |-> r, st |-> Read(r)]
               /\ Writes(r, Read(r)) /\ \A q \in Rooms : q # r => bound'[q] = bound[q]
      BY <3>1, <3>2, <3>3 DEF RestoreComesFirst, Active, Writes
    <3>4. CASE UNCHANGED <<restoring, mem, bound>>
      BY <3>1, <3>2, <3>4 DEF RestoreComesFirst, Active
    <3> QED
      BY <2>5, <3>3, <3>4, RoomLoadedDoes
  <2>6. ASSUME NEW r \in Rooms, RoomDropped(r) PROVE RestoreComesFirst'
    <3>1. /\ init = "restoring" /\ restoring = None /\ r \in toRestore /\ toRestore' = toRestore \ {r}
          /\ UNCHANGED <<op, init, restoring, mem, bound, aead, disposal, tx, dirty, overlapped>>
      BY <2>6 DEF RoomDropped, groupVars, historyVars
    <3> QED
      BY <3>1 DEF RestoreComesFirst, Active
  <2> QED
    BY <1>2, <2>1, <2>2, <2>3, <2>4, <2>5, <2>6 DEF Initialise
<1>3. CASE Dispose
  <2>1. init \notin {"none", "listing", "restoring"}
    BY <1>3 DEF Dispose, DisposeBegins, DisposeEnds, SweepRoom, HasManager, RestoreComesFirst
  <2>2. init' = init /\ restoring' = restoring
    BY <1>3 DEF Dispose, DisposeBegins, DisposeEnds, SweepRoom, initVars
  <2> QED
    BY <2>1, <2>2, AfterInit
<1>4. CASE World
  BY <1>4, RestoreFrame DEF World, PeerCommits, PeerInvites, pageVars, historyVars
<1>5. CASE Reload
  <2>1. \A o \in Ops : ~Active(o)'
    BY <1>5, ReloadCalls, DoneCallFields DEF Active
  <2> QED
    BY <1>5, <2>1 DEF Reload, RestoreComesFirst
<1>6. CASE \E k \in Packages : Publish(k)
  BY <1>6, RestoreFrame DEF Publish, PublishTaken, PublishDone, PublishAnswerLost, pageVars, initVars,
     groupVars, storeVars, historyVars
<1> QED
  BY <1>1, <1>2, <1>3, <1>4, <1>5, <1>6 DEF Others

LEMMA RestoreKept ==
    ASSUME AppAwaitsInit, MlsInv, TypeOK', Others \/ \E o \in Ops : CallSteps(o)
    PROVE  RestoreComesFirst'
<1>1. TypeOK /\ Shapes /\ RestoreComesFirst
  BY DEF MlsInv
<1>2. ASSUME NEW o \in Ops, CallSteps(o) PROVE RestoreComesFirst'
  BY <1>1, <1>2, CallsAfterInit, AfterInit
<1> QED
  BY <1>1, <1>2, OthersComeLater

-----------------------------------------------------------------------------
(* Bindings *)

RoomsBound == \A r \in Rooms : mem[r] # None => bound[r] # None

\* Memory and bindings only grow.
Grows == \A r \in Rooms : (mem[r] # None => mem'[r] # None) /\ (bound[r] # None => bound'[r] # None)

LEMMA CallBoundStays ==
    ASSUME TypeOK, NEW p \in Ops, CallShape(p), CallBound(p), Grows,
           op'[p] = op[p] \/ (op'[p].kind = "none" /\ op'[p].pc = "done")
    PROVE  CallBound(p)'
<1>1. CASE op'[p] = op[p]
  <2>1. op[p].pc \notin {"idle", "done"} => op[p].room \in Rooms
    BY DEF CallShape, Active
  <2> QED
    BY <1>1, <2>1 DEF CallBound, Grows
<1>2. CASE op'[p].kind = "none" /\ op'[p].pc = "done"
  BY <1>2 DEF CallBound, Writers
<1> QED
  BY <1>1, <1>2

\* An entry of a function of rooms is changed.
LEMMA EntryChanged ==
    ASSUME NEW f, NEW S, f \in [Rooms -> S], NEW r \in Rooms, NEW v, NEW g, g = [f EXCEPT ![r] = v]
    PROVE  g[r] = v /\ \A q \in Rooms : q # r => g[q] = f[q]
OBVIOUS

LEMMA CallBindings ==
    ASSUME TypeOK, Shapes, TypeOK', NEW o \in Ops, CallSteps(o), Bindings
    PROVE  Bindings'
<1>1. disposal' = disposal /\ OthersStay(o)
  BY DEF CallSteps, StartsCall, CallEnds, TakesPackage, Advances, Installs, WritesCommit, SealsAndSaves,
     pageVars, GoesOn, IsOver
<1> SUFFICES ASSUME ~Disposed PROVE RoomsBound' /\ \A p \in Ops : CallBound(p)'
  BY <1>1 DEF Bindings, Disposed, RoomsBound
<1>2. RoomsBound /\ \A p \in Ops : CallBound(p) /\ CallShape(p)
  BY DEF Bindings, RoomsBound, Shapes
<1>t. mem \in [Rooms -> State \cup {None}] /\ bound \in [Rooms -> Groups \cup {None}]
  BY DEF TypeOK
<1>3. SUFFICES Grows /\ RoomsBound' /\ CallBound(o)'
  <2>1. ASSUME NEW p \in Ops, Grows, CallBound(o)' PROVE CallBound(p)'
    <3>1. CASE p = o
      BY <2>1, <3>1
    <3>2. CASE p # o
      BY <1>1, <1>2, <2>1, <3>2, CallBoundStays DEF OthersStay
    <3> QED
      BY <3>1, <3>2
  <2> QED
    BY <2>1
<1>4. CASE mem' = mem /\ bound' = bound /\ IsOver(o)
  BY <1>2, <1>4 DEF Grows, RoomsBound, IsOver, CallBound, Writers
<1>5. CASE StartsCall(o)
  <2>1. mem' = mem /\ bound' = bound /\ op'[o].pc = "load"
    BY <1>5 DEF StartsCall, pageVars
  <2> QED
    BY <1>2, <2>1 DEF Grows, RoomsBound, CallBound
<1>6. CASE TakesPackage(o)
  <2>1. op[o].room \in Rooms
    BY <1>2, <1>6 DEF TakesPackage, CallShape, Active
  <2>2. CASE op[o].kind = "create"
    <3>1. bound'[op[o].room] = o /\ \A q \in Rooms : q # op[o].room => bound'[q] = bound[q]
      BY <1>t, <1>6, <2>1, <2>2 DEF TakesPackage
    <3>2. o # None
      BY Names DEF Groups
    <3> QED
      BY <1>2, <1>6, <2>1, <2>2, <3>1, <3>2 DEF TakesPackage, Grows, RoomsBound, CallBound, Writers
  <2>3. CASE op[o].kind = "welcome"
    BY <1>2, <1>6, <2>3 DEF TakesPackage, Grows, RoomsBound, CallBound, Writers
  <2> QED
    BY <1>6, <2>2, <2>3 DEF TakesPackage
<1>7. CASE Advances(o)
  <2>1. PICK pc \in Stages, st \in State : GoesOn(o, pc, st) /\ Transition(o, pc, st)
    BY <1>7 DEF Advances
  <2>2. mem' = mem /\ bound' = bound
    BY <1>7 DEF Advances
  <2>3. op'[o].kind = op[o].kind /\ op'[o].room = op[o].room /\ op'[o].pc = pc
    BY <2>1 DEF GoesOn
  <2>4. CallBound(o) /\ CallShape(o)
    BY <1>2
  <2>5. op[o].room \in Rooms
    BY <2>1, <2>4 DEF Transition, Sends, CallShape, Active
  <2>6. op[o].kind \in Writers \cup {"message"} => mem[op[o].room] # None
    BY <2>1, <2>4 DEF Transition, Sends, CallBound, CallShape
  <2>7. op[o].kind = "create" => bound[op[o].room] # None
    BY <2>1, <2>4 DEF Transition, Sends, CallBound, CallShape
  <2>8. pc = "apply" => op[o].kind \in Writers
    BY <2>1 DEF Transition
  <2>9. CallBound(o)'
    BY <1>2, <2>2, <2>3, <2>5, <2>6, <2>7, <2>8 DEF CallBound, RoomsBound
  <2> QED
    BY <1>2, <2>2, <2>9 DEF Grows, RoomsBound
<1>8. CASE Installs(o)
  <2>1. PICK st \in State : GoesOn(o, "apply", st) /\ Writes(op[o].room, st) /\ Installation(o, st)
    BY <1>8 DEF Installs
  <2> DEFINE r == op[o].room
  <2>2. r \in Rooms
    BY <1>2, <2>1 DEF Installation, At, Sends, CallShape, Active
  <2>3. st # None /\ st.gid # None
    BY Names DEF State
  <2>4. mem'[r] = st /\ \A q \in Rooms : q # r => mem'[q] = mem[q]
    BY <2>1 DEF Writes
  <2>5. bound'[r] # None /\ \A q \in Rooms : q # r => bound'[q] = bound[q]
    <3>1. CASE op[o].kind = "create" /\ bound' = bound /\ op[o].pc \in {"mls", "send"}
      BY <1>2, <3>1 DEF CallBound
    <3>2. CASE bound' = [bound EXCEPT ![r] = st.gid]
      BY <1>t, <2>2, <2>3, <3>2
    <3>3. CASE At(o, "message", "mls") /\ bound' = bound
      <4>1. mem[r] # None
        BY <1>2, <3>3 DEF CallBound, At
      <4> QED
        BY <1>2, <2>2, <3>3, <4>1 DEF RoomsBound
    <3> QED
      BY <2>1, <3>1, <3>2, <3>3 DEF Installation, Sends
  <2>6. op'[o].room = r /\ op'[o].pc = "apply"
    BY <2>1 DEF GoesOn
  <2> HIDE DEF r
  <2> QED
    BY <1>2, <2>2, <2>3, <2>4, <2>5, <2>6 DEF Grows, RoomsBound, CallBound
<1>9. CASE WritesCommit(o)
  <2> DEFINE r == op[o].room
  <2>1. /\ r \in Rooms /\ op[o].pc = "commit" /\ op[o].kind \in Writers /\ mem[r] # None
    BY <1>2, <1>9 DEF WritesCommit, CallShape, Active, CallBound
  <2>2. Committed(o) # None
    BY <1>9, Names DEF WritesCommit
  <2>3. mem'[r] = Committed(o) /\ \A q \in Rooms : q # r => mem'[q] = mem[q]
    BY <1>9 DEF WritesCommit, Writes
  <2>4. bound' = bound
    BY <1>9 DEF WritesCommit
  <2>5. op'[o].room = r /\ op'[o].pc \in {"send", "welcome"} /\ op'[o].kind = op[o].kind
    BY <1>9 DEF WritesCommit, GoesOn
  <2> HIDE DEF r
  <2> QED
    BY <1>2, <2>1, <2>2, <2>3, <2>4, <2>5 DEF Grows, RoomsBound, CallBound, Writers
<1>10. CASE SealsAndSaves(o) /\ GoesOn(o, "persist", op[o].st)
  <2>1. mem' = mem /\ bound' = bound /\ op'[o].pc = "persist"
    BY <1>10 DEF SealsAndSaves, GoesOn
  <2> QED
    BY <1>2, <2>1 DEF Grows, RoomsBound, CallBound
<1> QED
  BY <1>4, <1>5, <1>6, <1>7, <1>8, <1>9, <1>10 DEF CallSteps, CallEnds, SealsAndSaves

\* Steps that leave memory and bindings alone, and start no call.
LEMMA QuietBindings ==
    ASSUME TypeOK, Shapes, Bindings, CallsOver, mem' = mem, bound' = bound, Disposed => Disposed'
    PROVE  Bindings'
<1>1. ASSUME ~Disposed' PROVE RoomsBound' /\ \A p \in Ops : CallBound(p)'
  <2>1. ~Disposed
    BY <1>1
  <2>2. Grows
    BY DEF Grows
  <2> QED
    BY <2>1, <2>2, CallBoundStays DEF Bindings, RoomsBound, CallsOver, Shapes
<1> QED
  BY <1>1 DEF Bindings, RoomsBound

LEMMA StoreDisposal ==
    ASSUME TypeOK, Queue, Store
    PROVE  /\ UNCHANGED <<initVars, groupVars, pending, package, worldVars, overlapped, reloads>>
           /\ Disposed => Disposed'
           /\ disposal.pc = "none" => disposal'.pc = "none"
<1>1. CASE SaveCommits
  <2>1. Head(tx) = tx[1] /\ 1 \in DOMAIN tx /\ tx[1].by \in Ops \cup {Disposer}
    BY <1>1, HeadOfQueue DEF SaveCommits
  <2>2. tx[1].by = Disposer => disposal.pc = "saving"
    BY <2>1 DEF Queue
  <2> QED
    BY <1>1, <2>1, <2>2, SavedDoes DEF SaveCommits, Disposed, boundVars
<1>2. CASE SaveAborts
  <2>1. Head(tx) = tx[1] /\ 1 \in DOMAIN tx /\ tx[1].by \in Ops \cup {Disposer}
    BY <1>2, HeadOfQueue DEF SaveAborts
  <2>2. tx[1].by = Disposer => disposal.pc = "saving"
    BY <2>1 DEF Queue
  <2> QED
    BY <1>2, <2>1, <2>2 DEF SaveAborts, Disposed
<1>3. CASE SaveFallsBack
  BY <1>3, FallsBackDisposal DEF SaveFallsBack, Disposed, boundVars
<1>4. CASE IdbBecomesUnavailable
  BY <1>4 DEF IdbBecomesUnavailable, Disposed, pageVars, initVars, groupVars, historyVars
<1> QED
  BY <1>1, <1>2, <1>3, <1>4 DEF Store

LEMMA BindingsKept ==
    ASSUME MlsInv, TypeOK', Others \/ \E o \in Ops : CallSteps(o)
    PROVE  Bindings'
<1>0. TypeOK /\ Shapes /\ Bindings /\ Queue /\ RestoreComesFirst
  BY DEF MlsInv
<1>1. ASSUME NEW o \in Ops, CallSteps(o) PROVE Bindings'
  BY <1>0, <1>1, CallBindings
<1>2. CASE Others
  <2>0. CallsOver
    BY <1>0, <1>2, OnlyCallsMove DEF Others
  <2>1. CASE Store
    BY <1>0, <2>0, <2>1, StoreDisposal, QuietBindings DEF groupVars
  <2>2. CASE Initialise
    <3>1. CASE Imported \/ RoomsListed \/ RoomRestored \/ RestoreThrows \/ RestoreDone \/ \E r \in Rooms : RoomDropped(r)
      <4>1. mem' = mem /\ bound' = bound /\ disposal' = disposal
        BY <3>1 DEF Imported, RoomsListed, RoomRestored, RestoreThrows, RestoreDone, RoomDropped, groupVars
      <4> QED
        BY <1>0, <2>0, <4>1, QuietBindings DEF Disposed
    <3>2. ASSUME NEW r \in Rooms, RoomLoaded(r) PROVE Bindings'
      <4>1. disposal' = disposal /\ op' = op
        BY <1>0, <3>2, RoomLoadedDoes
      <4>2. CASE mem' = mem /\ bound' = bound
        BY <1>0, <2>0, <4>1, <4>2, QuietBindings DEF Disposed
      <4>3. CASE Read(r) \in State /\ Writes(r, Read(r)) /\ bound'[r] = Read(r).gid
                 /\ \A q \in Rooms : q # r => bound'[q] = bound[q]
        <5>1. Read(r) # None /\ Read(r).gid # None
          BY <4>3, Names DEF State
        <5>2. Grows /\ (RoomsBound => RoomsBound')
          BY <4>3, <5>1 DEF Grows, RoomsBound, Writes
        <5>3. \A p \in Ops : CallBound(p) => CallBound(p)'
          BY <1>0, <4>1, <5>2, CallBoundStays DEF Shapes
        <5> QED
          BY <1>0, <4>1, <5>2, <5>3 DEF Bindings, RoomsBound, Disposed
      <4> QED
        BY <1>0, <3>2, <4>2, <4>3, RoomLoadedDoes
    <3> QED
      BY <2>2, <3>1, <3>2 DEF Initialise
  <2>3. CASE Dispose
    <3>1. CASE DisposeEnds
      <4>1. Disposed'
        BY <1>0, <3>1 DEF DisposeEnds, Disposed, TypeOK
      <4> QED
        BY <4>1 DEF Bindings
    <3>2. CASE DisposeBegins \/ \E r \in Rooms : SweepRoom(r)
      <4>1. mem' = mem /\ bound' = bound /\ disposal.pc \in {"none", "sweeping"}
        BY <3>2 DEF DisposeBegins, SweepRoom, groupVars
      <4> QED
        BY <1>0, <2>0, <4>1, QuietBindings DEF Disposed
    <3> QED
      BY <2>3, <3>1, <3>2 DEF Dispose
  <2>4. CASE World
    <3>1. mem' = mem /\ bound' = bound /\ disposal' = disposal
      BY <2>4 DEF World, PeerCommits, PeerInvites, pageVars
    <3> QED
      BY <1>0, <2>0, <3>1, QuietBindings DEF Disposed
  <2>5. CASE Reload
    <3>1. /\ \A r \in Rooms : mem'[r] = None
      BY <2>5 DEF Reload
    <3>2. \A o \in Ops : op'[o].pc \in {"idle", "done"}
      BY <1>0, <2>5, ReloadCalls, DoneCallFields DEF Active
    <3> QED
      BY <3>1, <3>2 DEF Bindings, CallBound
  <2>6. CASE \E k \in Packages : Publish(k)
    <3>1. mem' = mem /\ bound' = bound /\ disposal' = disposal
      BY <2>6 DEF Publish, PublishTaken, PublishDone, PublishAnswerLost, pageVars, groupVars
    <3> QED
      BY <1>0, <2>0, <3>1, QuietBindings DEF Disposed
  <2> QED
    BY <1>2, <2>1, <2>2, <2>3, <2>4, <2>5, <2>6 DEF Others
<1> QED
  BY <1>1, <1>2

-----------------------------------------------------------------------------
(* The queue of saves *)

LEMMA AppendedSave ==
    ASSUME TypeOK, NEW e \in Save, tx' = Append(tx, e)
    PROVE  \E last \in DOMAIN tx' :
              /\ last \notin DOMAIN tx /\ tx'[last] = e
              /\ \A i \in DOMAIN tx : i \in DOMAIN tx' /\ tx'[i] = tx[i] /\ i < last /\ i \in Nat
              /\ \A i \in DOMAIN tx' : (i = last \/ i \in DOMAIN tx) /\ i <= last /\ i \in Nat
<1>1. tx \in Seq(Save)
  BY DEF TypeOK, Save
<1>2. /\ DOMAIN tx' = 1..(Len(tx) + 1) /\ DOMAIN tx = 1..Len(tx) /\ Len(tx) \in Nat
      /\ \A i \in 1..Len(tx) : tx'[i] = tx[i]
      /\ tx'[Len(tx) + 1] = e
  BY <1>1, Appended
<1> DEFINE n == Len(tx)
<1>3. /\ n \in Nat /\ DOMAIN tx' = 1..(n + 1) /\ DOMAIN tx = 1..n
      /\ \A i \in 1..n : tx'[i] = tx[i]
      /\ tx'[n + 1] = e
  BY <1>2
<1> HIDE DEF n
<1>4. /\ n + 1 \in DOMAIN tx' /\ n + 1 \notin DOMAIN tx
      /\ \A i \in DOMAIN tx : i \in DOMAIN tx' /\ tx'[i] = tx[i] /\ i < n + 1 /\ i \in Nat
      /\ \A i \in DOMAIN tx' : (i = n + 1 \/ i \in DOMAIN tx) /\ i <= n + 1 /\ i \in Nat
  BY <1>3
<1> QED
  BY <1>3, <1>4

\* A step that saves nothing, of calls that wait for no save.
LEMMA QueueStays ==
    ASSUME Queue, UNCHANGED <<tx, useFallback, fallback>>,
           \A p \in Ops : op[p].pc = "persist" => op'[p] = op[p],
           disposal.pc = "saving" => disposal'.pc = "saving"
    PROVE  Queue'
  BY DEF Queue

LEMMA RequestQueues ==
    ASSUME TypeOK, Queue, NEW who \in Ops \cup {Disposer}, NEW r \in Rooms, RequestsSave(who, r),
           \A i \in DOMAIN tx : tx[i].by # who,
           \A p \in Ops : op[p].pc = "persist" => op'[p] = op[p],
           disposal.pc = "saving" => disposal'.pc = "saving",
           who \in Ops => op'[who].pc = "persist" /\ op'[who].room = r,
           who = Disposer => disposal'.pc = "saving"
    PROVE  Queue'
<1> DEFINE e == [by |-> who, room |-> r, st |-> mem[r]]
<1>1. /\ e \in Save /\ tx' = Append(tx, e) /\ useFallback' = useFallback /\ fallback' = fallback /\ ~useFallback
  BY RequestTypes DEF Save
<1>2. e.by = who /\ e.room = r
  OBVIOUS
<1> HIDE DEF e
<1>3. PICK last \in DOMAIN tx' :
              /\ last \notin DOMAIN tx /\ tx'[last] = e
              /\ \A i \in DOMAIN tx : i \in DOMAIN tx' /\ tx'[i] = tx[i] /\ i < last
              /\ \A i \in DOMAIN tx' : i = last \/ i \in DOMAIN tx
  BY <1>1, AppendedSave
<1>4. \A i \in DOMAIN tx' :
        /\ tx'[i].by \in Ops => op'[tx'[i].by].pc = "persist" /\ op'[tx'[i].by].room = tx'[i].room
        /\ tx'[i].by = Disposer => disposal'.pc = "saving"
  BY <1>2, <1>3 DEF Queue
<1>5. \A i, j \in DOMAIN tx' : tx'[i].by = tx'[j].by => i = j
  BY <1>2, <1>3 DEF Queue
<1> QED
  BY <1>1, <1>4, <1>5 DEF Queue

LEMMA CallQueue ==
    ASSUME TypeOK, Shapes, TypeOK', NEW o \in Ops, CallSteps(o), Queue
    PROVE  Queue'
<1>1. disposal' = disposal /\ OthersStay(o) /\ op[o].pc # "persist"
  BY DEF CallSteps, StartsCall, CallEnds, TakesPackage, Advances, Transition, Sends, Installs, Installation,
     At, WritesCommit, SealsAndSaves, pageVars, GoesOn, IsOver
<1>2. \A p \in Ops : op[p].pc = "persist" => op'[p] = op[p]
  BY <1>1 DEF OthersStay
<1>3. CASE UNCHANGED <<tx, useFallback, fallback>>
  BY <1>1, <1>2, <1>3, QueueStays
<1>4. CASE SealsAndSaves(o)
  <2> DEFINE r == op[o].room
  <2>1. r \in Rooms
    BY <1>4, ActiveCall DEF SealsAndSaves, Shapes
  <2>2. CASE NothingToSave(r) /\ IsOver(o) /\ storesStay /\ dirty' = dirty
    BY <1>3, <2>2 DEF storesStay
  <2>3. CASE SavesInMemory(r) /\ IsOver(o)
    <3>1. useFallback' = useFallback /\ tx' = tx /\ useFallback
      BY <2>1, <2>3, InMemoryTypes
    <3> QED
      BY <1>1, <1>2, <3>1 DEF Queue
  <2>4. CASE RequestsSave(o, r) /\ GoesOn(o, "persist", op[o].st)
    <3>1. op'[o].pc = "persist" /\ op'[o].room = r
      BY <2>4 DEF GoesOn
    <3>2. \A i \in DOMAIN tx : tx[i].by # o
      BY <1>1 DEF Queue
    <3>3. o # Disposer
      BY Names
    <3> HIDE DEF r
    <3> QED
      BY <1>1, <1>2, <2>1, <2>4, <3>1, <3>2, <3>3, RequestQueues
  <2> QED
    BY <1>4, <2>2, <2>3, <2>4 DEF SealsAndSaves
<1> QED
  BY <1>3, <1>4 DEF CallSteps, StartsCall, CallEnds, TakesPackage, Advances, Installs, WritesCommit,
     storesStay, pageVars

\* The first save is done with, and whoever waited for it goes on.
LEMMA PopQueue ==
    ASSUME TypeOK, Queue, tx # <<>>, tx' = Tail(tx), UNCHANGED <<useFallback, fallback>>,
           \A p \in Ops : p # tx[1].by => op'[p] = op[p],
           tx[1].by # Disposer => disposal' = disposal
    PROVE  Queue'
<1>1. /\ 1 \in DOMAIN tx
      /\ \A i \in DOMAIN tx' : i \in Nat /\ i >= 1 /\ i + 1 \in DOMAIN tx /\ tx'[i] = tx[i + 1]
  BY HeadOfQueue
<1>2. \A i \in DOMAIN tx' : tx'[i].by # tx[1].by
  <2> SUFFICES ASSUME NEW i \in DOMAIN tx', tx'[i].by = tx[1].by PROVE FALSE
    OBVIOUS
  <2>1. i + 1 \in DOMAIN tx /\ i + 1 # 1
    BY <1>1
  <2> QED
    BY <1>1, <2>1 DEF Queue
<1>3. \A i \in DOMAIN tx' :
        /\ tx'[i].by \in Ops => op'[tx'[i].by].pc = "persist" /\ op'[tx'[i].by].room = tx'[i].room
        /\ tx'[i].by = Disposer => disposal'.pc = "saving"
  BY <1>1, <1>2 DEF Queue
<1>4. \A i, j \in DOMAIN tx' : tx'[i].by = tx'[j].by => i = j
  <2> SUFFICES ASSUME NEW i \in DOMAIN tx', NEW j \in DOMAIN tx', tx'[i].by = tx'[j].by PROVE i = j
    OBVIOUS
  <2>1. i + 1 = j + 1
    BY <1>1 DEF Queue
  <2> QED
    BY <1>1, <2>1
<1>5. ~useFallback
  BY DEF Queue
<1> QED
  BY <1>3, <1>4, <1>5 DEF Queue

LEMMA StoreQueue ==
    ASSUME TypeOK, TypeOK', Queue, Store
    PROVE  Queue'
<1>1. CASE SaveCommits
  <2>1. tx[1].by \in Ops \cup {Disposer} /\ Head(tx) = tx[1]
    BY <1>1, HeadOfQueue DEF SaveCommits
  <2>2. /\ \A p \in Ops : p # tx[1].by => op'[p] = op[p]
        /\ tx[1].by # Disposer => disposal' = disposal
    BY <1>1, <2>1, SavedDoes DEF SaveCommits, IsOver, OthersStay
  <2> QED
    BY <1>1, <2>2, PopQueue DEF SaveCommits
<1>2. CASE SaveAborts
  <2>1. tx[1].by \in Ops \cup {Disposer} /\ Head(tx) = tx[1]
    BY <1>2, HeadOfQueue DEF SaveAborts
  <2>2. \A p \in Ops : p # tx[1].by => op'[p] = op[p]
    BY <1>2, <2>1, ReturnsIsOver DEF SaveAborts, IsOver, OthersStay
  <2>3. tx[1].by # Disposer => disposal' = disposal
    BY <1>2, <2>1 DEF SaveAborts
  <2> QED
    BY <1>2, <2>2, <2>3, PopQueue DEF SaveAborts
<1>3. CASE SaveFallsBack
  BY <1>3 DEF SaveFallsBack, Queue
<1>4. CASE IdbBecomesUnavailable
  BY <1>4, QueueStays DEF IdbBecomesUnavailable, pageVars
<1> QED
  BY <1>1, <1>2, <1>3, <1>4 DEF Store

\* A step of restoreAll() that finds the database gone switches, with nothing to save.
LEMMA SwitchedQueue ==
    ASSUME TypeOK, Queue, tx = <<>>, tx' = tx, useFallback' = Switched,
           fallback' = fallback \/ useFallback', disposal' = disposal, op' = op
    PROVE  Queue'
<1>1. \A i \in DOMAIN tx' : FALSE
  OBVIOUS
<1>2. ~useFallback' => ~useFallback /\ fallback' = fallback
  BY DEF Switched
<1> QED
  BY <1>1, <1>2 DEF Queue

LEMMA QueueKept ==
    ASSUME MlsInv, TypeOK', Others \/ \E o \in Ops : CallSteps(o)
    PROVE  Queue'
<1>0. TypeOK /\ Shapes /\ Queue /\ RestoreComesFirst
  BY DEF MlsInv
<1>1. ASSUME NEW o \in Ops, CallSteps(o) PROVE Queue'
  BY <1>0, <1>1, CallQueue
<1>2. CASE Store
  BY <1>0, <1>2, StoreQueue
<1>3. CASE Initialise
  <2>1. CASE Imported \/ RoomRestored \/ RestoreThrows \/ RestoreDone
    BY <1>0, <2>1, QueueStays DEF Imported, RoomRestored, RestoreThrows, RestoreDone, storeVars
  <2>2. ASSUME NEW r \in Rooms, RoomLoaded(r) PROVE Queue'
    <3>1. /\ init = "restoring" /\ useFallback' = Switched
          /\ UNCHANGED <<op, disposal, fallback, tx>>
      BY <2>2 DEF RoomLoaded
    <3> QED
      BY <1>0, <3>1, SwitchedQueue DEF RestoreComesFirst
  <2>3. ASSUME NEW r \in Rooms, RoomDropped(r) PROVE Queue'
    <3>1. /\ init = "restoring" /\ useFallback' = Switched /\ UNCHANGED <<op, disposal, tx>>
          /\ fallback' = fallback \/ useFallback'
      BY <2>3 DEF RoomDropped
    <3> QED
      BY <1>0, <3>1, SwitchedQueue DEF RestoreComesFirst
  <2>4. CASE RoomsListed
    <3>1. init = "listing" /\ useFallback' = Switched /\ UNCHANGED <<op, disposal, fallback, tx>>
      BY <2>4 DEF RoomsListed
    <3> QED
      BY <1>0, <3>1, SwitchedQueue DEF RestoreComesFirst
  <2> QED
    BY <1>3, <2>1, <2>2, <2>3, <2>4 DEF Initialise
<1>4. CASE Dispose
  <2>1. CASE DisposeBegins \/ DisposeEnds
    BY <1>0, <2>1, QueueStays DEF DisposeBegins, DisposeEnds, storeVars
  <2>2. ASSUME NEW r \in Rooms, SweepRoom(r) PROVE Queue'
    <3>1. op' = op /\ disposal.pc = "sweeping"
      BY <2>2 DEF SweepRoom
    <3>2. CASE SavesInMemory(r)
      <4>1. useFallback' = useFallback /\ tx' = tx /\ useFallback
        BY <1>0, <3>2, InMemoryTypes
      <4> QED
        BY <1>0, <3>1, <4>1 DEF Queue
    <3>3. CASE RequestsSave(Disposer, r) /\ disposal' = [pc |-> "saving", seen |-> disposal.seen \cup {r}]
      <4>1. \A i \in DOMAIN tx : tx[i].by # Disposer
        BY <1>0, <3>1 DEF Queue
      <4>2. Disposer \notin Ops /\ disposal'.pc = "saving"
        BY <3>3, Names
      <4> QED
        BY <1>0, <3>1, <3>3, <4>1, <4>2, RequestQueues
    <3> QED
      BY <2>2, <3>2, <3>3 DEF SweepRoom
  <2> QED
    BY <1>4, <2>1, <2>2 DEF Dispose
<1>5. CASE World
  BY <1>0, <1>5, QueueStays DEF World, PeerCommits, PeerInvites, pageVars
<1>6. CASE Reload
  BY <1>6 DEF Reload, Queue
<1>7. CASE \E k \in Packages : Publish(k)
  BY <1>0, <1>7, QueueStays DEF Publish, PublishTaken, PublishDone, PublishAnswerLost, pageVars, storeVars
<1> QED
  BY <1>1, <1>2, <1>3, <1>4, <1>5, <1>6, <1>7 DEF Others

-----------------------------------------------------------------------------
(* Calls on a room, one at a time *)

LEMMA OneAtATimeStays ==
    ASSUME OneAtATime, overlapped \subseteq overlapped',
           \A p \in Ops : op'[p] = op[p] \/ op'[p].pc = "done"
                          \/ (Active(p) /\ op'[p].room = op[p].room)
    PROVE  OneAtATime'
  BY DEF OneAtATime, ActiveIn, Active

LEMMA OneAtATimeKept ==
    ASSUME MlsInv, TypeOK', Others \/ \E o \in Ops : CallSteps(o)
    PROVE  OneAtATime'
<1>0. TypeOK /\ Shapes /\ OneAtATime /\ Queue
  BY DEF MlsInv
<1>1. ASSUME NEW o \in Ops, CallSteps(o) PROVE OneAtATime'
  <2>1. CASE StartsCall(o)
    <3>1. OthersStay(o) /\ overlapped \subseteq overlapped'
      BY <2>1 DEF StartsCall
    <3>2. op'[o].room \in overlapped' \/ ActiveIn(op'[o].room) = {}
      BY <2>1 DEF StartsCall
    <3>3. ASSUME NEW r \in Rooms, r \notin overlapped', NEW a \in Ops, NEW b \in Ops,
                 a \in ActiveIn(r)', b \in ActiveIn(r)'
          PROVE  a = b
      <4>1. CASE a # o /\ b # o
        BY <1>0, <3>1, <3>3, <4>1 DEF OneAtATime, ActiveIn, Active, OthersStay
      <4>2. CASE a = o /\ b # o
        <5>1. op'[o].room = r /\ b \in ActiveIn(r)
          BY <3>1, <3>3, <4>2 DEF ActiveIn, Active, OthersStay
        <5> QED
          BY <3>2, <3>3, <5>1
      <4>3. CASE a # o /\ b = o
        <5>1. op'[o].room = r /\ a \in ActiveIn(r)
          BY <3>1, <3>3, <4>3 DEF ActiveIn, Active, OthersStay
        <5> QED
          BY <3>2, <3>3, <5>1
      <4> QED
        BY <4>1, <4>2, <4>3
    <3> QED
      BY <3>3 DEF OneAtATime, ActiveIn
  <2>2. CASE ~StartsCall(o)
    <3>1. /\ OthersStay(o) /\ overlapped' = overlapped
          /\ op'[o].pc = "done" \/ (Active(o) /\ op'[o].room = op[o].room)
      BY <1>1, <2>2 DEF CallSteps, CallEnds, TakesPackage, Advances, Transition, Sends, Installs, Installation,
         At, WritesCommit, SealsAndSaves, GoesOn, IsOver, Active
    <3> QED
      BY <1>0, <3>1, OneAtATimeStays DEF OthersStay
  <2> QED
    BY <2>1, <2>2
<1>2. CASE Others /\ ~Reload
  <2>1. overlapped' = overlapped
    <3>1. CASE Store
      BY <1>0, <3>1, StoreDisposal
    <3> QED
      BY <1>2, <3>1 DEF Others, Initialise, Imported, RoomsListed, RoomRestored, RestoreThrows, RestoreDone, RoomLoaded,
         RoomDropped, Dispose, DisposeBegins, DisposeEnds, SweepRoom, World, PeerCommits, PeerInvites, Publish,
         PublishTaken, PublishDone, PublishAnswerLost, historyVars
  <2> QED
    BY <1>0, <1>2, <2>1, OnlyCallsMove, OneAtATimeStays DEF Others, CallsOver
<1>3. CASE Reload
  <2>1. \A o \in Ops : op'[o].pc \in {"idle", "done"}
    BY <1>0, <1>3, ReloadCalls, DoneCallFields DEF Active
  <2> QED
    BY <2>1 DEF OneAtATime, ActiveIn, Active
<1> QED
  BY <1>1, <1>2, <1>3

-----------------------------------------------------------------------------
(* A commit is new *)

LEMMA MentionsMore ==
    ASSUME NEW h \in Seq(Ops \cup {Peer}), NEW a, NEW q, q # a, ~Mentions(h, q)
    PROVE  ~Mentions(Append(h, a), q)
  BY DEF Mentions

LEMMA MentionsNone == \A q : ~Mentions(<<>>, q)
  BY DEF Mentions

\* What Nowhere says of a state that is somewhere.
LEMMA NewOfCall ==
    ASSUME TypeOK, NEW q \in Ops, Nowhere(q), NEW o \in Ops, op[o].st \in State
    PROVE  ~Mentions(op[o].st.hist, q) /\ op[o].st.hist \in Seq(Ops \cup {Peer})
<1>1. op[o].st # None
  BY Names
<1> QED
  BY <1>1 DEF Nowhere, In, State

LEMMA SendsNew ==
    ASSUME TypeOK, Shapes, NEW q \in Ops, Nowhere(q), NEW o \in Ops, log' = log \/ Sends(o)
    PROVE  \A g \in Groups : ~Mentions(log'[g], q)
<1>1. CASE log' = log
  BY <1>1 DEF Nowhere
<1>2. CASE Sends(o)
  <2>1. op[o].st \in State
    BY <1>2 DEF Sends, Shapes, CallShape
  <2>2. ~Mentions(op[o].st.hist, q)
    BY <2>1, NewOfCall
  <2>3. log' = [log EXCEPT ![op[o].st.gid] = op[o].st.hist] /\ log \in [Groups -> Seq(Ops \cup {Peer})]
    BY <1>2 DEF Sends, TypeOK
  <2> QED
    BY <2>2, <2>3 DEF Nowhere
<1> QED
  BY <1>1, <1>2

\* The calls after a step of o.
LEMMA CallsNew ==
    ASSUME NEW q \in Ops, Nowhere(q), NEW o \in Ops, OthersStay(o), ~In(op'[o].st, q)
    PROVE  \A p \in Ops : ~In(op'[p].st, q)
  BY DEF Nowhere, OthersStay

LEMMA InNone == \A q : ~In(None, q)
  BY DEF In

LEMMA UncommittedBefore ==
    ASSUME TypeOK, Shapes, NEW o \in Ops, CallSteps(o), NEW q \in Ops, Uncommitted(q)'
    PROVE  Uncommitted(q) /\ (op[o].pc = "commit" => q # o)
<1>1. OthersStay(o)
  BY DEF CallSteps, StartsCall, CallEnds, TakesPackage, Advances, Installs, WritesCommit, SealsAndSaves,
     GoesOn, IsOver
<1>2. CASE q # o
  BY <1>1, <1>2 DEF OthersStay, Uncommitted
<1>3. CASE q = o
  <2>1. CASE StartsCall(o)
    BY <1>3, <2>1 DEF StartsCall, Uncommitted
  <2>2. CASE Advances(o)
    <3>1. PICK pc \in Stages, st \in State : GoesOn(o, pc, st) /\ Transition(o, pc, st)
      BY <2>2 DEF Advances
    <3>2. op[o].kind \in Writers /\ pc \in {"load", "fetch", "commit", "idle"}
      BY <1>3, <3>1 DEF GoesOn, Uncommitted, Transition
    <3> QED
      BY <1>3, <3>1, <3>2 DEF Transition, Uncommitted, Writers
  <2>3. CASE ~StartsCall(o) /\ ~Advances(o)
    <3>1. op'[o].pc \in {"done", "mls", "apply", "send", "welcome", "persist"}
      BY <2>3 DEF CallSteps, CallEnds, TakesPackage, Installs, WritesCommit, SealsAndSaves, GoesOn, IsOver
    <3> QED
      BY <1>3, <3>1 DEF Uncommitted
  <2> QED
    BY <2>1, <2>2, <2>3
<1> QED
  BY <1>2, <1>3

LEMMA CommittedNew ==
    ASSUME TypeOK, NEW q \in Ops, Nowhere(q), NEW o \in Ops, op[o].st \in State, q # o
    PROVE  ~In(Committed(o), q)
  BY NewOfCall, CommittedFields, MentionsMore DEF In

LEMMA CallNew ==
    ASSUME TypeOK, Shapes, TypeOK', NEW o \in Ops, CallSteps(o), CommitsAreNew
    PROVE  CommitsAreNew'
<1> SUFFICES ASSUME NEW q \in Ops, Uncommitted(q)' PROVE Nowhere(q)'
  BY DEF CommitsAreNew
<1>1. Uncommitted(q) /\ Nowhere(q) /\ (op[o].pc = "commit" => q # o)
  BY UncommittedBefore DEF CommitsAreNew
<1>2. /\ \A r \in Rooms : ~In(mem[r], q) /\ ~In(idb[r], q) /\ ~In(fallback[r], q)
      /\ \A i \in DOMAIN tx : ~In(tx[i].st, q)
      /\ \A p \in Ops : ~In(op[p].st, q)
      /\ \A w \in welcomes : ~Mentions(w.hist, q)
  BY <1>1 DEF Nowhere
<1>3. /\ OthersStay(o) /\ welcomes' = welcomes
      /\ \A g \in Groups : ~Mentions(log'[g], q)
  <2>1. log' = log \/ Sends(o)
    BY DEF CallSteps, StartsCall, CallEnds, TakesPackage, Advances, Transition, Installs, Installation,
       WritesCommit, SealsAndSaves, worldVars
  <2>2. OthersStay(o) /\ welcomes' = welcomes
    BY DEF CallSteps, StartsCall, CallEnds, TakesPackage, Advances, Installs, WritesCommit, SealsAndSaves,
       GoesOn, IsOver, worldVars
  <2> QED
    BY <1>1, <2>1, <2>2, SendsNew
\* What remains: memory, the stores and the call itself.
<1>4. ASSUME mem' = mem, storesStay, ~In(op'[o].st, q) PROVE Nowhere(q)'
  BY <1>1, <1>2, <1>3, <1>4, CallsNew DEF Nowhere, storesStay
<1>5. CASE mem' = mem /\ storesStay /\ IsOver(o)
  BY <1>4, <1>5, InNone DEF IsOver
<1>6. CASE StartsCall(o)
  BY <1>4, <1>6, InNone DEF StartsCall, storesStay, pageVars
<1>7. CASE TakesPackage(o)
  <2>1. op'[o].st = op[o].st \/ op'[o].st.hist = <<>>
    BY <1>7 DEF TakesPackage
  <2>2. ~In(op'[o].st, q)
    BY <1>2, <2>1, MentionsNone DEF In
  <2> QED
    BY <1>4, <1>7, <2>2 DEF TakesPackage
<1>8. CASE Advances(o)
  <2>1. PICK pc \in Stages, st \in State : GoesOn(o, pc, st) /\ Transition(o, pc, st)
    BY <1>8 DEF Advances
  <2>2. ~In(st, q)
    <3>1. CASE st = Committed(o) /\ op[o].pc = "commit"
      <4>1. op[o].st \in State
        BY <3>1 DEF Shapes, CallShape
      <4> QED
        BY <1>1, <3>1, <4>1, CommittedNew
    <3>2. CASE st = mem[op[o].room] /\ op[o].pc = "load"
      <4>1. op[o].room \in Rooms
        BY <3>2, ActiveCall DEF Shapes
      <4> QED
        BY <1>2, <3>2, <4>1
    <3>3. CASE st = op[o].st
      BY <1>2, <3>3
    <3> QED
      BY <2>1, <3>1, <3>2, <3>3 DEF Transition
  <2> QED
    BY <1>4, <1>8, <2>1, <2>2 DEF Advances, GoesOn
<1>9. CASE Installs(o)
  <2>1. PICK st \in State : GoesOn(o, "apply", st) /\ Writes(op[o].room, st) /\ Installation(o, st)
    BY <1>9 DEF Installs
  <2>2. ~In(st, q)
    <3>1. CASE st = op[o].st
      BY <1>2, <3>1
    <3>2. CASE At(o, "welcome", "mls") /\ st = [gid |-> op[o].arg.gid, hist |-> op[o].arg.hist]
      <4>1. op[o].arg \in welcomes
        BY <3>2 DEF At, Shapes, CallShape
      <4> QED
        BY <1>2, <3>2, <4>1 DEF In
    <3>3. CASE At(o, "message", "mls") /\ st.hist = Append(op[o].st.hist, Peer)
      <4>1. op[o].st \in State
        BY <3>3 DEF Shapes, CallShape, At, AtAny
      <4>2. q # Peer
        BY Names
      <4> QED
        BY <1>1, <3>3, <4>1, <4>2, NewOfCall, MentionsMore DEF In
    <3> QED
      BY <2>1, <3>1, <3>2, <3>3 DEF Installation
  <2>3. storesStay /\ op'[o].st = st
    BY <1>9, <2>1 DEF Installs, GoesOn
  <2>4. \A r \in Rooms : ~In(mem'[r], q)
    BY <1>2, <2>1, <2>2 DEF Writes
  <2> QED
    BY <1>1, <1>2, <1>3, <2>2, <2>3, <2>4, CallsNew DEF Nowhere, storesStay
<1>10. CASE WritesCommit(o)
  <2>1. op[o].st \in State /\ q # o
    BY <1>1, <1>10 DEF WritesCommit, Shapes, CallShape
  <2>2. ~In(Committed(o), q)
    BY <1>1, <2>1, CommittedNew
  <2>3. storesStay /\ op'[o].st = Committed(o) /\ Writes(op[o].room, Committed(o))
    BY <1>10 DEF WritesCommit, GoesOn
  <2>4. \A r \in Rooms : ~In(mem'[r], q)
    BY <1>2, <2>2, <2>3 DEF Writes
  <2> QED
    BY <1>1, <1>2, <1>3, <2>2, <2>3, <2>4, CallsNew DEF Nowhere, storesStay
<1>11. CASE SealsAndSaves(o)
  <2> DEFINE r == op[o].room
  <2>0. r \in Rooms
    BY <1>11, ActiveCall DEF SealsAndSaves, Shapes
  <2>1. mem' = mem
    BY <1>11 DEF SealsAndSaves
  <2>2. ~In(op'[o].st, q)
    BY <1>2, <1>11, InNone DEF SealsAndSaves, IsOver, GoesOn
  <2> HIDE DEF r
  <2>3. CASE storesStay
    BY <1>4, <2>1, <2>2, <2>3
  <2>4. CASE SavesInMemory(r)
    <3>1. /\ fallback'[r] = mem[r] /\ \A p \in Rooms : p # r => fallback'[p] = fallback[p]
          /\ tx' = tx /\ idb' = idb
      BY <2>0, <2>4, InMemoryTypes
    <3> QED
      BY <1>1, <1>2, <1>3, <2>0, <2>1, <2>2, <3>1, CallsNew DEF Nowhere
  <2>5. CASE RequestsSave(o, r)
    <3>1. fallback' = fallback /\ idb' = idb /\ mem[r] \in State
          /\ tx' = Append(tx, [by |-> o, room |-> r, st |-> mem[r]])
      BY <2>0, <2>5, RequestTypes
    <3>2. [by |-> o, room |-> r, st |-> mem[r]] \in Save
      BY <2>0, <3>1 DEF Save
    <3>3. \A i \in DOMAIN tx' : (i \in DOMAIN tx /\ tx'[i] = tx[i]) \/ tx'[i].st = mem[r]
      BY <3>1, <3>2, AppendedSave
    <3> QED
      BY <1>1, <1>2, <1>3, <2>0, <2>1, <2>2, <3>1, <3>3, CallsNew DEF Nowhere
  <2> QED
    BY <1>11, <2>3, <2>4, <2>5 DEF SealsAndSaves, r
<1> QED
  BY <1>5, <1>6, <1>7, <1>8, <1>9, <1>10, <1>11 DEF CallSteps, CallEnds

\* A step that starts no call and makes no commit of this device's.
LEMMA NewStays ==
    ASSUME TypeOK, CommitsAreNew, CallsOver, NEW q \in Ops, Uncommitted(q)'
    PROVE  /\ Uncommitted(q) /\ Nowhere(q)
           /\ \A p \in Ops : ~In(op'[p].st, q)
<1>1. Uncommitted(q)
  BY DEF CallsOver, Uncommitted, Writers
<1>2. Nowhere(q)
  BY <1>1 DEF CommitsAreNew
<1>3. \A p \in Ops : op'[p].st = op[p].st \/ op'[p].st = None
  BY DEF CallsOver
<1> QED
  BY <1>1, <1>2, <1>3, InNone DEF Nowhere

\* A step that moves states from one place to another, or drops them.
StatesMove ==
    /\ CallsOver /\ log' = log /\ welcomes' = welcomes
    /\ \A r \in Rooms : mem'[r] \in {mem[r], idb[r], fallback[r], None}
    /\ \A r \in Rooms : idb'[r] \in {idb[r], None} \/ \E i \in DOMAIN tx : idb'[r] = tx[i].st
    /\ \A r \in Rooms : fallback'[r] \in {fallback[r], mem[r], None}
                        \/ \E i \in DOMAIN tx : fallback'[r] = tx[i].st
    /\ \A i \in DOMAIN tx' : (\E j \in DOMAIN tx : tx'[i].st = tx[j].st)
                             \/ \E r \in Rooms : tx'[i].st = mem[r]

LEMMA NewMoves ==
    ASSUME TypeOK, CommitsAreNew, StatesMove
    PROVE  CommitsAreNew'
<1> SUFFICES ASSUME NEW q \in Ops, Uncommitted(q)' PROVE Nowhere(q)'
  BY DEF CommitsAreNew
<1>1. Nowhere(q) /\ \A p \in Ops : ~In(op'[p].st, q)
  BY NewStays DEF StatesMove
<1>2. /\ \A r \in Rooms : ~In(mem[r], q) /\ ~In(idb[r], q) /\ ~In(fallback[r], q)
      /\ \A i \in DOMAIN tx : ~In(tx[i].st, q)
  BY <1>1 DEF Nowhere
<1>3. \A r \in Rooms : ~In(mem'[r], q)
  BY <1>2, InNone DEF StatesMove
<1>4. \A r \in Rooms : ~In(idb'[r], q)
  BY <1>2, InNone DEF StatesMove
<1>5. \A r \in Rooms : ~In(fallback'[r], q)
  BY <1>2, InNone DEF StatesMove
<1>6. \A i \in DOMAIN tx' : ~In(tx'[i].st, q)
  BY <1>2 DEF StatesMove
<1> QED
  BY <1>1, <1>3, <1>4, <1>5, <1>6 DEF Nowhere, StatesMove

LEMMA WorldNew ==
    ASSUME TypeOK, CommitsAreNew, World
    PROVE  CommitsAreNew'
<1> SUFFICES ASSUME NEW q \in Ops, Uncommitted(q)' PROVE Nowhere(q)'
  BY DEF CommitsAreNew
<1>1. /\ UNCHANGED <<op, mem, idb, fallback, tx>>
  BY DEF World, PeerCommits, PeerInvites, pageVars
<1>2. Nowhere(q) /\ q # Peer
  BY <1>1, Names DEF CommitsAreNew, Uncommitted
<1>3. PICK g \in Groups : PeerCommitted(g) /\ \A w \in welcomes' : w \in welcomes \/ w.hist = log'[g]
  BY DEF World, PeerCommits, PeerInvites, Groups
<1>4. log' = [log EXCEPT ![g] = Append(log[g], Peer)] /\ log \in [Groups -> Seq(Ops \cup {Peer})]
  BY <1>3, PeerCommittedDoes DEF TypeOK
<1>5. log[g] \in Seq(Ops \cup {Peer}) /\ ~Mentions(log[g], q)
  BY <1>2, <1>4 DEF Nowhere
<1>6. ~Mentions(Append(log[g], Peer), q)
  BY <1>2, <1>5, MentionsMore
<1>7. \A p \in Groups : ~Mentions(log'[p], q)
  BY <1>2, <1>4, <1>6 DEF Nowhere
<1>8. \A w \in welcomes' : ~Mentions(w.hist, q)
  BY <1>2, <1>3, <1>7 DEF Nowhere
<1> QED
  BY <1>1, <1>2, <1>7, <1>8 DEF Nowhere

\* Every step but a call's and the world's does.
LEMMA OthersMove ==
    ASSUME TypeOK, Others, ~World
    PROVE  StatesMove
<1>0. CallsOver /\ log' = log /\ welcomes' = welcomes
  <2>1. log' = log /\ welcomes' = welcomes
    BY DEF Others, Store, SaveCommits, SaveAborts, SaveFallsBack, IdbBecomesUnavailable, Initialise, Imported,
       RoomsListed, RoomRestored, RestoreThrows, RestoreDone, RoomLoaded, RoomDropped, Dispose, DisposeBegins,
       DisposeEnds, SweepRoom, Reload, Publish, PublishTaken, PublishDone, PublishAnswerLost, worldVars
  <2> QED
    BY <2>1, OnlyCallsMove DEF Others
<1>1. CASE SaveCommits
  <2>1. /\ Head(tx) = tx[1] /\ 1 \in DOMAIN tx /\ tx[1].room \in Rooms
        /\ \A i \in DOMAIN tx' : i + 1 \in DOMAIN tx /\ tx'[i] = tx[i + 1]
    BY <1>1, HeadOfQueue DEF SaveCommits
  <2>2. mem' = mem /\ fallback' = fallback /\ idb' = [idb EXCEPT ![tx[1].room] = tx[1].st]
    BY <1>1, <2>1 DEF SaveCommits, groupVars
  <2>3. \A r \in Rooms : idb'[r] = idb[r] \/ idb'[r] = tx[1].st
    BY <2>1, <2>2 DEF TypeOK
  <2> QED
    BY <1>0, <2>1, <2>2, <2>3 DEF StatesMove
<1>2. CASE SaveAborts
  <2>1. \A i \in DOMAIN tx' : i + 1 \in DOMAIN tx /\ tx'[i] = tx[i + 1]
    BY <1>2, HeadOfQueue DEF SaveAborts
  <2>2. mem' = mem /\ fallback' = fallback /\ idb' = idb
    BY <1>2 DEF SaveAborts, groupVars
  <2> QED
    BY <1>0, <2>1, <2>2 DEF StatesMove
<1>3. CASE SaveFallsBack
  <2>1. mem' = mem /\ idb' = idb /\ DOMAIN tx' = {}
    BY <1>3 DEF SaveFallsBack, groupVars
  <2>2. \A r \in Rooms : fallback'[r] = fallback[r] \/ \E i \in DOMAIN tx : fallback'[r] = tx[i].st
    BY <1>3, FallbackTakes DEF SavesOf
  <2> QED
    BY <1>0, <2>1, <2>2 DEF StatesMove
<1>4. CASE Initialise
  <2>1. ASSUME NEW r \in Rooms, RoomLoaded(r) PROVE StatesMove
    <3>1. /\ Writes(r, Read(r)) \/ mem' = mem
          /\ Read(r) \in {fallback[r], idb[r]} /\ UNCHANGED <<fallback, idb, tx>>
      BY <2>1, RoomLoadedDoes, ReadTypes
    <3>2. \A q \in Rooms : mem'[q] \in {mem[q], idb[q], fallback[q], None}
      BY <3>1 DEF Writes
    <3> QED
      BY <1>0, <3>1, <3>2 DEF StatesMove
  <2>2. ASSUME NEW r \in Rooms, RoomDropped(r) PROVE StatesMove
    <3>1. /\ \A q \in Rooms : idb'[q] \in {idb[q], None} /\ fallback'[q] \in {fallback[q], None}
          /\ mem' = mem /\ tx' = tx
      BY <2>2 DEF RoomDropped, groupVars, TypeOK
    <3> QED
      BY <1>0, <3>1 DEF StatesMove
  <2>3. CASE Imported \/ RoomsListed \/ RoomRestored \/ RestoreThrows \/ RestoreDone
    <3>1. UNCHANGED <<mem, idb, fallback, tx>>
      BY <2>3 DEF Imported, RoomsListed, RoomRestored, RestoreThrows, RestoreDone, groupVars, storeVars
    <3> QED
      BY <1>0, <3>1 DEF StatesMove
  <2> QED
    BY <1>4, <2>1, <2>2, <2>3 DEF Initialise
<1>5. CASE Dispose
  <2>1. CASE DisposeBegins
    <3>1. UNCHANGED <<mem, idb, fallback, tx>>
      BY <2>1 DEF DisposeBegins, groupVars, storeVars
    <3> QED
      BY <1>0, <3>1 DEF StatesMove
  <2>2. CASE DisposeEnds
    <3>1. UNCHANGED <<idb, fallback, tx>> /\ \A r \in Rooms : mem'[r] = None
      BY <2>2 DEF DisposeEnds, storeVars
    <3> QED
      BY <1>0, <3>1 DEF StatesMove
  <2>3. ASSUME NEW r \in Rooms, SweepRoom(r) PROVE StatesMove
    <3>0. mem' = mem
      BY <2>3 DEF SweepRoom, groupVars
    <3>1. CASE SavesInMemory(r)
      <4>1. /\ fallback'[r] = mem[r] /\ \A p \in Rooms : p # r => fallback'[p] = fallback[p]
            /\ tx' = tx /\ idb' = idb
        BY <3>1, InMemoryTypes
      <4> QED
        BY <1>0, <3>0, <4>1 DEF StatesMove
    <3>2. CASE RequestsSave(Disposer, r)
      <4>1. fallback' = fallback /\ idb' = idb /\ mem[r] \in State
            /\ tx' = Append(tx, [by |-> Disposer, room |-> r, st |-> mem[r]])
        BY <3>2, RequestTypes
      <4>2. [by |-> Disposer, room |-> r, st |-> mem[r]] \in Save
        BY <4>1 DEF Save
      <4>3. \A i \in DOMAIN tx' : (i \in DOMAIN tx /\ tx'[i] = tx[i]) \/ tx'[i].st = mem[r]
        BY <4>1, <4>2, AppendedSave
      <4> QED
        BY <1>0, <3>0, <4>1, <4>3 DEF StatesMove
    <3> QED
      BY <2>3, <3>1, <3>2 DEF SweepRoom
  <2> QED
    BY <1>5, <2>1, <2>2, <2>3 DEF Dispose
<1>6. CASE Reload
  <2>1. /\ \A r \in Rooms : mem'[r] = None /\ fallback'[r] = None
        /\ idb' = idb /\ DOMAIN tx' = {}
    BY <1>6 DEF Reload
  <2> QED
    BY <1>0, <2>1 DEF StatesMove
<1>7. CASE IdbBecomesUnavailable \/ \E k \in Packages : Publish(k)
  <2>1. UNCHANGED <<mem, idb, fallback, tx>>
    BY <1>7 DEF IdbBecomesUnavailable, Publish, PublishTaken, PublishDone, PublishAnswerLost, pageVars, groupVars,
       storeVars
  <2> QED
    BY <1>0, <2>1 DEF StatesMove
<1> QED
  BY <1>1, <1>2, <1>3, <1>4, <1>5, <1>6, <1>7 DEF Others, Store

LEMMA CommitsKept ==
    ASSUME MlsInv, TypeOK', Others \/ \E o \in Ops : CallSteps(o)
    PROVE  CommitsAreNew'
<1>1. TypeOK /\ Shapes /\ CommitsAreNew
  BY DEF MlsInv
<1>2. ASSUME NEW o \in Ops, CallSteps(o) PROVE CommitsAreNew'
  BY <1>1, <1>2, CallNew
<1> QED
  BY <1>1, <1>2, OthersMove, NewMoves, WorldNew

-----------------------------------------------------------------------------
(* Every state is saved, or on its way *)

Sweeps(r) == \A i \in DOMAIN tx : tx[i].room = r => SweepIsGood(i)

LEMMA SavesByRoom ==
    ASSUME TypeOK
    PROVE  SaveIsOnItsWay /\ DisposerSaves <=> (~Disposed => \A r \in Rooms : RoomIsSaved(r) /\ Sweeps(r))
<1>1. \A i \in DOMAIN tx : tx[i].room \in Rooms
  <2>1. tx \in Seq(Save)
    BY DEF TypeOK, Save
  <2>2. \A i \in DOMAIN tx : tx[i] \in Save
    BY <2>1
  <2> QED
    BY <2>2 DEF Save
<1> QED
  BY <1>1 DEF SaveIsOnItsWay, DisposerSaves, Sweeps

LEMMA SavesByRoomNext ==
    ASSUME TypeOK', ~Disposed' => \A r \in Rooms : RoomIsSaved(r)' /\ Sweeps(r)'
    PROVE  SaveIsOnItsWay' /\ DisposerSaves'
<1>1. \A i \in DOMAIN tx' : tx'[i].room \in Rooms
  <2>1. tx' \in Seq(Save)
    BY DEF TypeOK, Save
  <2>2. \A i \in DOMAIN tx' : tx'[i] \in Save
    BY <2>1
  <2> QED
    BY <2>2 DEF Save
<1> QED
  BY <1>1 DEF SaveIsOnItsWay, DisposerSaves, Sweeps

\* What is saved later is saved.
LEMMA LaterIsSaved ==
    ASSUME NEW r, SavedLater(r)'
    PROVE  RoomIsSaved(r)' /\ Sweeps(r)'
  BY DEF RoomIsSaved, Sweeps, SweepIsGood

\* Nothing happens to the room's state, and no save to it.
LEMMA RoomStays ==
    ASSUME NEW r \in Rooms, tx' = tx, mem'[r] = mem[r], LastSaved(r)' = LastSaved(r),
           ToBeSaved(r) => ToBeSaved(r)', Unsure(r) => Unsure(r)' \/ ToBeSaved(r)',
           RoomIsSaved(r), Sweeps(r)
    PROVE  RoomIsSaved(r)' /\ Sweeps(r)'
<1>1. OwnSaves(r)' = OwnSaves(r)
  BY DEF OwnSaves
<1>2. NoFalseSave(r) => NoFalseSave(r)'
  BY <1>1 DEF NoFalseSave
<1>3. SavedLater(r) => SavedLater(r)'
  BY <1>2 DEF SavedLater
<1>4. RoomIsSaved(r)'
  <2>1. EndsWith(r, mem[r]) => EndsWith(r, mem[r])'
    BY <1>1 DEF EndsWith
  <2> QED
    BY <1>3, <2>1 DEF RoomIsSaved
<1>5. Sweeps(r)'
  BY <1>1, <1>3 DEF Sweeps, SweepIsGood
<1> QED
  BY <1>4, <1>5

\* A step of a call that leaves the stores alone.
LEMMA StillToBeSaved ==
    ASSUME NEW o \in Ops, OthersStay(o), NEW r, op[o].pc # "apply" \/ op[o].room # r
    PROVE  ToBeSaved(r) => ToBeSaved(r)'
  BY DEF ToBeSaved, OthersStay

LEMMA StillUnsure ==
    ASSUME NEW o \in Ops, OthersStay(o), NEW r, dirty \subseteq dirty',
           Unsent(o, r) => Unsure(r)' \/ ToBeSaved(r)'
    PROVE  Unsure(r) => Unsure(r)' \/ ToBeSaved(r)'
<1> SUFFICES ASSUME Unsure(r) PROVE Unsure(r)' \/ ToBeSaved(r)'
  OBVIOUS
<1>1. CASE r \in dirty
  BY <1>1 DEF Unsure
<1>2. CASE \E p \in Ops : Unsent(p, r)
  <2>1. PICK p \in Ops : Unsent(p, r)
    BY <1>2
  <2>2. CASE p = o
    BY <2>1, <2>2
  <2>3. CASE p # o
    BY <2>1, <2>3 DEF OthersStay, Unsent, Unsure
  <2> QED
    BY <2>2, <2>3
<1> QED
  BY <1>1, <1>2 DEF Unsure

LEMMA LastSavedStays ==
    ASSUME storesStay, NEW r
    PROVE  LastSaved(r)' = LastSaved(r)
  BY DEF storesStay, LastSaved

LEMMA CallSaves ==
    ASSUME TypeOK, Shapes, TypeOK', NEW o \in Ops, Bindings, CommitsAreNew, ~Disposed, storesStay,
           \/ StartsCall(o) \/ CallEnds(o) \/ TakesPackage(o) \/ Advances(o) \/ Installs(o)
           \/ WritesCommit(o),
           NEW r \in Rooms, RoomIsSaved(r), Sweeps(r)
    PROVE  RoomIsSaved(r)' /\ Sweeps(r)'
<1>0. LastSaved(r)' = LastSaved(r) /\ tx' = tx
  BY LastSavedStays DEF storesStay
<1>1. CASE StartsCall(o)
  <2>1. OthersStay(o) /\ op[o].pc = "idle" /\ mem' = mem /\ dirty' = dirty
    BY <1>1 DEF StartsCall, pageVars
  <2> QED
    BY <1>0, <2>1, RoomStays, StillToBeSaved, StillUnsure DEF Unsent
<1>2. CASE CallEnds(o)
  <2>1. op[o].pc # "apply"
    BY <1>2 DEF CallEnds, Bindings, CallBound
  <2>2. OthersStay(o) /\ mem' = mem /\ dirty \subseteq dirty'
    BY <1>2 DEF CallEnds, IsOver
  <2>3. Unsent(o, r) => Unsure(r)'
    BY <1>2 DEF CallEnds, Unsent, Unsure
  <2> QED
    BY <1>0, <2>1, <2>2, <2>3, RoomStays, StillToBeSaved, StillUnsure
<1>3. CASE TakesPackage(o)
  <2>1. OthersStay(o) /\ op[o].pc = "load" /\ mem' = mem /\ dirty' = dirty
    BY <1>3 DEF TakesPackage
  <2> QED
    BY <1>0, <2>1, RoomStays, StillToBeSaved, StillUnsure DEF Unsent
<1>4. CASE Advances(o)
  <2>1. PICK pc \in Stages, st \in State : GoesOn(o, pc, st) /\ Transition(o, pc, st)
    BY <1>4 DEF Advances
  <2>2. OthersStay(o) /\ mem' = mem /\ dirty' = dirty /\ op[o].pc # "apply"
    BY <1>4, <2>1 DEF Advances, GoesOn, Transition, Sends
  <2>3. Unsent(o, r) => Unsure(r)' \/ ToBeSaved(r)'
    <3>1. Unsent(o, r) => pc \in {"send", "apply"}
      BY <2>1 DEF Unsent, Transition, Sends, Writers
    <3> QED
      BY <2>1, <3>1 DEF Unsent, GoesOn, Unsure, ToBeSaved
  <2> QED
    BY <1>0, <2>2, <2>3, RoomStays, StillToBeSaved, StillUnsure
<1>5. CASE Installs(o)
  <2>1. PICK st \in State : GoesOn(o, "apply", st) /\ Writes(op[o].room, st) /\ Installation(o, st)
    BY <1>5 DEF Installs
  <2>2. CASE r = op[o].room
    <3>1. ToBeSaved(r)'
      BY <2>1, <2>2 DEF GoesOn, ToBeSaved
    <3> QED
      BY <3>1, LaterIsSaved DEF SavedLater
  <2>3. CASE r # op[o].room
    <3>1. OthersStay(o) /\ mem'[r] = mem[r] /\ dirty' = dirty
      BY <1>5, <2>1, <2>3 DEF Installs, GoesOn, Writes
    <3> QED
      BY <1>0, <2>3, <3>1, RoomStays, StillToBeSaved, StillUnsure DEF Unsent
  <2> QED
    BY <2>2, <2>3
<1>6. CASE WritesCommit(o)
  <2>1. /\ OthersStay(o) /\ dirty' = dirty /\ op[o].pc = "commit" /\ op[o].kind \in Writers
        /\ op'[o].kind = op[o].kind /\ op'[o].room = op[o].room
        /\ op'[o].pc \in {"send", "welcome"}
    BY <1>6 DEF WritesCommit, GoesOn
  <2>2. CASE r = op[o].room
    <3>1. Unsure(r)'
      BY <2>1, <2>2 DEF Unsure, Unsent
    <3>2. Nowhere(o) /\ op[o].st \in State
      BY <2>1 DEF CommitsAreNew, Uncommitted, Shapes, CallShape
    <3>3. mem'[r] = Committed(o) /\ mem'[r] # None
      BY <1>6, <2>2, Names DEF WritesCommit, Writes
    <3>4. Mentions(Committed(o).hist, o)
      <4>1. Committed(o).hist = Append(op[o].st.hist, o) /\ op[o].st.hist \in Seq(Ops \cup {Peer})
        BY <3>2, CommittedFields DEF State
      <4>2. Append(op[o].st.hist, o)[Len(op[o].st.hist) + 1] = o
            /\ Len(op[o].st.hist) + 1 \in DOMAIN Append(op[o].st.hist, o)
        BY <4>1
      <4> QED
        BY <4>1, <4>2 DEF Mentions
    <3>5. \A i \in DOMAIN tx : tx[i].st # mem'[r]
      BY <3>2, <3>3, <3>4 DEF Nowhere, In
    <3>6. NoFalseSave(r)'
      BY <1>0, <3>5 DEF NoFalseSave
    <3> QED
      BY <3>1, <3>6, LaterIsSaved DEF SavedLater
  <2>3. CASE r # op[o].room
    <3>1. mem'[r] = mem[r]
      BY <1>6, <2>3 DEF WritesCommit, Writes
    <3> QED
      BY <1>0, <2>1, <2>3, <3>1, RoomStays, StillToBeSaved, StillUnsure DEF Unsent
  <2> QED
    BY <2>2, <2>3
<1> QED
  BY <1>1, <1>2, <1>3, <1>4, <1>5, <1>6

-----------------------------------------------------------------------------
(* A save is asked for *)

LEMMA OwnSavesAppended ==
    ASSUME TypeOK, NEW e \in Save, tx' = Append(tx, e)
    PROVE  \E last \in DOMAIN tx' :
              /\ last \in Nat /\ last \notin DOMAIN tx /\ tx'[last] = e
              /\ \A i \in DOMAIN tx : i \in DOMAIN tx' /\ tx'[i] = tx[i] /\ i < last /\ i \in Nat
              /\ \A i \in DOMAIN tx' : (i = last \/ i \in DOMAIN tx) /\ i <= last /\ i \in Nat
              /\ \A r : OwnSaves(r)' = IF e.room = r /\ e.by # Disposer THEN OwnSaves(r) \cup {last}
                                       ELSE OwnSaves(r)
<1>1. PICK last \in DOMAIN tx' :
              /\ last \notin DOMAIN tx /\ tx'[last] = e
              /\ \A i \in DOMAIN tx : i \in DOMAIN tx' /\ tx'[i] = tx[i] /\ i < last /\ i \in Nat
              /\ \A i \in DOMAIN tx' : (i = last \/ i \in DOMAIN tx) /\ i <= last /\ i \in Nat
  BY AppendedSave
<1>2. ASSUME NEW r
      PROVE  OwnSaves(r)' = IF e.room = r /\ e.by # Disposer THEN OwnSaves(r) \cup {last} ELSE OwnSaves(r)
  BY <1>1 DEF OwnSaves
<1> QED
  BY <1>1, <1>2

\* The other rooms do not notice.
LEMMA OtherRoomAppended ==
    ASSUME TypeOK, NEW e \in Save, tx' = Append(tx, e), NEW r \in Rooms, e.room # r,
           mem' = mem, LastSaved(r)' = LastSaved(r),
           ToBeSaved(r) => ToBeSaved(r)', Unsure(r) => Unsure(r)' \/ ToBeSaved(r)',
           RoomIsSaved(r), Sweeps(r)
    PROVE  RoomIsSaved(r)' /\ Sweeps(r)'
<1>1. PICK last \in DOMAIN tx' :
              /\ last \in Nat /\ last \notin DOMAIN tx /\ tx'[last] = e
              /\ \A i \in DOMAIN tx : i \in DOMAIN tx' /\ tx'[i] = tx[i] /\ i < last /\ i \in Nat
              /\ \A i \in DOMAIN tx' : (i = last \/ i \in DOMAIN tx) /\ i <= last /\ i \in Nat
              /\ OwnSaves(r)' = OwnSaves(r)
  BY OwnSavesAppended
<1>2. OwnSaves(r) \subseteq DOMAIN tx
  BY DEF OwnSaves
<1>3. NoFalseSave(r) => NoFalseSave(r)'
  BY <1>1, <1>2 DEF NoFalseSave
<1>4. SavedLater(r) => SavedLater(r)'
  BY <1>3 DEF SavedLater
<1>5. EndsWith(r, mem[r]) => EndsWith(r, mem[r])'
  BY <1>1, <1>2 DEF EndsWith
<1>6. RoomIsSaved(r)'
  BY <1>4, <1>5 DEF RoomIsSaved
<1>7. Sweeps(r)'
  <2> SUFFICES ASSUME NEW i \in DOMAIN tx', tx'[i].room = r PROVE SweepIsGood(i)'
    BY DEF Sweeps
  <2>1. i \in DOMAIN tx /\ tx'[i] = tx[i]
    BY <1>1
  <2>2. SweepIsGood(i)
    BY <2>1 DEF Sweeps
  <2> QED
    BY <1>1, <1>4, <2>1, <2>2 DEF SweepIsGood
<1> QED
  BY <1>6, <1>7

\* A call's save of the room's state.
LEMMA OwnAppended ==
    ASSUME TypeOK, NEW e \in Save, tx' = Append(tx, e), e.by # Disposer, e.st = mem[e.room], mem' = mem
    PROVE  RoomIsSaved(e.room)' /\ Sweeps(e.room)'
<1> DEFINE r == e.room
<1>1. PICK last \in DOMAIN tx' :
              /\ last \in Nat /\ last \notin DOMAIN tx /\ tx'[last] = e
              /\ \A i \in DOMAIN tx : i \in DOMAIN tx' /\ tx'[i] = tx[i] /\ i < last /\ i \in Nat
              /\ \A i \in DOMAIN tx' : (i = last \/ i \in DOMAIN tx) /\ i <= last /\ i \in Nat
              /\ OwnSaves(r)' = OwnSaves(r) \cup {last}
  BY OwnSavesAppended
<1>2. OwnSaves(r) \subseteq DOMAIN tx
  BY DEF OwnSaves
<1>3. last \in OwnSaves(r)' /\ \A j \in OwnSaves(r)' : j <= last
  BY <1>1, <1>2
<1> HIDE DEF r
<1>4. EndsWith(r, mem[r])'
  BY <1>1, <1>3 DEF EndsWith, r
<1>5. Sweeps(r)'
  <2> SUFFICES ASSUME NEW i \in DOMAIN tx', tx'[i].room = r, tx'[i].by = Disposer
               PROVE  \E j \in OwnSaves(r)' : j > i
    BY DEF Sweeps, SweepIsGood
  <2>1. i \in DOMAIN tx
    BY <1>1
  <2>2. last > i
    BY <1>1, <2>1
  <2> QED
    BY <1>3, <2>2
<1> QED
  BY <1>4, <1>5 DEF RoomIsSaved, r

\* dispose()'s.
LEMMA SweepAppended ==
    ASSUME TypeOK, NEW e \in Save, tx' = Append(tx, e), e.by = Disposer, e.st = mem[e.room], mem' = mem,
           \A i \in DOMAIN tx : tx[i].by # Disposer,
           LastSaved(e.room)' = LastSaved(e.room), op' = op, dirty' = dirty, RoomIsSaved(e.room)
    PROVE  RoomIsSaved(e.room)' /\ Sweeps(e.room)'
<1> DEFINE r == e.room
<1>1. PICK last \in DOMAIN tx' :
              /\ last \in Nat /\ last \notin DOMAIN tx /\ tx'[last] = e
              /\ \A i \in DOMAIN tx : i \in DOMAIN tx' /\ tx'[i] = tx[i] /\ i < last /\ i \in Nat
              /\ \A i \in DOMAIN tx' : (i = last \/ i \in DOMAIN tx) /\ i <= last /\ i \in Nat
              /\ OwnSaves(r)' = OwnSaves(r)
  BY OwnSavesAppended
<1>2. OwnSaves(r) \subseteq DOMAIN tx
  BY DEF OwnSaves
<1> HIDE DEF r
<1>3. NoFalseSave(r) => NoFalseSave(r)'
  BY <1>1, <1>2 DEF NoFalseSave
<1>4. SavedLater(r) => SavedLater(r)'
  BY <1>3 DEF SavedLater, ToBeSaved, Unsure, Unsent
<1>5. EndsWith(r, mem[r]) => EndsWith(r, mem[r])'
  BY <1>1, <1>2 DEF EndsWith, r
<1>6. Sweeps(r)'
  BY <1>1 DEF Sweeps, SweepIsGood
<1> QED
  BY <1>4, <1>5, <1>6 DEF RoomIsSaved, r

\* The room is saved in memory.
LEMMA SavedInMemory ==
    ASSUME TypeOK, Queue, NEW q \in Rooms, SavesInMemory(q), mem' = mem, NEW r \in Rooms,
           ToBeSaved(r) => ToBeSaved(r)' \/ r = q, \A o \in Ops : Unsent(o, r) => Unsent(o, r)',
           RoomIsSaved(r), Sweeps(r)
    PROVE  RoomIsSaved(r)' /\ Sweeps(r)'
<1>1. /\ fallback'[q] = mem[q] /\ \A p \in Rooms : p # q => fallback'[p] = fallback[p]
      /\ useFallback' = useFallback /\ tx' = tx /\ idb' = idb
      /\ dirty' = dirty \ {q} /\ useFallback /\ mem[q] \in State
  BY InMemoryTypes
<1>2. CASE r = q
  <2>1. LastSaved(q)' = mem[q]
    BY <1>1, Names DEF LastSaved
  <2>2. tx = <<>>
    BY <1>1 DEF Queue
  <2>3. \A i \in DOMAIN tx' : FALSE
    BY <1>1, <2>2
  <2> QED
    BY <1>2, <2>1, <2>3 DEF RoomIsSaved, EndsWith, OwnSaves, Sweeps
<1>3. CASE r # q
  <2>1. LastSaved(r)' = LastSaved(r) /\ mem'[r] = mem[r]
    BY <1>1, <1>3 DEF LastSaved
  <2>2. Unsure(r) => Unsure(r)'
    BY <1>1, <1>3 DEF Unsure
  <2> QED
    BY <1>1, <1>3, <2>1, <2>2, RoomStays
<1> QED
  BY <1>2, <1>3

LEMMA SealSaves ==
    ASSUME TypeOK, Shapes, TypeOK', NEW o \in Ops, Bindings, Queue, ~Disposed, SealsAndSaves(o),
           NEW r \in Rooms, RoomIsSaved(r), Sweeps(r)
    PROVE  RoomIsSaved(r)' /\ Sweeps(r)'
<1> DEFINE q == op[o].room
<1>1. q \in Rooms /\ mem[q] # None
  BY ActiveCall DEF SealsAndSaves, Shapes, Bindings, CallBound
<1>2. mem' = mem /\ OthersStay(o) /\ op[o].pc = "apply"
  BY DEF SealsAndSaves, IsOver, GoesOn
<1>3. \A p \in Ops : Unsent(p, r) => Unsent(p, r)'
  BY <1>2 DEF Unsent, OthersStay
<1>4. ToBeSaved(r) => ToBeSaved(r)' \/ r = q
  BY <1>2 DEF ToBeSaved, OthersStay
<1>5. CASE NothingToSave(q)
  BY <1>1, <1>5 DEF NothingToSave
<1>6. CASE SavesInMemory(q)
  <2> HIDE DEF q
  <2> QED
    BY <1>1, <1>2, <1>3, <1>4, <1>6, SavedInMemory
<1>7. CASE RequestsSave(o, q)
  <2> DEFINE e == [by |-> o, room |-> q, st |-> mem[q]]
  <2>1. /\ e \in Save /\ tx' = Append(tx, e) /\ dirty' = dirty
        /\ UNCHANGED <<useFallback, fallback, idb>>
    BY <1>1, <1>7, RequestTypes DEF Save
  <2>2. e.by = o /\ e.room = q /\ e.st = mem[q] /\ o # Disposer
    BY Names
  <2> HIDE DEF e, q
  <2>3. CASE r = q
    BY <1>2, <2>1, <2>2, <2>3, OwnAppended
  <2>4. CASE r # q
    <3>1. LastSaved(r)' = LastSaved(r)
      BY <2>1 DEF LastSaved
    <3>2. Unsure(r) => Unsure(r)'
      BY <1>3, <2>1 DEF Unsure
    <3> QED
      BY <1>2, <1>4, <2>1, <2>2, <2>4, <3>1, <3>2, OtherRoomAppended
  <2> QED
    BY <2>3, <2>4
<1> QED
  BY <1>5, <1>6, <1>7 DEF SealsAndSaves

-----------------------------------------------------------------------------
(* A save commits, or aborts *)

LEMMA PopShift ==
    ASSUME TypeOK, tx # <<>>, tx' = Tail(tx), NEW r
    PROVE  /\ 1 \in DOMAIN tx /\ Head(tx) = tx[1] /\ tx[1] \in Save
           /\ \A i \in DOMAIN tx : i \in Nat /\ i >= 1
           /\ \A i \in DOMAIN tx' : i \in Nat /\ i >= 1 /\ i + 1 \in DOMAIN tx /\ tx'[i] = tx[i + 1]
           /\ \A i \in OwnSaves(r) : i \in DOMAIN tx /\ i \in Nat
           /\ \A i \in OwnSaves(r) : i # 1 => i - 1 \in OwnSaves(r)' /\ tx'[i - 1] = tx[i]
           /\ \A i \in OwnSaves(r)' : i \in DOMAIN tx' /\ i \in Nat /\ i + 1 \in OwnSaves(r)
<1>1. /\ Head(tx) = tx[1] /\ tx[1] \in Save /\ 1 \in DOMAIN tx
      /\ \A i \in DOMAIN tx' : i \in Nat /\ i >= 1 /\ i + 1 \in DOMAIN tx /\ tx'[i] = tx[i + 1]
      /\ \A i \in DOMAIN tx : i # 1 => i - 1 \in DOMAIN tx' /\ tx'[i - 1] = tx[i]
      /\ \A i \in DOMAIN tx : i \in Nat /\ i >= 1
  BY HeadOfQueue
<1>2. /\ \A i \in OwnSaves(r) : i \in DOMAIN tx /\ i \in Nat
      /\ \A i \in OwnSaves(r)' : i \in DOMAIN tx' /\ i \in Nat
  BY <1>1 DEF OwnSaves
<1>3. \A i \in OwnSaves(r) : i # 1 => i - 1 \in OwnSaves(r)' /\ tx'[i - 1] = tx[i]
  BY <1>1 DEF OwnSaves
<1>4. \A i \in OwnSaves(r)' : i + 1 \in OwnSaves(r)
  BY <1>1 DEF OwnSaves
<1> QED
  BY <1>1, <1>2, <1>3, <1>4

LEMMA PopNoFalse ==
    ASSUME TypeOK, tx # <<>>, tx' = Tail(tx), mem' = mem, NEW r, NoFalseSave(r)
    PROVE  NoFalseSave(r)'
<1> SUFFICES ASSUME NEW i \in DOMAIN tx', tx'[i].room = r, tx'[i].st = mem[r]
             PROVE  tx'[i].by = Disposer /\ \A j \in OwnSaves(r)' : j < i
  BY DEF NoFalseSave
<1>1. i \in Nat /\ i + 1 \in DOMAIN tx /\ tx'[i] = tx[i + 1]
  BY PopShift
<1>2. tx'[i].by = Disposer /\ \A j \in OwnSaves(r) : j < i + 1
  BY <1>1 DEF NoFalseSave
<1>3. ASSUME NEW j \in OwnSaves(r)' PROVE j < i
  <2>1. j \in Nat /\ j + 1 \in OwnSaves(r)
    BY PopShift
  <2>2. j + 1 < i + 1
    BY <1>2, <2>1
  <2> QED
    BY <1>1, <2>1, <2>2
<1> QED
  BY <1>2, <1>3

LEMMA PopEnds ==
    ASSUME TypeOK, tx # <<>>, tx' = Tail(tx), NEW r, NEW i \in OwnSaves(r), i # 1,
           \A j \in OwnSaves(r) : j <= i, NEW st, tx[i].st = st
    PROVE  EndsWith(r, st)'
<1>1. i \in Nat /\ i - 1 \in OwnSaves(r)' /\ tx'[i - 1] = tx[i]
  BY PopShift
<1>2. ASSUME NEW j \in OwnSaves(r)' PROVE j <= i - 1
  <2>1. j \in Nat /\ j + 1 \in OwnSaves(r)
    BY PopShift
  <2>2. j + 1 <= i
    BY <2>1
  <2> QED
    BY <1>1, <2>1, <2>2
<1> QED
  BY <1>1, <1>2 DEF EndsWith

LEMMA PopSweeps ==
    ASSUME TypeOK, tx # <<>>, tx' = Tail(tx), mem' = mem, NEW r, Sweeps(r),
           SavedLater(r) => SavedLater(r)'
    PROVE  Sweeps(r)'
<1> SUFFICES ASSUME NEW i \in DOMAIN tx', tx'[i].room = r, tx'[i].by = Disposer PROVE SweepIsGood(i)'
  BY DEF Sweeps, SweepIsGood
<1>1. i \in Nat /\ i + 1 \in DOMAIN tx /\ tx'[i] = tx[i + 1]
  BY PopShift
<1>2. \/ tx[i + 1].st = mem[r] \/ SavedLater(r) \/ \E j \in OwnSaves(r) : j > i + 1
  BY <1>1 DEF Sweeps, SweepIsGood
<1>3. CASE \E j \in OwnSaves(r) : j > i + 1
  <2>1. PICK j \in OwnSaves(r) : j > i + 1
    BY <1>3
  <2>2. j \in Nat /\ j # 1 /\ j - 1 > i
    BY <1>1, <2>1, PopShift
  <2>3. j - 1 \in OwnSaves(r)'
    BY <2>2, PopShift
  <2> QED
    BY <2>2, <2>3 DEF SweepIsGood
<1> QED
  BY <1>1, <1>2, <1>3 DEF SweepIsGood

\* A save is gone that is not a call's for this room, and not missed.
LEMMA PopOther ==
    ASSUME TypeOK, tx # <<>>, tx' = Tail(tx), mem' = mem, NEW r, 1 \notin OwnSaves(r),
           LastSaved(r)' = LastSaved(r), ToBeSaved(r) => ToBeSaved(r)', Unsure(r) => Unsure(r)',
           RoomIsSaved(r), Sweeps(r)
    PROVE  RoomIsSaved(r)' /\ Sweeps(r)'
<1>1. SavedLater(r) => SavedLater(r)'
  BY PopNoFalse DEF SavedLater
<1>2. EndsWith(r, mem[r]) => EndsWith(r, mem[r])'
  <2>1. CASE OwnSaves(r) = {} /\ LastSaved(r) = mem[r]
    <3>1. OwnSaves(r)' = {}
      BY <2>1, PopShift
    <3> QED
      BY <2>1, <3>1 DEF EndsWith
  <2>2. ASSUME NEW i \in OwnSaves(r), tx[i].st = mem[r], \A j \in OwnSaves(r) : j <= i
        PROVE  EndsWith(r, mem[r])'
    <3> DEFINE st == mem[r]
    <3>1. i # 1 /\ tx[i].st = st /\ mem'[r] = st
      BY <2>2
    <3> HIDE DEF st
    <3>2. \A x : x = st => EndsWith(r, x)'
      BY <2>2, <3>1, PopEnds
    <3> QED
      BY <3>1, <3>2
  <2> QED
    BY <2>1, <2>2 DEF EndsWith
<1> QED
  BY <1>1, <1>2, PopSweeps DEF RoomIsSaved

\* Nothing of the room is under way but what is left of the queue.
LEMMA PopOwn ==
    ASSUME TypeOK, tx # <<>>, tx' = Tail(tx), mem' = mem, NEW r, 1 \in OwnSaves(r),
           ToBeSaved(r) => ToBeSaved(r)', \A o \in Ops : Unsent(o, r) => Unsent(o, r)',
           RoomIsSaved(r), Sweeps(r), mem[r] # None,
           \/ tx[1].st = mem[r] /\ LastSaved(r)' = mem[r]      \* it commits what memory has,
           \/ tx[1].st # mem[r] /\ dirty' = dirty              \* or another state,
           \/ dirty' = dirty \cup {r}                          \* or aborts
    PROVE  RoomIsSaved(r)' /\ Sweeps(r)'
<1>1. NoFalseSave(r) => tx[1].st # mem[r]
  BY DEF NoFalseSave, OwnSaves
<1>2. SavedLater(r) => SavedLater(r)'
  <2>1. NoFalseSave(r) => NoFalseSave(r)'
    BY PopNoFalse
  <2>2. tx[1].st # mem[r] /\ Unsure(r) => Unsure(r)'
    BY DEF Unsure
  <2> QED
    BY <1>1, <2>1, <2>2 DEF SavedLater
<1>3. Sweeps(r)'
  BY <1>2, PopSweeps
<1>4. ASSUME NEW i \in OwnSaves(r), tx[i].st = mem[r], \A j \in OwnSaves(r) : j <= i
      PROVE  EndsWith(r, mem[r])' \/ SavedLater(r)'
  <2>1. CASE i = 1
    <3>1. OwnSaves(r)' = {}
      <4> SUFFICES ASSUME NEW j \in OwnSaves(r)' PROVE FALSE
        OBVIOUS
      <4>1. j \in Nat /\ j >= 1 /\ j + 1 \in OwnSaves(r)
        BY PopShift
      <4>2. j + 1 <= 1
        BY <1>4, <2>1, <4>1
      <4> QED
        BY <4>1, <4>2
    <3>2. CASE LastSaved(r)' = mem[r]
      BY <3>1, <3>2 DEF EndsWith
    <3>3. CASE dirty' = dirty \cup {r}
      <4>1. \A k \in DOMAIN tx' : tx'[k].room = r => tx'[k].by = Disposer
        BY <3>1 DEF OwnSaves
      <4> QED
        BY <3>1, <3>3, <4>1 DEF SavedLater, Unsure, NoFalseSave
    <3> QED
      BY <1>4, <2>1, <3>2, <3>3
  <2>2. CASE i # 1
    <3> DEFINE st == mem[r]
    <3>1. tx[i].st = st /\ mem'[r] = st
      BY <1>4
    <3> HIDE DEF st
    <3>2. \A x : x = st => EndsWith(r, x)'
      BY <1>4, <2>2, <3>1, PopEnds
    <3> QED
      BY <3>1, <3>2
  <2> QED
    BY <2>1, <2>2
<1>5. RoomIsSaved(r)'
  <2>1. OwnSaves(r) # {}
    OBVIOUS
  <2> QED
    BY <1>2, <1>4, <2>1 DEF RoomIsSaved, EndsWith
<1> QED
  BY <1>3, <1>5

\* dispose()'s save of the room commits.
LEMMA PopSweep ==
    ASSUME TypeOK, Queue, tx # <<>>, tx' = Tail(tx), mem' = mem, op' = op, NEW r,
           tx[1].room = r, tx[1].by = Disposer, LastSaved(r)' = tx[1].st,
           tx[1].st = mem[r] \/ dirty' = dirty,
           RoomIsSaved(r), Sweeps(r)
    PROVE  RoomIsSaved(r)' /\ Sweeps(r)'
<1>0. 1 \in DOMAIN tx /\ 1 \notin OwnSaves(r)
  BY PopShift DEF OwnSaves
<1>1. Sweeps(r)'
  <2> SUFFICES ASSUME NEW i \in DOMAIN tx', tx'[i].by = Disposer PROVE FALSE
    BY DEF Sweeps, SweepIsGood
  <2>1. i \in Nat /\ i >= 1 /\ i + 1 \in DOMAIN tx /\ tx'[i] = tx[i + 1]
    BY PopShift
  <2>2. i + 1 = 1
    BY <1>0, <2>1 DEF Queue
  <2> QED
    BY <2>1, <2>2
<1>2. ToBeSaved(r) => ToBeSaved(r)'
  BY DEF ToBeSaved
<1>3. tx[1].st # mem[r] /\ Unsure(r) /\ NoFalseSave(r) => SavedLater(r)'
  <2>1. NoFalseSave(r) => NoFalseSave(r)'
    BY PopNoFalse
  <2> QED
    BY <2>1 DEF SavedLater, Unsure, Unsent
<1>4. OwnSaves(r) = {} => OwnSaves(r)' = {}
  BY PopShift
<1>5. tx[1].st = mem[r] /\ NoFalseSave(r) => OwnSaves(r) = {}
  <2> SUFFICES ASSUME tx[1].st = mem[r], NoFalseSave(r), NEW j \in OwnSaves(r) PROVE FALSE
    OBVIOUS
  <2>1. j < 1
    BY <1>0 DEF NoFalseSave
  <2>2. j \in Nat /\ j >= 1
    BY PopShift DEF OwnSaves
  <2> QED
    BY <2>1, <2>2
<1>6. OwnSaves(r) = {} /\ tx[1].st = mem[r] => EndsWith(r, mem[r])'
  BY <1>4 DEF EndsWith
<1>7. SavedLater(r) => SavedLater(r)' \/ EndsWith(r, mem[r])'
  BY <1>2, <1>3, <1>5, <1>6 DEF SavedLater
<1>8. ASSUME EndsWith(r, mem[r]), OwnSaves(r) # {} PROVE EndsWith(r, mem[r])'
  <2> DEFINE st == mem[r]
  <2>1. PICK i \in OwnSaves(r) : tx[i].st = st /\ \A j \in OwnSaves(r) : j <= i
    BY <1>8 DEF EndsWith
  <2>2. mem'[r] = st /\ i # 1
    BY <1>0
  <2> HIDE DEF st
  <2>3. \A x : x = st => EndsWith(r, x)'
    BY <2>1, <2>2, PopEnds
  <2> QED
    BY <2>2, <2>3
<1>9. ASSUME OwnSaves(r) = {} PROVE SavedLater(r)' \/ EndsWith(r, mem[r])'
  <2>1. tx[1].st = mem[r] \/ SavedLater(r) \/ \E j \in OwnSaves(r) : j > 1
    BY <1>0 DEF Sweeps, SweepIsGood
  <2> QED
    BY <1>6, <1>7, <1>9, <2>1
<1>10. RoomIsSaved(r)'
  BY <1>7, <1>8, <1>9 DEF RoomIsSaved
<1> QED
  BY <1>1, <1>10

\* A room without a state.
LEMMA PopEmpty ==
    ASSUME TypeOK, tx # <<>>, tx' = Tail(tx), mem' = mem, NEW r, mem[r] = None, Sweeps(r),
           SavedLater(r) => SavedLater(r)'
    PROVE  RoomIsSaved(r)' /\ Sweeps(r)'
  BY PopSweeps DEF RoomIsSaved

\* Who waited for the save goes on; no call that is about to save is that one.
LEMMA PopCalls ==
    ASSUME TypeOK, Queue, tx # <<>>, tx' = Tail(tx), \A p \in Ops : p # tx[1].by => op'[p] = op[p], NEW r
    PROVE  /\ ToBeSaved(r) => ToBeSaved(r)'
           /\ \A p \in Ops : Unsent(p, r) => Unsent(p, r)'
           /\ \A p \in Ops : Unsent(p, r)' /\ p # tx[1].by => Unsent(p, r)
<1>1. 1 \in DOMAIN tx
  BY PopShift
<1>2. tx[1].by \in Ops => op[tx[1].by].pc = "persist"
  BY <1>1 DEF Queue
<1> QED
  BY <1>2 DEF ToBeSaved, Unsent

LEMMA CommitSaves ==
    ASSUME TypeOK, TypeOK', Queue, SaveCommits, NEW r \in Rooms, RoomIsSaved(r), Sweeps(r)
    PROVE  RoomIsSaved(r)' /\ Sweeps(r)'
<1>0. PICK h : h = tx[1]
  OBVIOUS
<1>1. /\ 1 \in DOMAIN tx /\ Head(tx) = h /\ h \in Save /\ tx # <<>> /\ tx' = Tail(tx)
      /\ h.by \in Ops \cup {Disposer} /\ h.room \in Rooms /\ h.st \in State
  BY <1>0, PopShift, HeadOfQueue DEF SaveCommits
<1>2. /\ Saved(h.by) /\ idb' = [idb EXCEPT ![h.room] = h.st]
      /\ dirty' = IF mem[h.room] = h.st THEN dirty \ {h.room} ELSE dirty
      /\ UNCHANGED <<mem, useFallback, fallback>>
  BY <1>1 DEF SaveCommits, groupVars
<1>3. /\ \A p \in Ops : p # h.by => op'[p] = op[p]
      /\ h.by = Disposer => op' = op
  BY <1>1, <1>2, SavedDoes DEF IsOver, OthersStay
<1>4. /\ ToBeSaved(r) => ToBeSaved(r)'
      /\ \A p \in Ops : Unsent(p, r) => Unsent(p, r)'
  BY <1>0, <1>1, <1>3, PopCalls
<1>5. ~useFallback
  BY <1>1 DEF Queue
<1>6. LastSaved(h.room)' = h.st /\ (r # h.room => LastSaved(r)' = LastSaved(r))
  <2>1. idb \in [Rooms -> State \cup {None}]
    BY DEF TypeOK
  <2>2. idb'[h.room] = h.st /\ (r # h.room => idb'[r] = idb[r])
    BY <1>1, <1>2, <2>1
  <2> QED
    BY <1>2, <1>5, <2>2 DEF LastSaved
<1>7. 1 \in OwnSaves(r) <=> h.room = r /\ h.by # Disposer
  BY <1>0, <1>1 DEF OwnSaves
<1>8. CASE h.room # r
  <2>1. Unsure(r) => Unsure(r)'
    BY <1>2, <1>4, <1>8 DEF Unsure
  <2> QED
    BY <1>1, <1>2, <1>4, <1>6, <1>7, <1>8, <2>1, PopOther
<1>9. CASE h.room = r /\ mem[r] = None
  <2>1. h.st # None
    BY <1>1, Names
  <2>2. dirty' = dirty
    BY <1>2, <1>9, <2>1
  <2>3. SavedLater(r) => SavedLater(r)'
    <3>1. NoFalseSave(r) => NoFalseSave(r)'
      BY <1>1, <1>2, PopNoFalse
    <3> QED
      BY <1>4, <2>2, <3>1 DEF SavedLater, Unsure
  <2> QED
    BY <1>1, <1>2, <1>9, <2>3, PopEmpty
<1>10. CASE h.room = r /\ mem[r] # None /\ h.by # Disposer
  <2>1. \/ h.st = mem[r] /\ LastSaved(r)' = mem[r]
        \/ h.st # mem[r] /\ dirty' = dirty
    BY <1>2, <1>6, <1>10
  <2> QED
    BY <1>1, <1>2, <1>4, <1>7, <1>10, <2>1, <1>0, PopOwn
<1>11. CASE h.room = r /\ h.by = Disposer
  <2>1. h.st = mem[r] \/ dirty' = dirty
    BY <1>2, <1>11
  <2> QED
    BY <1>1, <1>2, <1>3, <1>6, <1>11, <2>1, <1>0, PopSweep
<1> QED
  BY <1>8, <1>9, <1>10, <1>11

LEMMA AbortSaves ==
    ASSUME TypeOK, TypeOK', Queue, SaveAborts, NEW r \in Rooms, RoomIsSaved(r), Sweeps(r)
    PROVE  RoomIsSaved(r)' /\ Sweeps(r)'
<1> DEFINE h == tx[1]
<1>1. /\ 1 \in DOMAIN tx /\ Head(tx) = h /\ h \in Save /\ tx # <<>> /\ tx' = Tail(tx)
      /\ h.by \in Ops \cup {Disposer} /\ h.room \in Rooms
  BY PopShift, HeadOfQueue DEF SaveAborts
<1>2. /\ UNCHANGED <<mem, useFallback, fallback, idb>>
      /\ \/ h.by = Disposer /\ op' = op /\ dirty' = dirty
         \/ h.by # Disposer /\ Returns(h.by) /\ dirty' = dirty \cup {h.room}
  BY <1>1 DEF SaveAborts, groupVars
<1>3. \A p \in Ops : p # h.by => op'[p] = op[p]
  BY <1>1, <1>2, ReturnsIsOver DEF IsOver, OthersStay
<1>4. /\ ToBeSaved(r) => ToBeSaved(r)'
      /\ \A p \in Ops : Unsent(p, r) => Unsent(p, r)'
  BY <1>1, <1>3, PopCalls
<1>5. LastSaved(r)' = LastSaved(r)
  BY <1>2 DEF LastSaved
<1>6. 1 \in OwnSaves(r) <=> h.room = r /\ h.by # Disposer
  BY <1>1 DEF OwnSaves
<1> HIDE DEF h
<1>7. Unsure(r) => Unsure(r)'
  BY <1>2, <1>4 DEF Unsure
<1>8. CASE 1 \notin OwnSaves(r)
  BY <1>1, <1>2, <1>4, <1>5, <1>7, <1>8, PopOther
<1>9. CASE mem[r] = None
  <2>1. NoFalseSave(r) => NoFalseSave(r)'
    BY <1>1, <1>2, PopNoFalse
  <2> QED
    BY <1>1, <1>2, <1>4, <1>7, <1>9, <2>1, PopEmpty DEF SavedLater
<1>10. CASE 1 \in OwnSaves(r) /\ mem[r] # None
  <2>1. dirty' = dirty \cup {r}
    BY <1>2, <1>6, <1>10
  <2> QED
    BY <1>1, <1>2, <1>4, <1>10, <2>1, PopOwn
<1> QED
  BY <1>8, <1>9, <1>10

\* The in-memory store takes over.
LEMMA FallbackSaves ==
    ASSUME TypeOK, TypeOK', Queue, SaveFallsBack, NEW r \in Rooms, RoomIsSaved(r), Sweeps(r)
    PROVE  RoomIsSaved(r)' /\ Sweeps(r)'
<1>1. /\ mem' = mem /\ idb' = idb /\ useFallback' = TRUE /\ tx' = <<>> /\ tx # <<>>
      /\ dirty' = {q \in dirty : mem[q] # fallback'[q]}
  BY DEF SaveFallsBack, groupVars
<1>2. ~useFallback /\ fallback[r] = None
  BY <1>1 DEF Queue
<1>3. (\A i \in DOMAIN tx' : FALSE) /\ OwnSaves(r)' = {}
  BY <1>1 DEF OwnSaves
<1>4. NoFalseSave(r)' /\ Sweeps(r)'
  BY <1>3 DEF NoFalseSave, Sweeps
<1>5. ToBeSaved(r) => ToBeSaved(r)'
  BY FallsBackCalls DEF ToBeSaved
<1>6. \A p \in Ops : Unsent(p, r) => Unsent(p, r)'
  BY FallsBackCalls DEF Unsent
<1>7. fallback'[r] # mem[r] /\ SavedLater(r) => SavedLater(r)'
  BY <1>1, <1>4, <1>5, <1>6 DEF SavedLater, Unsure
<1>8. CASE SavesOf(r) = {}
  <2>1. fallback'[r] = None
    BY <1>2, <1>8, FallbackTakes
  <2>2. LastSaved(r)' = LastSaved(r) /\ OwnSaves(r) = {}
    BY <1>1, <1>2, <1>8, <2>1 DEF LastSaved, OwnSaves, SavesOf
  <2> QED
    BY <1>1, <1>3, <1>4, <1>7, <2>1, <2>2 DEF RoomIsSaved, EndsWith
<1>9. CASE SavesOf(r) # {}
  <2>1. PICK i \in SavesOf(r) : fallback'[r] = tx[i].st /\ \A j \in SavesOf(r) : j <= i
    BY <1>9, FallbackTakes
  <2>0. \A j \in DOMAIN tx : j \in Nat
    <3>1. tx \in Seq(Save)
      BY DEF TypeOK, Save
    <3> QED
      BY <3>1
  <2>2. i \in DOMAIN tx /\ tx[i].room = r /\ i \in Nat /\ OwnSaves(r) \subseteq SavesOf(r)
    BY <2>0, <2>1 DEF SavesOf, OwnSaves
  <2>3. tx[i].st # None
    <3>1. tx \in Seq(Save)
      BY DEF TypeOK, Save
    <3>2. tx[i] \in Save
      BY <2>2, <3>1
    <3> QED
      BY <3>2, Names DEF Save
  <2>4. LastSaved(r)' = tx[i].st
    BY <1>1, <2>1, <2>3 DEF LastSaved
  <2>5. CASE tx[i].st = mem[r]
    BY <1>1, <1>3, <1>4, <2>4, <2>5 DEF RoomIsSaved, EndsWith
  <2>6. CASE tx[i].st # mem[r] /\ mem[r] # None
    <3>1. \A j \in OwnSaves(r) : j \in Nat /\ j <= i
      BY <2>0, <2>1, <2>2 DEF OwnSaves
    <3>2. CASE tx[i].by # Disposer
      <4>1. i \in OwnSaves(r)
        BY <2>2, <3>2 DEF OwnSaves
      <4>2. ASSUME NEW k \in OwnSaves(r), tx[k].st = mem[r], \A j \in OwnSaves(r) : j <= k PROVE FALSE
        <5>1. k <= i /\ i <= k /\ k \in Nat
          BY <3>1, <4>1, <4>2
        <5>2. k = i
          BY <2>2, <5>1
        <5> QED
          BY <2>6, <4>2, <5>2
      <4>3. SavedLater(r)
        BY <2>6, <4>1, <4>2 DEF RoomIsSaved, EndsWith
      <4> QED
        BY <1>4, <1>7, <2>1, <2>6, <4>3 DEF RoomIsSaved
    <3>3. CASE tx[i].by = Disposer
      <4>1. ~ \E j \in OwnSaves(r) : j > i
        BY <2>2, <3>1
      <4>2. SavedLater(r)
        BY <2>2, <2>6, <3>3, <4>1 DEF Sweeps, SweepIsGood
      <4> QED
        BY <1>4, <1>7, <2>1, <2>6, <4>2 DEF RoomIsSaved
    <3> QED
      BY <3>2, <3>3
  <2>7. CASE mem[r] = None
    BY <1>1, <1>4, <2>7 DEF RoomIsSaved
  <2> QED
    BY <2>5, <2>6, <2>7
<1> QED
  BY <1>8, <1>9

LEMMA StoreSaves ==
    ASSUME TypeOK, TypeOK', Queue, Store, NEW r \in Rooms, RoomIsSaved(r), Sweeps(r)
    PROVE  RoomIsSaved(r)' /\ Sweeps(r)'
<1>1. CASE IdbBecomesUnavailable
  <2>1. tx' = tx /\ mem' = mem /\ op' = op /\ dirty' = dirty /\ UNCHANGED <<useFallback, fallback, idb>>
    BY <1>1 DEF IdbBecomesUnavailable, pageVars, historyVars
  <2> QED
    BY <2>1, RoomStays DEF LastSaved, ToBeSaved, Unsure, Unsent
<1> QED
  BY <1>1, CommitSaves, AbortSaves, FallbackSaves DEF Store

-----------------------------------------------------------------------------
(* The other steps *)

\* Before the first call nothing waits to be saved.
LEMMA SavedAtFirst ==
    ASSUME TypeOK, RestoreComesFirst, init \in {"none", "listing", "restoring"}, NEW r \in Rooms, RoomIsSaved(r)
    PROVE  (mem[r] # None => LastSaved(r) = mem[r]) /\ tx = <<>> /\ ~SavedLater(r)
<1>1. tx = <<>> /\ dirty = {} /\ \A p \in Ops : op[p].pc \in {"idle", "done"}
  BY DEF RestoreComesFirst, Active
<1>2. (\A i \in DOMAIN tx : FALSE) /\ OwnSaves(r) = {}
  BY <1>1 DEF OwnSaves
<1>3. ~SavedLater(r)
  BY <1>1 DEF SavedLater, ToBeSaved, Unsure, Unsent
<1> QED
  BY <1>1, <1>2, <1>3 DEF RoomIsSaved, EndsWith

LEMMA SavedAgain ==
    ASSUME NEW r, tx' = <<>>, mem'[r] # None => LastSaved(r)' = mem'[r]
    PROVE  RoomIsSaved(r)' /\ Sweeps(r)'
<1>1. (\A i \in DOMAIN tx' : FALSE) /\ OwnSaves(r)' = {}
  BY DEF OwnSaves
<1> QED
  BY <1>1 DEF RoomIsSaved, EndsWith, Sweeps

LEMMA SwitchKeeps ==
    ASSUME TypeOK, Queue, useFallback' = Switched, NEW r \in Rooms, idb'[r] = idb[r],
           fallback'[r] = fallback[r]
    PROVE  LastSaved(r)' = LastSaved(r)
<1>1. useFallback \in BOOLEAN /\ idbUp \in BOOLEAN
  BY DEF TypeOK
<1> QED
  BY <1>1 DEF Queue, Switched, LastSaved

LEMMA InitialiseSaves ==
    ASSUME TypeOK, TypeOK', Queue, RestoreComesFirst, Initialise, NEW r \in Rooms, RoomIsSaved(r), Sweeps(r)
    PROVE  RoomIsSaved(r)' /\ Sweeps(r)'
<1>0. init \in {"none", "listing", "restoring"}
  BY DEF Initialise, Imported, RoomsListed, RoomRestored, RestoreThrows, RestoreDone, RoomLoaded,
     RoomDropped, RestoreComesFirst
<1>1. (mem[r] # None => LastSaved(r) = mem[r]) /\ tx = <<>>
  BY <1>0, SavedAtFirst
<1>2. CASE Imported \/ RoomRestored \/ RestoreThrows \/ RestoreDone
  <2>1. mem' = mem /\ LastSaved(r)' = LastSaved(r) /\ tx' = tx
    BY <1>2 DEF Imported, RoomRestored, RestoreThrows, RestoreDone, storeVars, groupVars, LastSaved
  <2> QED
    BY <1>1, <2>1, SavedAgain
<1>3. CASE RoomsListed
  <2>1. mem' = mem /\ tx' = tx /\ useFallback' = Switched /\ fallback' = fallback /\ idb' = idb
    BY <1>3 DEF RoomsListed, groupVars
  <2> QED
    BY <1>1, <2>1, SwitchKeeps, SavedAgain
<1>4. ASSUME NEW q \in Rooms, RoomLoaded(q) PROVE RoomIsSaved(r)' /\ Sweeps(r)'
  <2>1. /\ tx' = tx /\ useFallback' = Switched /\ fallback' = fallback /\ idb' = idb
        /\ mem' = mem \/ (Read(q) \in State /\ Writes(q, Read(q)))
    BY <1>4, RoomLoadedDoes
  <2>2. LastSaved(r)' = LastSaved(r)
    BY <2>1, SwitchKeeps
  <2>3. Read(q) \in State => LastSaved(q)' = Read(q)
    BY <2>1, Names, ReadTypes DEF LastSaved
  <2> QED
    BY <1>1, <2>1, <2>2, <2>3, SavedAgain DEF Writes
<1>5. ASSUME NEW q \in Rooms, RoomDropped(q) PROVE RoomIsSaved(r)' /\ Sweeps(r)'
  <2>1. /\ tx' = tx /\ mem' = mem /\ useFallback' = Switched /\ init = "restoring" /\ q \in toRestore
        /\ idb' = IF Switched THEN idb ELSE [idb EXCEPT ![q] = None]
        /\ fallback' = IF Switched THEN [fallback EXCEPT ![q] = None] ELSE fallback
    BY <1>5 DEF RoomDropped, groupVars
  <2>2. mem[q] = None
    BY <2>1 DEF RestoreComesFirst
  <2>3. r # q => idb'[r] = idb[r] /\ fallback'[r] = fallback[r]
    <3>1. idb \in [Rooms -> State \cup {None}] /\ fallback \in [Rooms -> State \cup {None}]
      BY DEF TypeOK
    <3> QED
      BY <2>1, <3>1
  <2> QED
    BY <1>1, <2>1, <2>2, <2>3, SwitchKeeps, SavedAgain
<1> QED
  BY <1>2, <1>3, <1>4, <1>5 DEF Initialise

LEMMA DisposeSaves ==
    ASSUME TypeOK, TypeOK', Queue, Dispose, ~Disposed', NEW r \in Rooms, RoomIsSaved(r), Sweeps(r)
    PROVE  RoomIsSaved(r)' /\ Sweeps(r)'
<1>1. CASE DisposeBegins
  <2>1. op' = op /\ dirty' = dirty /\ tx' = tx /\ mem' = mem /\ UNCHANGED <<useFallback, fallback, idb>>
    BY <1>1 DEF DisposeBegins, groupVars, storeVars, historyVars
  <2> QED
    BY <2>1, RoomStays DEF LastSaved, ToBeSaved, Unsure, Unsent
<1>2. CASE DisposeEnds
  BY <1>2 DEF DisposeEnds, Disposed, TypeOK
<1>3. ASSUME NEW q \in Rooms, SweepRoom(q) PROVE RoomIsSaved(r)' /\ Sweeps(r)'
  <2>1. op' = op /\ mem' = mem /\ disposal.pc = "sweeping"
    BY <1>3 DEF SweepRoom, groupVars
  <2>2. (ToBeSaved(r) => ToBeSaved(r)') /\ \A p \in Ops : Unsent(p, r) => Unsent(p, r)'
    BY <2>1 DEF ToBeSaved, Unsent
  <2>3. CASE SavesInMemory(q)
    BY <2>1, <2>2, <2>3, SavedInMemory
  <2>4. CASE RequestsSave(Disposer, q)
    <3> DEFINE e == [by |-> Disposer, room |-> q, st |-> mem[q]]
    <3>1. /\ e \in Save /\ tx' = Append(tx, e) /\ dirty' = dirty
          /\ UNCHANGED <<useFallback, fallback, idb>>
      BY <2>4, RequestTypes DEF Save
    <3>2. e.by = Disposer /\ e.room = q /\ e.st = mem[q]
      OBVIOUS
    <3>3. LastSaved(r)' = LastSaved(r) /\ (Unsure(r) => Unsure(r)')
      BY <2>1, <3>1 DEF LastSaved, Unsure, Unsent
    <3>4. \A i \in DOMAIN tx : tx[i].by # Disposer
      BY <2>1 DEF Queue
    <3> HIDE DEF e
    <3>5. CASE r = q
      BY <2>1, <3>1, <3>2, <3>3, <3>4, <3>5, SweepAppended
    <3>6. CASE r # q
      BY <2>1, <2>2, <3>1, <3>2, <3>3, <3>6, OtherRoomAppended
    <3> QED
      BY <3>5, <3>6
  <2> QED
    BY <1>3, <2>3, <2>4 DEF SweepRoom
<1> QED
  BY <1>1, <1>2, <1>3 DEF Dispose

LEMMA SavesKept ==
    ASSUME MlsInv, TypeOK', Others \/ \E o \in Ops : CallSteps(o)
    PROVE  SaveIsOnItsWay' /\ DisposerSaves'
<1>0. /\ TypeOK /\ Shapes /\ Bindings /\ Queue /\ RestoreComesFirst /\ CommitsAreNew
      /\ ~Disposed => \A r \in Rooms : RoomIsSaved(r) /\ Sweeps(r)
  BY SavesByRoom DEF MlsInv
<1> SUFFICES ASSUME ~Disposed', NEW r \in Rooms PROVE RoomIsSaved(r)' /\ Sweeps(r)'
  BY SavesByRoomNext
<1>1. CASE Reload
  BY <1>1, SavedAgain DEF Reload
<1>2. SUFFICES ASSUME ~Reload PROVE RoomIsSaved(r)' /\ Sweeps(r)'
  BY <1>1
<1>3. ASSUME NEW o \in Ops, CallSteps(o) PROVE RoomIsSaved(r)' /\ Sweeps(r)'
  <2>1. disposal' = disposal
    BY <1>3 DEF CallSteps, StartsCall, CallEnds, TakesPackage, Advances, Installs, WritesCommit,
       SealsAndSaves, pageVars
  <2>2. ~Disposed /\ RoomIsSaved(r) /\ Sweeps(r)
    BY <1>0, <2>1 DEF Disposed
  <2>3. CASE SealsAndSaves(o)
    BY <1>0, <2>2, <2>3, SealSaves
  <2>4. CASE ~SealsAndSaves(o)
    <3>1. storesStay
      BY <1>3, <2>4 DEF CallSteps, StartsCall, CallEnds, TakesPackage, Advances, Installs, WritesCommit,
         storesStay, pageVars
    <3> QED
      BY <1>0, <1>3, <2>2, <2>4, <3>1, CallSaves DEF CallSteps
  <2> QED
    BY <2>3, <2>4
<1>4. CASE Others
  <2>1. ~Disposed
    <3>1. CASE Store
      BY <1>0, <3>1, StoreDisposal
    <3>2. CASE ~Store
      BY <1>2, <1>4, <3>2 DEF Others, Initialise, Imported, RoomsListed, RoomRestored, RestoreThrows,
         RestoreDone, RoomLoaded, RoomDropped, Dispose, DisposeBegins, DisposeEnds, SweepRoom, World,
         PeerCommits, PeerInvites, Publish, PublishTaken, PublishDone, PublishAnswerLost, pageVars, Disposed
    <3> QED
      BY <3>1, <3>2
  <2>2. RoomIsSaved(r) /\ Sweeps(r)
    BY <1>0, <2>1
  <2>3. CASE Store
    BY <1>0, <2>2, <2>3, StoreSaves
  <2>4. CASE Initialise
    BY <1>0, <2>2, <2>4, InitialiseSaves
  <2>5. CASE Dispose
    BY <1>0, <2>2, <2>5, DisposeSaves
  <2>6. CASE World \/ \E k \in Packages : Publish(k)
    <3>1. op' = op /\ dirty' = dirty /\ tx' = tx /\ mem' = mem /\ UNCHANGED <<useFallback, fallback, idb>>
      BY <2>6 DEF World, PeerCommits, PeerInvites, Publish, PublishTaken, PublishDone, PublishAnswerLost,
         pageVars, historyVars, groupVars, storeVars
    <3> QED
      BY <2>2, <3>1, RoomStays DEF LastSaved, ToBeSaved, Unsure, Unsent
  <2> QED
    BY <1>2, <1>4, <2>3, <2>4, <2>5, <2>6 DEF Others
<1> QED
  BY <1>3, <1>4

-----------------------------------------------------------------------------
(* A call works on the state of its room *)

LEMMA HoldsStays ==
    ASSUME NEW p, HoldsState(p), op'[p] = op[p], mem'[op[p].room] = mem[op[p].room], Disposed => Disposed'
    PROVE  HoldsState(p)'
  BY DEF HoldsState, Unsent

LEMMA CallHolds ==
    ASSUME TypeOK, Shapes, NEW o \in Ops, CallSteps(o), Alone(o) => HoldsState(o), Alone(o)'
    PROVE  HoldsState(o)'
<1>0. CallShape(o)
  BY DEF Shapes
<1>1. CASE StartsCall(o)
  <2>1. /\ op'[o].pc = "load" /\ op'[o].st = None /\ mem' = mem
        /\ op'[o].kind = "create" => mem[op'[o].room] = None
    BY <1>1 DEF StartsCall, pageVars
  <2> QED
    BY <2>1 DEF HoldsState, Unsent
<1>2. CASE CallEnds(o)
  BY <1>2 DEF CallEnds, IsOver, Alone, Active
<1>3. SUFFICES ASSUME ~StartsCall(o), ~CallEnds(o) PROVE HoldsState(o)'
  BY <1>1, <1>2
<1>4. /\ op'[o].room = op[o].room /\ overlapped' = overlapped /\ disposal' = disposal
      /\ op[o].pc \in {"load", "mls", "fetch", "commit", "welcome", "send", "apply"}
      /\ op'[o].kind = op[o].kind
  BY <1>3 DEF CallSteps, TakesPackage, Advances, Transition, Sends, Installs, Installation, At, WritesCommit,
     SealsAndSaves, GoesOn, IsOver, Alone, Active
<1>5. HoldsState(o)
  BY <1>4 DEF Alone, Active
<1>6. CASE TakesPackage(o)
  <2>1. mem' = mem /\ op'[o].pc = "mls" /\ op[o].pc = "load"
        /\ (op[o].kind = "welcome" => op'[o].st = None) /\ op[o].kind \in {"create", "welcome"}
    BY <1>0, <1>6 DEF TakesPackage, CallShape
  <2> QED
    BY <1>4, <1>5, <2>1 DEF HoldsState, Unsent
<1>7. CASE Advances(o)
  <2>1. PICK pc \in Stages, st \in State : GoesOn(o, pc, st) /\ Transition(o, pc, st)
    BY <1>7 DEF Advances
  <2>2. mem' = mem /\ op'[o].pc = pc /\ op'[o].st = st
    BY <1>7, <2>1 DEF Advances, GoesOn
  <2>3. CASE op[o].kind = "create"
    <3>1. pc \notin {"apply", "persist"} /\ op[o].pc \notin {"apply", "persist"}
      BY <2>1, <2>3 DEF Transition, Sends, Writers
    <3> QED
      BY <1>4, <1>5, <2>2, <2>3, <3>1 DEF HoldsState, Unsent, Writers
  <2>4. CASE op[o].kind # "create"
    <3>1. \/ st = mem[op[o].room] /\ op[o].pc = "load"
          \/ /\ st = op[o].st /\ op[o].pc # "persist"
             /\ pc \in {"send", "apply"} => Unsent(o, op[o].room)
             /\ pc # "welcome"
      <4>1. op[o].pc \in {"welcome", "send"} => op[o].kind \in {"create", "add", "remove"}
        BY <1>0 DEF CallShape
      <4> QED
        BY <2>1, <2>4, <4>1 DEF Transition, Sends, Unsent, Writers
    <3>2. st # None
      BY Names
    <3> QED
      BY <1>4, <1>5, <2>2, <2>4, <3>1, <3>2 DEF HoldsState, Unsent, Disposed
  <2> QED
    BY <2>3, <2>4
<1>8. CASE Installs(o)
  <2>1. PICK st \in State : GoesOn(o, "apply", st) /\ Writes(op[o].room, st)
    BY <1>8 DEF Installs
  <2> QED
    BY <1>4, <2>1 DEF GoesOn, Writes, HoldsState
<1>9. CASE WritesCommit(o)
  <2>1. mem'[op[o].room] = op'[o].st /\ op[o].kind # "create"
    BY <1>9 DEF WritesCommit, GoesOn, Writes, Writers
  <2> QED
    BY <1>4, <2>1 DEF HoldsState
<1>10. CASE SealsAndSaves(o)
  <2>1. op'[o].pc = "persist"
    BY <1>10 DEF SealsAndSaves, IsOver, GoesOn, Alone, Active
  <2> QED
    BY <2>1 DEF HoldsState, Unsent
<1> QED
  BY <1>3, <1>6, <1>7, <1>8, <1>9, <1>10 DEF CallSteps

\* Memory is written in the call's room only, and the room is its own.
LEMMA OthersHold ==
    ASSUME TypeOK, Shapes, OneAtATime, NEW o \in Ops, CallSteps(o),
           NEW p \in Ops, p # o, Alone(p)', Alone(p) => HoldsState(p)
    PROVE  HoldsState(p)'
<1>1. OthersStay(o) /\ disposal' = disposal /\ overlapped \subseteq overlapped'
  BY DEF CallSteps, StartsCall, CallEnds, TakesPackage, Advances, Installs, WritesCommit, SealsAndSaves,
     GoesOn, IsOver, pageVars
<1>2. op'[p] = op[p] /\ Alone(p) /\ op[p].room \in Rooms
  BY <1>1 DEF OthersStay, Alone, Active, Shapes, CallShape
<1>3. CASE mem' = mem
  BY <1>1, <1>2, <1>3, HoldsStays DEF Disposed
<1>4. CASE Installs(o) \/ WritesCommit(o)
  <2>1. /\ \A q \in Rooms : q # op[o].room => mem'[q] = mem[q]
        /\ Active(o)
    BY <1>4 DEF Installs, WritesCommit, Writes, Installation, Sends, At, Active
  <2>2. op[p].room # op[o].room
    BY <1>2, <2>1 DEF OneAtATime, ActiveIn, Alone
  <2> QED
    BY <1>1, <1>2, <2>1, <2>2, HoldsStays DEF Disposed
<1> QED
  BY <1>3, <1>4 DEF CallSteps, StartsCall, CallEnds, TakesPackage, Advances, SealsAndSaves, pageVars

\* The rooms of calls that go on.
OverlapsStay == overlapped' = overlapped

LEMMA OverlapsKept ==
    ASSUME TypeOK, Queue, Others, ~Reload
    PROVE  OverlapsStay
<1>1. CASE Store
  BY <1>1, StoreDisposal DEF OverlapsStay
<1> QED
  BY <1>1 DEF Others, Initialise, Imported, RoomsListed, RoomRestored, RestoreThrows, RestoreDone, RoomLoaded,
     RoomDropped, Dispose, DisposeBegins, DisposeEnds, SweepRoom, World, PeerCommits, PeerInvites, Publish,
     PublishTaken, PublishDone, PublishAnswerLost, historyVars, OverlapsStay

\* What the other steps do to memory and to the AEAD layer.
LEMMA MemoryStays ==
    ASSUME TypeOK, Queue, Others, ~Reload, ~(\E r \in Rooms : RoomLoaded(r)), ~DisposeEnds
    PROVE  mem' = mem /\ bound' = bound /\ (Disposed => Disposed')
<1>1. CASE Store
  BY <1>1, StoreDisposal DEF groupVars
<1>2. CASE Dispose
  <2>1. mem' = mem /\ bound' = bound /\ disposal.pc \in {"none", "sweeping"}
    BY <1>2 DEF Dispose, DisposeBegins, SweepRoom, groupVars
  <2> QED
    BY <2>1 DEF Disposed
<1>3. CASE Initialise
  BY <1>3 DEF Initialise, Imported, RoomsListed, RoomRestored, RestoreThrows, RestoreDone, RoomDropped,
     groupVars, Disposed
<1>4. CASE World
  BY <1>4 DEF World, PeerCommits, PeerInvites, pageVars, Disposed
<1>5. CASE \E k \in Packages : Publish(k)
  BY <1>5 DEF Publish, PublishTaken, PublishDone, PublishAnswerLost, pageVars, groupVars, Disposed
<1> QED
  BY <1>1, <1>2, <1>3, <1>4, <1>5 DEF Others

LEMMA WorkKept ==
    ASSUME MlsInv, TypeOK', Others \/ \E o \in Ops : CallSteps(o)
    PROVE  WorksOnTheState'
<1>0. TypeOK /\ Shapes /\ OneAtATime /\ Queue /\ RestoreComesFirst /\ WorksOnTheState
  BY DEF MlsInv
<1> SUFFICES ASSUME NEW p \in Ops, Alone(p)' PROVE HoldsState(p)'
  BY DEF WorksOnTheState
<1>h. Alone(p) => HoldsState(p)
  BY <1>0 DEF WorksOnTheState
<1>1. ASSUME NEW o \in Ops, CallSteps(o) PROVE HoldsState(p)'
  BY <1>0, <1>h, <1>1, CallHolds, OthersHold
<1>2. CASE Reload
  BY <1>0, <1>2, ReloadCalls, DoneCallFields DEF Alone, Active
<1>3. CASE Others /\ ~Reload
  <2>1. op'[p] = op[p] /\ Alone(p) /\ op[p].room \in Rooms
    BY <1>0, <1>3, OnlyCallsMove, OverlapsKept DEF Others, CallsOver, Alone, Active, OverlapsStay, Shapes, CallShape
  <2>2. CASE DisposeEnds
    <3>1. mem'[op[p].room] = None /\ Disposed'
      BY <1>0, <2>1, <2>2 DEF DisposeEnds, Disposed, TypeOK
    <3> QED
      BY <2>1, <3>1 DEF HoldsState
  <2>3. ASSUME NEW r \in Rooms, RoomLoaded(r) PROVE FALSE
    BY <1>0, <2>1, <2>3 DEF RoomLoaded, RestoreComesFirst, Alone
  <2>4. CASE ~DisposeEnds
    BY <1>0, <1>h, <1>3, <2>1, <2>3, <2>4, MemoryStays, HoldsStays
  <2> QED
    BY <2>2, <2>4
<1> QED
  BY <1>1, <1>2, <1>3

-----------------------------------------------------------------------------
(* The epoch a room seals with *)

\* Nothing happens to the room, and no call of it.
LEMMA SealsStay ==
    ASSUME NEW r \in Rooms, SealsSoon(r), overlapped \subseteq overlapped', mem'[r] = mem[r],
           aead'[r] = aead[r] \/ aead'[r] = mem[r],
           r \in dirty => r \in dirty' \/ aead'[r] = mem[r],
           \A p \in Ops : SealsNext(p, r) => SealsNext(p, r)' \/ aead'[r] = mem[r] \/ r \in dirty'
    PROVE  SealsSoon(r)'
  BY DEF SealsSoon

\* A call that is not about to seal the room.
LEMMA SealersStay ==
    ASSUME NEW o \in Ops, OthersStay(o), NEW r \in Rooms, mem'[r] = mem[r],
           op[o].room # r \/ op[o].pc \notin {"apply", "welcome", "send"}
    PROVE  \A p \in Ops : SealsNext(p, r) => SealsNext(p, r)'
  BY DEF SealsNext, Unsent, OthersStay

LEMMA CallSealsSoon ==
    ASSUME TypeOK, Shapes, Bindings, WorksOnTheState, NEW o \in Ops, CallSteps(o), disposal.pc = "none",
           NEW r \in Rooms, SealsSoon(r)
    PROVE  SealsSoon(r)'
<1>0. OthersStay(o) /\ overlapped \subseteq overlapped' /\ ~Disposed /\ CallShape(o)
  BY DEF CallSteps, StartsCall, CallEnds, TakesPackage, Advances, Installs, WritesCommit, SealsAndSaves,
     GoesOn, IsOver, Disposed, Shapes
<1>s. SUFFICES ASSUME r \notin overlapped' PROVE SealsSoon(r)'
  BY DEF SealsSoon
<1>w. op[o].room = r /\ Active(o) => HoldsState(o)
  BY <1>0, <1>s DEF Alone, WorksOnTheState
<1>1. CASE StartsCall(o) \/ TakesPackage(o)
  <2>1. mem' = mem /\ aead' = aead /\ dirty' = dirty /\ op[o].pc \in {"idle", "load"}
    BY <1>1 DEF StartsCall, TakesPackage, pageVars
  <2> QED
    BY <1>0, <2>1, SealersStay, SealsStay
<1>2. CASE CallEnds(o)
  <2>1. mem' = mem /\ aead' = aead /\ dirty \subseteq dirty' /\ op[o].pc # "apply"
        /\ (Unsent(o, op[o].room) => op[o].room \in dirty')
    BY <1>0, <1>2 DEF CallEnds, Bindings, CallBound
  <2>2. \A p \in Ops : SealsNext(p, r) => SealsNext(p, r)' \/ r \in dirty'
    BY <1>0, <2>1 DEF SealsNext, Unsent, OthersStay
  <2> QED
    BY <1>0, <2>1, <2>2, SealsStay
<1>3. CASE Advances(o)
  <2>1. PICK pc \in Stages, st \in State : GoesOn(o, pc, st) /\ Transition(o, pc, st)
    BY <1>3 DEF Advances
  <2>2. mem' = mem /\ aead' = aead /\ dirty' = dirty
    BY <1>3 DEF Advances
  <2>3. SealsNext(o, r) => SealsNext(o, r)'
    <3> SUFFICES ASSUME SealsNext(o, r) PROVE SealsNext(o, r)'
      OBVIOUS
    <3>1. Unsent(o, r) /\ op[o].room = r /\ op[o].kind \in Writers
      BY <2>1 DEF SealsNext, Transition, Sends, Unsent
    <3>2. CASE op[o].pc = "welcome"
      BY <2>1, <3>1, <3>2 DEF Transition, Sends, GoesOn, SealsNext, Unsent
    <3>3. CASE op[o].pc = "send"
      <4>1. mem[r] = op[o].st
        BY <1>0, <1>w, <3>1, <3>3 DEF HoldsState, Active
      <4>2. pc = "apply" /\ st = op[o].st
        BY <2>1, <3>1, <3>3 DEF Transition, Writers
      <4> QED
        BY <2>1, <2>2, <3>1, <4>1, <4>2 DEF GoesOn, SealsNext
    <3> QED
      BY <3>1, <3>2, <3>3 DEF Unsent
  <2>4. \A p \in Ops : SealsNext(p, r) => SealsNext(p, r)'
    BY <1>0, <2>2, <2>3 DEF SealsNext, Unsent, OthersStay
  <2> QED
    BY <1>0, <2>2, <2>4, SealsStay
<1>4. CASE Installs(o)
  <2>1. PICK st \in State : GoesOn(o, "apply", st) /\ Writes(op[o].room, st)
    BY <1>4 DEF Installs
  <2>2. CASE op[o].room = r
    <3>1. SealsNext(o, r)'
      BY <2>1, <2>2 DEF GoesOn, Writes, SealsNext
    <3> QED
      BY <3>1 DEF SealsSoon
  <2>3. CASE op[o].room # r
    <3>1. mem'[r] = mem[r] /\ aead' = aead /\ dirty' = dirty
      BY <1>4, <2>1, <2>3 DEF Installs, Writes
    <3> QED
      BY <1>0, <2>3, <3>1, SealersStay, SealsStay
  <2> QED
    BY <2>2, <2>3
<1>5. CASE WritesCommit(o)
  <2>1. CASE op[o].room = r
    <3>1. SealsNext(o, r)'
      BY <1>5, <2>1 DEF WritesCommit, GoesOn, SealsNext, Unsent
    <3> QED
      BY <3>1 DEF SealsSoon
  <2>2. CASE op[o].room # r
    <3>1. mem'[r] = mem[r] /\ aead' = aead /\ dirty' = dirty
      BY <1>5, <2>2 DEF WritesCommit, Writes
    <3> QED
      BY <1>0, <2>2, <3>1, SealersStay, SealsStay
  <2> QED
    BY <2>1, <2>2
<1>6. CASE SealsAndSaves(o)
  <2>1. /\ mem' = mem /\ op[o].pc = "apply" /\ op[o].room \in Rooms
        /\ aead' = [aead EXCEPT ![op[o].room] = op[o].st] /\ aead \in [Rooms -> State \cup {None}]
    BY <1>0, <1>6, ActiveCall DEF SealsAndSaves, TypeOK
  <2>2. CASE op[o].room = r
    <3>1. aead'[r] = op[o].st /\ op[o].st = mem[r]
      BY <1>0, <1>w, <2>1, <2>2 DEF HoldsState, Active
    <3> QED
      BY <2>1, <3>1 DEF SealsSoon
  <2>3. CASE op[o].room # r
    <3>1. aead'[r] = aead[r]
      BY <2>1, <2>3
    <3>2. r \in dirty => r \in dirty'
      BY <1>6, <2>3 DEF SealsAndSaves, SavesInMemory, RequestsSave
    <3> QED
      BY <1>0, <2>1, <2>3, <3>1, <3>2, SealersStay, SealsStay
  <2> QED
    BY <2>2, <2>3
<1> QED
  BY <1>1, <1>2, <1>3, <1>4, <1>5, <1>6 DEF CallSteps

LEMMA CallHasSealed ==
    ASSUME TypeOK, Shapes, OneAtATime, WorksOnTheState, NEW o \in Ops, CallSteps(o), disposal.pc = "none",
           NEW p \in Ops, HasSealed(p)
    PROVE  HasSealed(p)'
<1> SUFFICES ASSUME Alone(p)', op'[p].pc = "persist" PROVE aead'[op'[p].room] = mem'[op'[p].room]
  BY DEF HasSealed
<1>0. OthersStay(o) /\ overlapped \subseteq overlapped' /\ CallShape(o)
  BY DEF CallSteps, StartsCall, CallEnds, TakesPackage, Advances, Installs, WritesCommit, SealsAndSaves,
     GoesOn, IsOver, Shapes
<1>1. CASE p = o
  <2>1. SealsAndSaves(o) /\ op'[o].room = op[o].room /\ overlapped' = overlapped
    <3>1. ~Advances(o)
      BY <1>1 DEF Advances, GoesOn, Transition
    <3> QED
      BY <1>1, <3>1 DEF CallSteps, StartsCall, CallEnds, TakesPackage, Installs, WritesCommit, SealsAndSaves,
         GoesOn, IsOver
  <2>2. /\ mem' = mem /\ op[o].pc = "apply" /\ op[o].room \in Rooms
        /\ aead' = [aead EXCEPT ![op[o].room] = op[o].st] /\ aead \in [Rooms -> State \cup {None}]
    BY <1>0, <2>1, ActiveCall DEF SealsAndSaves, TypeOK
  <2>3. HoldsState(o)
    BY <1>1, <2>1, <2>2 DEF Alone, Active, WorksOnTheState
  <2> QED
    BY <1>1, <2>1, <2>2, <2>3 DEF HoldsState, Disposed
<1>2. CASE p # o
  <2>1. op'[p] = op[p] /\ Alone(p) /\ op[p].room \in Rooms /\ aead[op[p].room] = mem[op[p].room]
    BY <1>0, <1>2 DEF OthersStay, Alone, Active, Shapes, CallShape, HasSealed
  <2>2. CASE mem' = mem /\ aead' = aead
    BY <2>1, <2>2
  <2>3. CASE Installs(o) \/ WritesCommit(o) \/ SealsAndSaves(o)
    <3>1. Active(o)
      BY <2>3 DEF Installs, WritesCommit, SealsAndSaves, Installation, Sends, At, Active
    <3>2. op[p].room # op[o].room
      BY <1>2, <2>1, <3>1 DEF OneAtATime, ActiveIn, Alone
    <3>3. op[o].room \in Rooms /\ aead \in [Rooms -> State \cup {None}]
      BY <1>0, <3>1 DEF CallShape, TypeOK
    <3> QED
      BY <2>1, <2>3, <3>2, <3>3 DEF Installs, WritesCommit, SealsAndSaves, Writes
  <2> QED
    BY <2>2, <2>3 DEF CallSteps, StartsCall, CallEnds, TakesPackage, Advances, pageVars
<1> QED
  BY <1>1, <1>2

\* No room is taken for saved by a call that has not sealed.
LEMMA CleanIsSealed ==
    ASSUME TypeOK, Queue, disposal.pc = "none", \A o \in Ops : HasSealed(o),
           NEW i \in DOMAIN tx, tx[i].room \notin overlapped
    PROVE  aead[tx[i].room] = mem[tx[i].room]
<1>1. tx[i].by \in Ops \cup {Disposer}
  <2>1. tx \in Seq(Save)
    BY DEF TypeOK, Save
  <2>2. tx[i] \in Save
    BY <2>1
  <2> QED
    BY <2>2 DEF Save
<1>2. tx[i].by \in Ops /\ op[tx[i].by].pc = "persist" /\ op[tx[i].by].room = tx[i].room
  BY <1>1 DEF Queue
<1> QED
  BY <1>2 DEF HasSealed, Alone, Active

LEMMA StoreSealsSoon ==
    ASSUME TypeOK, TypeOK', Queue, Store, disposal.pc = "none", \A o \in Ops : HasSealed(o),
           NEW r \in Rooms, SealsSoon(r)
    PROVE  SealsSoon(r)'
<1>1. UNCHANGED <<mem, aead, overlapped>>
  BY StoreDisposal DEF groupVars
<1> SUFFICES ASSUME r \notin overlapped', mem[r] # None PROVE SealsSoon(r)'
  BY <1>1 DEF SealsSoon
<1>2. \A p \in Ops : op[p].pc # "persist" => op'[p] = op[p]
  <2>1. CASE SaveCommits \/ SaveAborts
    <3>1. 1 \in DOMAIN tx /\ Head(tx) = tx[1] /\ tx[1].by \in Ops \cup {Disposer}
      BY <2>1, HeadOfQueue DEF SaveCommits, SaveAborts
    <3>2. \A p \in Ops : p # tx[1].by => op'[p] = op[p]
      BY <2>1, <3>1, SavedDoes, ReturnsIsOver DEF SaveCommits, SaveAborts, IsOver, OthersStay
    <3> QED
      BY <3>1, <3>2 DEF Queue
  <2> QED
    BY <2>1, FallsBackCalls DEF Store, IdbBecomesUnavailable
<1>3. \A p \in Ops : SealsNext(p, r) => SealsNext(p, r)'
  BY <1>1, <1>2 DEF SealsNext, Unsent
<1>4. r \in dirty => r \in dirty' \/ aead[r] = mem[r]
  <2> SUFFICES ASSUME r \in dirty, r \notin dirty' PROVE aead[r] = mem[r]
    OBVIOUS
  <2>1. CASE SaveCommits
    <3>1. 1 \in DOMAIN tx /\ Head(tx) = tx[1] /\ tx[1].room = r
      BY <2>1, HeadOfQueue DEF SaveCommits
    <3> QED
      BY <1>1, <3>1, CleanIsSealed
  <2>2. CASE SaveFallsBack
    <3>1. mem[r] = fallback'[r] /\ tx # <<>>
      BY <2>2 DEF SaveFallsBack
    <3>2. fallback[r] = None
      BY <3>1 DEF Queue
    <3>3. SavesOf(r) # {}
      BY <2>2, <3>1, <3>2, FallbackTakes
    <3> QED
      BY <1>1, <3>3, CleanIsSealed DEF SavesOf
  <2>3. CASE SaveAborts \/ IdbBecomesUnavailable
    BY <2>3 DEF SaveAborts, IdbBecomesUnavailable, historyVars
  <2> QED
    BY <2>1, <2>2, <2>3 DEF Store
<1> QED
  BY <1>1, <1>3, <1>4, SealsStay

\* A page is never undisposed.
LEMMA NoneBefore ==
    ASSUME TypeOK, Others, disposal'.pc = "none", ~Reload
    PROVE  disposal.pc = "none" /\ ~Dispose
<1>1. ~Dispose
  BY DEF Dispose, DisposeBegins, DisposeEnds, SweepRoom, TypeOK
<1>2. CASE Store
  <2>1. CASE SaveCommits
    <3>1. Head(tx).by \in Ops \cup {Disposer} /\ Saved(Head(tx).by)
      BY <2>1, HeadOfQueue DEF SaveCommits
    <3> QED
      BY <1>1, <3>1, SavedDoes
  <2>2. CASE SaveAborts
    BY <1>1, <2>2 DEF SaveAborts, TypeOK
  <2>3. CASE SaveFallsBack
    BY <1>1, <2>3, FallsBackDisposal
  <2>4. CASE IdbBecomesUnavailable
    BY <1>1, <2>4 DEF IdbBecomesUnavailable, pageVars
  <2> QED
    BY <1>2, <2>1, <2>2, <2>3, <2>4 DEF Store
<1>3. CASE ~Store
  BY <1>1, <1>3 DEF Others, Initialise, Imported, RoomsListed, RoomRestored, RestoreThrows, RestoreDone,
     RoomLoaded, RoomDropped, World, PeerCommits, PeerInvites, Publish, PublishTaken, PublishDone,
     PublishAnswerLost, pageVars
<1> QED
  BY <1>2, <1>3

LEMMA SealsKept ==
    ASSUME AppAwaitsInit, MlsInv, TypeOK', Others \/ \E o \in Ops : CallSteps(o)
    PROVE  SealingFollows'
<1>0. /\ TypeOK /\ Shapes /\ Bindings /\ Queue /\ RestoreComesFirst /\ OneAtATime /\ WorksOnTheState
      /\ SealingFollows
  BY DEF MlsInv
<1> SUFFICES ASSUME init' = "ready", disposal'.pc = "none"
             PROVE  (\A r \in Rooms : SealsSoon(r)') /\ \A p \in Ops : HasSealed(p)'
  BY DEF SealingFollows
<1>1. ASSUME NEW o \in Ops, CallSteps(o)
      PROVE  (\A r \in Rooms : SealsSoon(r)') /\ \A p \in Ops : HasSealed(p)'
  <2>1. init' = init /\ disposal' = disposal
    BY <1>1 DEF CallSteps, StartsCall, CallEnds, TakesPackage, Advances, Installs, WritesCommit,
       SealsAndSaves, pageVars, initVars
  <2> QED
    BY <1>0, <1>1, <2>1, CallSealsSoon, CallHasSealed DEF SealingFollows
<1>2. CASE Others
  <2>1. ~Reload
    BY DEF Reload
  <2>2. disposal.pc = "none" /\ ~Dispose
    BY <1>0, <1>2, <2>1, NoneBefore
  <2>3. CASE RestoreDone
    <3>1. init = "restoring" /\ restoring = None /\ UNCHANGED <<op, mem, aead>>
      BY <2>3 DEF RestoreDone, groupVars
    <3>2. \A p \in Ops : ~Active(p)
      BY <1>0, <3>1 DEF RestoreComesFirst
    <3>3. ASSUME NEW r \in Rooms, mem[r] # None PROVE aead[r] = mem[r]
      <4>1. mem[r] \in State
        BY <1>0, <3>3 DEF TypeOK
      <4>2. [room |-> r, st |-> mem[r]] \in Loaded
        BY <4>1 DEF Loaded
      <4>3. restoring # [room |-> r, st |-> mem[r]]
        BY <3>1, <4>2, Names
      <4> QED
        BY <1>0, <3>1, <3>3, <4>3 DEF RestoreComesFirst
    <3> QED
      BY <3>1, <3>2, <3>3 DEF SealsSoon, HasSealed, Alone, Active
  <2>4. CASE ~RestoreDone
    <3>1. ~Initialise
      BY <1>0, <2>4 DEF Initialise, Imported, RoomsListed, RoomRestored, RestoreThrows, RoomLoaded, RoomDropped,
         RestoreComesFirst
    <3>2. init' = init
      <4>1. CASE Store
        BY <1>0, <4>1, StoreDisposal DEF initVars
      <4> QED
        BY <1>2, <2>1, <2>2, <3>1, <4>1 DEF Others, World, PeerCommits, PeerInvites, Publish, PublishTaken,
           PublishDone, PublishAnswerLost, pageVars, initVars
    <3>3. (\A r \in Rooms : SealsSoon(r)) /\ \A p \in Ops : HasSealed(p)
      BY <1>0, <2>2, <3>2 DEF SealingFollows
    <3>4. UNCHANGED <<mem, aead, overlapped>>
      <4>1. CASE Store
        BY <1>0, <4>1, StoreDisposal DEF groupVars
      <4> QED
        BY <1>2, <2>1, <2>2, <3>1, <4>1 DEF Others, World, PeerCommits, PeerInvites, Publish, PublishTaken,
           PublishDone, PublishAnswerLost, pageVars, groupVars, historyVars
    <3>5. \A p \in Ops : HasSealed(p)'
      BY <1>0, <1>2, <3>3, <3>4, OnlyCallsMove DEF Others, CallsOver, HasSealed, Alone, Active
    <3>6. CASE Store
      BY <1>0, <2>2, <3>3, <3>5, <3>6, StoreSealsSoon
    <3>7. CASE World \/ \E k \in Packages : Publish(k)
      <4>1. op' = op /\ dirty' = dirty
        BY <3>7 DEF World, PeerCommits, PeerInvites, Publish, PublishTaken, PublishDone, PublishAnswerLost,
           historyVars
      <4> QED
        BY <3>3, <3>4, <3>5, <4>1 DEF SealsSoon, SealsNext, Unsent
    <3> QED
      BY <1>2, <2>1, <2>2, <3>1, <3>6, <3>7 DEF Others
  <2> QED
    BY <2>3, <2>4
<1> QED
  BY <1>1, <1>2

-----------------------------------------------------------------------------
(* A KeyPackage opens one Welcome *)

\* The groups there are.
LEMMA GroupsAre ==
    /\ \A r \in Rooms : /\ mem[r] # None => HasGroup(mem[r].gid)
                        /\ idb[r] # None => HasGroup(idb[r].gid)
                        /\ fallback[r] # None => HasGroup(fallback[r].gid)
    /\ \A i \in DOMAIN tx : HasGroup(tx[i].st.gid)
    /\ \A o \in Ops : op[o].st # None => HasGroup(op[o].st.gid)
  BY DEF HasGroup

\* A group is new with the call that makes it or is welcomed to it.
LEMMA GroupsMove ==
    ASSUME StatesMove, TypeOK', NEW g, HasGroup(g)'
    PROVE  HasGroup(g)
<1>1. ASSUME NEW r \in Rooms, NEW st \in {mem'[r], idb'[r], fallback'[r]}, st # None, st.gid = g
      PROVE  HasGroup(g)
  BY <1>1, GroupsAre DEF StatesMove
<1>2. ASSUME NEW i \in DOMAIN tx', tx'[i].st.gid = g PROVE HasGroup(g)
  <2>1. tx'[i].st # None
    <3>1. tx' \in Seq(Save)
      BY DEF TypeOK, Save
    <3>2. tx'[i] \in Save
      BY <3>1
    <3> QED
      BY <3>2, Names DEF Save
  <2> QED
    BY <1>2, <2>1, GroupsAre DEF StatesMove
<1>3. ASSUME NEW o \in Ops, op'[o].st # None, op'[o].st.gid = g PROVE HasGroup(g)
  BY <1>3, GroupsAre DEF StatesMove, CallsOver
<1> QED
  BY <1>1, <1>2, <1>3 DEF HasGroup

LEMMA GroupsAfter ==
    ASSUME NEW o \in Ops, OthersStay(o), NEW g, HasGroup(g)',
           op'[o].st # None /\ op'[o].st.gid = g => HasGroup(g),
           \A r \in Rooms : mem'[r] = mem[r] \/ (mem'[r] = op'[o].st /\ op'[o].st # None),
           idb' = idb, \A r \in Rooms : fallback'[r] \in {fallback[r], mem[r]},
           \A i \in DOMAIN tx' : (i \in DOMAIN tx /\ tx'[i] = tx[i])
                                 \/ \E r \in Rooms : mem[r] # None /\ tx'[i].st = mem[r]
    PROVE  HasGroup(g)
<1>1. ASSUME NEW r \in Rooms, NEW st \in {mem'[r], idb'[r], fallback'[r]}, st # None, st.gid = g
      PROVE  HasGroup(g)
  BY <1>1, GroupsAre
<1>2. ASSUME NEW i \in DOMAIN tx', tx'[i].st.gid = g PROVE HasGroup(g)
  BY <1>2, GroupsAre
<1>3. ASSUME NEW p \in Ops, op'[p].st # None, op'[p].st.gid = g PROVE HasGroup(g)
  BY <1>3, GroupsAre DEF OthersStay
<1> QED
  BY <1>1, <1>2, <1>3 DEF HasGroup

Joins(o) == Installs(o) /\ At(o, "welcome", "mls") /\ Joinable(o)

LEMMA CallGroups ==
    ASSUME TypeOK, Shapes, NEW o \in Ops, CallSteps(o), NEW g \in PeerGroups, HasGroup(g)'
    PROVE  HasGroup(g) \/ (Joins(o) /\ g = op[o].arg.gid)
<1>0. OthersStay(o) /\ CallShape(o)
  BY DEF CallSteps, StartsCall, CallEnds, TakesPackage, Advances, Installs, WritesCommit, SealsAndSaves,
     GoesOn, IsOver, Shapes
<1> SUFFICES ASSUME ~(Joins(o) /\ g = op[o].arg.gid) PROVE HasGroup(g)
  OBVIOUS
<1>c. op[o].st \in State => Committed(o).gid = op[o].st.gid
  BY CommittedFields
<1>n. \A st \in State : st # None
  BY Names
<1>1. CASE StartsCall(o)
  <2>1. op'[o].st = None /\ UNCHANGED <<mem, idb, fallback, tx>>
    BY <1>1 DEF StartsCall, pageVars
  <2> QED
    BY <1>0, <2>1, GroupsAfter
<1>2. CASE CallEnds(o)
  <2>1. op'[o].st = None /\ UNCHANGED <<mem, idb, fallback, tx>>
    BY <1>2 DEF CallEnds, IsOver, storesStay
  <2> QED
    BY <1>0, <2>1, GroupsAfter
<1>3. CASE TakesPackage(o)
  <2>1. UNCHANGED <<mem, idb, fallback, tx>> /\ (op'[o].st = op[o].st \/ op'[o].st.gid = o)
    BY <1>3 DEF TakesPackage, storesStay
  <2>2. o # g
    BY Names
  <2>3. op'[o].st # None /\ op'[o].st.gid = g => HasGroup(g)
    BY <2>1, <2>2, GroupsAre
  <2> QED
    BY <1>0, <2>1, <2>3, GroupsAfter
<1>4. CASE Advances(o)
  <2>1. PICK pc \in Stages, st \in State : GoesOn(o, pc, st) /\ Transition(o, pc, st)
    BY <1>4 DEF Advances
  <2>2. UNCHANGED <<mem, idb, fallback, tx>> /\ op'[o].st = st
    BY <1>4, <2>1 DEF Advances, storesStay, GoesOn
  <2>3. \/ op[o].room \in Rooms /\ st = mem[op[o].room]
        \/ op[o].st \in State /\ st.gid = op[o].st.gid
    BY <1>0, <1>c, <2>1 DEF Transition, Sends, CallShape, Active, AtAny
  <2>4. st.gid = g => HasGroup(g)
    BY <1>n, <2>1, <2>3, GroupsAre
  <2> QED
    BY <1>0, <2>2, <2>4, GroupsAfter
<1>5. CASE Installs(o)
  <2>1. PICK st \in State : GoesOn(o, "apply", st) /\ Writes(op[o].room, st) /\ Installation(o, st)
    BY <1>5 DEF Installs
  <2>2. UNCHANGED <<idb, fallback, tx>> /\ op'[o].st = st
    BY <1>5, <2>1 DEF Installs, storesStay, GoesOn
  <2>3. \A r \in Rooms : mem'[r] = mem[r] \/ mem'[r] = st
    BY <2>1 DEF Writes
  <2>4. CASE op[o].kind # "welcome"
    <3>1. op[o].st \in State /\ st.gid = op[o].st.gid
      BY <1>0, <2>1, <2>4 DEF Installation, Sends, CallShape, At, AtAny
    <3>2. st.gid = g => HasGroup(g)
      BY <1>n, <3>1, GroupsAre
    <3> QED
      BY <1>0, <1>n, <2>2, <2>3, <3>2, GroupsAfter
  <2>5. CASE op[o].kind = "welcome"
    <3>1. At(o, "welcome", "mls") /\ Joinable(o) /\ st = [gid |-> op[o].arg.gid, hist |-> op[o].arg.hist]
      BY <1>0, <2>1, <2>5 DEF Installation, Sends, CallShape, At
    <3>2. st.gid # g
      BY <1>5, <3>1 DEF Joins
    <3> QED
      BY <1>0, <1>n, <2>2, <2>3, <3>2, GroupsAfter
  <2> QED
    BY <2>4, <2>5
<1>6. CASE WritesCommit(o)
  <2>1. /\ op'[o].st = Committed(o) /\ UNCHANGED <<idb, fallback, tx>> /\ Committed(o) \in State
        /\ \A r \in Rooms : mem'[r] = mem[r] \/ mem'[r] = Committed(o)
        /\ op[o].st \in State
    BY <1>0, <1>6 DEF WritesCommit, GoesOn, Writes, storesStay, CallShape
  <2>2. Committed(o).gid = g => HasGroup(g)
    BY <1>c, <1>n, <2>1, GroupsAre
  <2> QED
    BY <1>0, <1>n, <2>1, <2>2, GroupsAfter
<1>7. CASE SealsAndSaves(o)
  <2> DEFINE q == op[o].room
  <2>1. mem' = mem /\ q \in Rooms /\ (op'[o].st = op[o].st \/ op'[o].st = None)
    BY <1>0, <1>7, ActiveCall DEF SealsAndSaves, IsOver, GoesOn
  <2>2. op'[o].st # None /\ op'[o].st.gid = g => HasGroup(g)
    BY <2>1, GroupsAre
  <2>3. CASE storesStay
    BY <1>0, <2>1, <2>2, <2>3, GroupsAfter DEF storesStay
  <2>4. CASE SavesInMemory(q)
    <3>1. /\ fallback'[q] = mem[q] /\ \A p \in Rooms : p # q => fallback'[p] = fallback[p]
          /\ tx' = tx /\ idb' = idb
      BY <2>1, <2>4, InMemoryTypes
    <3> HIDE DEF q
    <3>2. \A p \in Rooms : fallback'[p] \in {fallback[p], mem[p]}
      BY <3>1
    <3> QED
      BY <1>0, <2>1, <2>2, <3>1, <3>2, GroupsAfter
  <2>5. CASE RequestsSave(o, q)
    <3> DEFINE e == [by |-> o, room |-> q, st |-> mem[q]]
    <3>1. fallback' = fallback /\ idb' = idb /\ mem[q] \in State /\ e \in Save /\ tx' = Append(tx, e)
      BY <2>1, <2>5, RequestTypes DEF Save
    <3>2. e.st = mem[q]
      OBVIOUS
    <3> HIDE DEF e, q
    <3>3. \A i \in DOMAIN tx' : (i \in DOMAIN tx /\ tx'[i] = tx[i]) \/ tx'[i].st = mem[q]
      BY <3>1, <3>2, AppendedSave
    <3> QED
      BY <1>0, <1>n, <2>1, <2>2, <3>1, <3>3, GroupsAfter
  <2> QED
    BY <1>7, <2>3, <2>4, <2>5 DEF SealsAndSaves
<1> QED
  BY <1>1, <1>2, <1>3, <1>4, <1>5, <1>6, <1>7 DEF CallSteps

\* What is left of the KeyPackages stays what it is.
PackagesGoOn ==
    PendingIsHeld' /\ \A k \in Packages : (Spent(k) => Spent(k)') /\ (Loose(k) => Loose(k)')

LEMMA PendingSame ==
    ASSUME PendingIsHeld, pending' = pending, package' = package
    PROVE  PackagesGoOn
  BY DEF PackagesGoOn, PendingIsHeld, Spent, Loose

LEMMA PendingPops ==
    ASSUME TypeOK, PendingIsHeld, Pops, package' = package
    PROVE  PackagesGoOn /\ \A k \in Packages : Loose(k) => Spent(k)'
<1>1. pending \in Seq(Packages)
  BY DEF TypeOK
<1>2. CASE pending = <<>>
  <2>1. pending' = pending /\ \A i \in DOMAIN pending : FALSE
    BY <1>2 DEF Pops
  <2> QED
    BY <2>1, PendingSame DEF Loose, Spent
<1>3. CASE pending # <<>>
  <2>1. pending' = Tail(pending)
    BY <1>3 DEF Pops
  <2>2. \A i \in DOMAIN pending' : i \in Nat /\ i + 1 \in DOMAIN pending /\ i + 1 # 1 /\ pending'[i] = pending[i + 1]
    BY <1>1, <1>3, <2>1
  <2>3. PendingIsHeld'
    <3>1. ASSUME NEW i \in DOMAIN pending', NEW j \in DOMAIN pending', pending'[i] = pending'[j] PROVE i = j
      <4>1. i + 1 = j + 1
        BY <2>2, <3>1 DEF PendingIsHeld
      <4> QED
        BY <2>2, <4>1
    <3> QED
      BY <2>2, <3>1 DEF PendingIsHeld
  <2>4. \A k \in Packages : Loose(k) => Spent(k)'
    BY <2>2 DEF Loose, Spent
  <2> QED
    BY <2>2, <2>3, <2>4 DEF PackagesGoOn, Spent, Loose
<1> QED
  BY <1>2, <1>3

LEMMA PendingGone ==
    ASSUME pending' = <<>>,
           \A k \in Packages : package[k] \in {"held", "lost"} => package'[k] \in {"held", "lost"}
    PROVE  PackagesGoOn
<1>1. \A i \in DOMAIN pending' : FALSE
  OBVIOUS
<1> QED
  BY <1>1 DEF PackagesGoOn, PendingIsHeld, Spent, Loose

LEMMA PublishPackages ==
    ASSUME TypeOK, PendingIsHeld, NEW k \in Packages, Publish(k)
    PROVE  PackagesGoOn
<1>0. pending \in Seq(Packages) /\ package \in [Packages -> {"new", "posted", "held", "lost"}]
  BY DEF TypeOK
<1>p. \A i \in DOMAIN pending : pending[i] \in Packages
  BY <1>0
<1>1. CASE PublishTaken(k) \/ PublishAnswerLost(k)
  <2>1. pending' = pending /\ package[k] \in {"new", "posted"}
        /\ (package' = [package EXCEPT ![k] = "posted"] \/ package' = [package EXCEPT ![k] = "lost"])
    BY <1>1 DEF PublishTaken, PublishAnswerLost, pageVars
  <2>2. \A j \in Packages : package[j] \in {"held", "lost"} => package'[j] = package[j]
    BY <1>0, <2>1
  <2> QED
    BY <1>p, <2>1, <2>2 DEF PackagesGoOn, PendingIsHeld, Spent, Loose
<1>2. CASE PublishDone(k)
  <2>1. package[k] = "posted" /\ package' = [package EXCEPT ![k] = "held"] /\ pending' = Append(pending, k)
    BY <1>2 DEF PublishDone
  <2>2. package'[k] = "held" /\ \A j \in Packages : j # k => package'[j] = package[j]
    BY <1>0, <2>1
  <2> DEFINE n == Len(pending) + 1
  <2>3. /\ n \in Nat /\ DOMAIN pending' = 1..n /\ DOMAIN pending = 1..(n - 1)
        /\ pending'[n] = k /\ \A i \in DOMAIN pending : i \in DOMAIN pending' /\ pending'[i] = pending[i] /\ i # n
        /\ \A i \in DOMAIN pending' : i \in DOMAIN pending \/ i = n
    BY <1>0, <2>1
  <2> HIDE DEF n
  <2>4. \A i \in DOMAIN pending : pending[i] # k
    BY <2>1 DEF PendingIsHeld
  <2>5. PendingIsHeld'
    BY <1>p, <2>2, <2>3, <2>4 DEF PendingIsHeld
  <2>6. \A j \in Packages : package[j] \in {"held", "lost"} => j # k
    BY <2>1
  <2> QED
    BY <1>p, <2>2, <2>3, <2>5, <2>6 DEF PackagesGoOn, Spent, Loose
<1> QED
  BY <1>1, <1>2 DEF Publish

LEMMA WelcomesKept ==
    ASSUME TypeOK, welcomes' = welcomes, PackagesGoOn, WelcomesOpenOnce,
           \A g \in PeerGroups : HasGroup(g)' => HasGroup(g) \/ \E w \in welcomes : w.gid = g /\ Spent(w.kp)'
    PROVE  WelcomesOpenOnce'
<1>1. \A w \in welcomes : w.kp \in Packages
  BY DEF TypeOK, Welcome
<1>2. ASSUME NEW w \in welcomes, HasGroup(w.gid)' PROVE Spent(w.kp)'
  <2> DEFINE g == w.gid
             k == w.kp
  <2>1. g \in PeerGroups /\ HasGroup(g)'
    BY <1>2 DEF WelcomesOpenOnce
  <2>2. CASE HasGroup(g)
    BY <1>1, <2>2 DEF WelcomesOpenOnce, PackagesGoOn
  <2>3. ASSUME NEW v \in welcomes, v.gid = g, Spent(v.kp)' PROVE Spent(w.kp)'
    <3>1. v = w
      BY <2>3 DEF WelcomesOpenOnce
    <3> QED
      BY <2>3, <3>1
  <2> QED
    BY <2>1, <2>2, <2>3
<1>3. \A g \in PeerGroups : HasGroup(g)' => \E w \in welcomes : w.gid = g
  BY DEF WelcomesOpenOnce
<1> QED
  BY <1>2, <1>3 DEF WelcomesOpenOnce

LEMMA CallPending ==
    ASSUME TypeOK, PendingIsHeld, NEW o \in Ops, CallSteps(o)
    PROVE  PackagesGoOn /\ (Joins(o) => \A k \in Packages : Loose(k) => Spent(k)')
<1>1. CASE Installs(o)
  <2>1. package' = package /\ (pending' = pending \/ Pops) /\ (At(o, "welcome", "mls") => Pops)
    BY <1>1 DEF Installs, Installation, At
  <2> QED
    BY <2>1, PendingSame, PendingPops DEF Joins
<1>2. CASE ~Installs(o)
  <2>1. package' = package /\ pending' = pending
    BY <1>2 DEF CallSteps, StartsCall, CallEnds, TakesPackage, Advances, WritesCommit, SealsAndSaves, pageVars
  <2> QED
    BY <1>2, <2>1, PendingSame DEF Joins
<1> QED
  BY <1>1, <1>2

LEMMA InHandStays ==
    ASSUME TypeOK, NEW p \in Ops, CallShape(p), PackagesGoOn, PackageInHand(p),
           op'[p] = op[p] \/ op'[p].pc = "done"
    PROVE  PackageInHand(p)'
<1>1. CASE op'[p] = op[p]
  BY <1>1 DEF PackageInHand, AtAny, PackagesGoOn, CallShape
<1>2. CASE op'[p].pc = "done"
  BY <1>2 DEF PackageInHand, AtAny
<1> QED
  BY <1>1, <1>2

LEMMA CallInHand ==
    ASSUME TypeOK, Shapes, PackagesAreUsedOnce, NEW o \in Ops, CallSteps(o), NEW p \in Ops
    PROVE  PackageInHand(p)'
<1>0. OthersStay(o) /\ PackagesGoOn /\ PackageInHand(p) /\ CallShape(p)
  BY CallPending DEF CallSteps, StartsCall, CallEnds, TakesPackage, Advances, Installs, WritesCommit,
     SealsAndSaves, GoesOn, IsOver, Shapes, PackagesAreUsedOnce
<1>1. CASE p # o
  BY <1>0, <1>1, InHandStays DEF OthersStay
<1>2. CASE p = o /\ TakesPackage(o)
  <2>1. pending' = pending /\ package' = package /\ pending # <<>> /\ op'[o].kp = Head(pending)
    BY <1>2 DEF TakesPackage
  <2>2. pending \in Seq(Packages)
    BY DEF TypeOK
  <2>3. Head(pending) = pending[1] /\ 1 \in DOMAIN pending
    BY <2>1, <2>2
  <2>4. Loose(Head(pending))
    BY <2>3 DEF PackagesAreUsedOnce, PendingIsHeld, Loose
  <2> QED
    BY <1>2, <2>1, <2>4 DEF PackageInHand, Loose
<1>3. CASE p = o /\ ~TakesPackage(o)
  <2>1. op'[o].pc = "mls" => op'[o].kind = "message"
    BY <1>3 DEF CallSteps, StartsCall, CallEnds, Advances, Transition, Installs, WritesCommit, SealsAndSaves,
       GoesOn, IsOver
  <2> QED
    BY <1>3, <2>1 DEF PackageInHand, AtAny
<1> QED
  BY <1>1, <1>2, <1>3

LEMMA CallNotJoined ==
    ASSUME TypeOK, Shapes, OneAtATime, PackagesAreUsedOnce, NEW o \in Ops, CallSteps(o), NEW p \in Ops
    PROVE  NotJoined(p)'
<1> SUFFICES ASSUME Alone(p)', At(p, "welcome", "mls")', Joinable(p)'
             PROVE  mem'[op'[p].room] = None \/ mem'[op'[p].room].gid # op'[p].arg.gid
  BY DEF NotJoined
<1>0. OthersStay(o) /\ overlapped \subseteq overlapped' /\ NotJoined(p) /\ CallShape(p) /\ CallShape(o)
  BY DEF CallSteps, StartsCall, CallEnds, TakesPackage, Advances, Installs, WritesCommit, SealsAndSaves,
     GoesOn, IsOver, Shapes, PackagesAreUsedOnce
<1>1. CASE p = o
  <2>1. TakesPackage(o)
    BY <1>1 DEF At, CallSteps, StartsCall, CallEnds, Advances, Transition, Installs, WritesCommit, SealsAndSaves,
       GoesOn, IsOver
  <2>2. /\ mem' = mem /\ op'[o].room = op[o].room /\ op'[o].arg = op[o].arg /\ op[o].kind = "welcome"
        /\ op'[o].kp = Head(pending) /\ pending # <<>> /\ op[o].pc = "load"
    BY <1>1, <2>1 DEF TakesPackage, At
  <2>3. op[o].room \in Rooms /\ op[o].arg \in welcomes
    BY <1>0, <2>2 DEF CallShape, Active
  <2>4. pending \in Seq(Packages)
    BY DEF TypeOK
  <2>5. Head(pending) = pending[1] /\ 1 \in DOMAIN pending
    BY <2>2, <2>4
  <2>6. op[o].arg.kp = pending[1]
    BY <1>1, <2>2, <2>5 DEF Joinable
  <2>7. ~HasGroup(op[o].arg.gid)
    BY <2>3, <2>5, <2>6 DEF PackagesAreUsedOnce, WelcomesOpenOnce, Spent
  <2> QED
    BY <1>1, <2>2, <2>3, <2>7, GroupsAre
<1>2. CASE p # o
  <2>1. op'[p] = op[p] /\ Alone(p) /\ At(p, "welcome", "mls") /\ Joinable(p) /\ op[p].room \in Rooms
    BY <1>0, <1>2 DEF OthersStay, Alone, Active, At, Joinable, CallShape
  <2>2. mem[op[p].room] = None \/ mem[op[p].room].gid # op[p].arg.gid
    BY <1>0, <2>1 DEF NotJoined
  <2>3. mem'[op[p].room] = mem[op[p].room]
    <3>1. CASE Installs(o) \/ WritesCommit(o)
      <4>1. Active(o) /\ \A q \in Rooms : q # op[o].room => mem'[q] = mem[q]
        BY <3>1 DEF Installs, WritesCommit, Writes, Installation, Sends, At, Active
      <4>2. op[p].room # op[o].room
        BY <1>2, <2>1, <4>1 DEF OneAtATime, ActiveIn, Alone
      <4> QED
        BY <2>1, <4>1, <4>2
    <3> QED
      BY <3>1 DEF CallSteps, StartsCall, CallEnds, TakesPackage, Advances, SealsAndSaves, pageVars
  <2> QED
    BY <2>1, <2>2, <2>3
<1> QED
  BY <1>1, <1>2

LEMMA CallPackages ==
    ASSUME TypeOK, Shapes, OneAtATime, PackagesAreUsedOnce, NEW o \in Ops, CallSteps(o)
    PROVE  PackagesAreUsedOnce'
<1>1. PackagesGoOn /\ (Joins(o) => \A k \in Packages : Loose(k) => Spent(k)')
  BY CallPending DEF PackagesAreUsedOnce
<1>2. welcomes' = welcomes
  BY DEF CallSteps, StartsCall, CallEnds, TakesPackage, Advances, Installs, WritesCommit, SealsAndSaves, worldVars
<1>3. ASSUME Joins(o) PROVE \E w \in welcomes : w = op[o].arg /\ Spent(w.kp)'
  <2>1. op[o].arg \in welcomes /\ op[o].kp \in Packages
    BY <1>3 DEF Joins, At, AtAny, Shapes, CallShape
  <2>2. Loose(op[o].kp)
    BY <1>3, <2>1 DEF Joins, At, AtAny, PackagesAreUsedOnce, PackageInHand
  <2>3. PICK w \in welcomes : w = op[o].arg
    BY <2>1
  <2>4. PICK k \in Packages : k = w.kp /\ Loose(k)
    BY <1>3, <2>1, <2>2, <2>3 DEF Joins, Joinable
  <2>5. Spent(k)'
    BY <1>1, <1>3, <2>4
  <2> QED
    BY <2>3, <2>4, <2>5
<1>4. \A g \in PeerGroups : HasGroup(g)' => HasGroup(g) \/ \E w \in welcomes : w.gid = g /\ Spent(w.kp)'
  <2> SUFFICES ASSUME NEW g \in PeerGroups, HasGroup(g)', ~HasGroup(g)
               PROVE  \E w \in welcomes : w.gid = g /\ Spent(w.kp)'
    OBVIOUS
  <2>1. Joins(o) /\ g = op[o].arg.gid
    BY CallGroups
  <2> QED
    BY <1>3, <2>1
<1>5. WelcomesOpenOnce'
  BY <1>1, <1>2, <1>4, WelcomesKept DEF PackagesAreUsedOnce
<1> QED
  BY <1>1, <1>5, CallInHand, CallNotJoined DEF PackagesAreUsedOnce, PackagesGoOn

\* The KeyPackages in the steps that are no call's.
LEMMA OthersPackages ==
    ASSUME TypeOK, Queue, PackagesAreUsedOnce, Others, ~World
    PROVE  PackagesGoOn
<1>0. PendingIsHeld /\ package \in [Packages -> {"new", "posted", "held", "lost"}]
  BY DEF PackagesAreUsedOnce, TypeOK
<1>1. CASE \E k \in Packages : Publish(k)
  BY <1>0, <1>1, PublishPackages
<1>2. CASE DisposeEnds
  BY <1>2, PendingGone DEF DisposeEnds
<1>3. CASE Reload
  <2>1. pending' = <<>> /\ package' = [k \in Packages |-> IF package[k] = "new" THEN "new" ELSE "lost"]
    BY <1>3 DEF Reload
  <2>2. \A k \in Packages : package[k] \in {"held", "lost"} => package'[k] \in {"held", "lost"}
    BY <2>1
  <2> QED
    BY <2>1, <2>2, PendingGone
<1>4. CASE Store
  BY <1>0, <1>4, StoreDisposal, PendingSame
<1>5. CASE Initialise \/ (Dispose /\ ~DisposeEnds)
  <2>1. pending' = pending /\ package' = package
    BY <1>5 DEF Initialise, Imported, RoomsListed, RoomRestored, RestoreThrows, RestoreDone, RoomLoaded,
       RoomDropped, Dispose, DisposeBegins, SweepRoom
  <2> QED
    BY <1>0, <2>1, PendingSame
<1> QED
  BY <1>1, <1>2, <1>3, <1>4, <1>5 DEF Others

LEMMA OthersNotJoined ==
    ASSUME TypeOK, Shapes, Queue, RestoreComesFirst, PackagesAreUsedOnce, Others, NEW p \in Ops
    PROVE  NotJoined(p)'
<1> SUFFICES ASSUME Alone(p)', At(p, "welcome", "mls")', Joinable(p)'
             PROVE  mem'[op'[p].room] = None \/ mem'[op'[p].room].gid # op'[p].arg.gid
  BY DEF NotJoined
<1>1. op'[p] = op[p] /\ ~Reload
  <2>1. op'[p] = op[p]
    BY OnlyCallsMove DEF Others, CallsOver, At
  <2>2. CASE Reload
    <3>1. op'[p] = IF Active(p) THEN DoneCall ELSE op[p]
      BY <2>2, ReloadCalls
    <3> QED
      BY <3>1, DoneCallFields DEF Alone, Active
  <2> QED
    BY <2>1, <2>2
<1>2. Alone(p) /\ At(p, "welcome", "mls") /\ Joinable(p) /\ op[p].room \in Rooms
  BY <1>1, OverlapsKept DEF OverlapsStay, Alone, Active, At, Joinable, Shapes, CallShape
<1>3. mem[op[p].room] = None \/ mem[op[p].room].gid # op[p].arg.gid
  BY <1>2 DEF PackagesAreUsedOnce, NotJoined
<1>4. CASE DisposeEnds
  BY <1>1, <1>2, <1>4 DEF DisposeEnds
<1>5. ~(\E r \in Rooms : RoomLoaded(r))
  BY <1>2 DEF RoomLoaded, RestoreComesFirst, Alone
<1>6. CASE ~DisposeEnds
  BY <1>1, <1>3, <1>5, <1>6, MemoryStays
<1> QED
  BY <1>4, <1>6

LEMMA WorldPackages ==
    ASSUME TypeOK, Shapes, Queue, RestoreComesFirst, PackagesAreUsedOnce, World
    PROVE  PackagesAreUsedOnce'
<1>1. UNCHANGED <<op, mem, idb, fallback, tx, pending, package>>
  BY DEF World, PeerCommits, PeerInvites, pageVars
<1>2. \A g : HasGroup(g)' <=> HasGroup(g)
  BY <1>1 DEF HasGroup
<1>3. PendingIsHeld' /\ \A k : (Spent(k)' <=> Spent(k)) /\ (Loose(k)' <=> Loose(k))
  BY <1>1 DEF PackagesAreUsedOnce, PendingIsHeld, Spent, Loose
<1>4. \A p \in Ops : PackageInHand(p)'
  BY <1>1, <1>3 DEF PackagesAreUsedOnce, PackageInHand, AtAny, Loose
<1>5. WelcomesOpenOnce'
  <2>1. CASE welcomes' = welcomes
    BY <1>2, <1>3, <2>1 DEF PackagesAreUsedOnce, WelcomesOpenOnce, Spent
  <2>2. ASSUME NEW g \in PeerGroups, NEW k \in Packages, PeerInvites(g, k) PROVE WelcomesOpenOnce'
    <3> DEFINE new == [gid |-> g, hist |-> log'[g], kp |-> k]
    <3>1. welcomes' = welcomes \cup {new} /\ new.gid = g /\ \A w \in welcomes : w.gid # g
      BY <2>2 DEF PeerInvites
    <3>2. ~HasGroup(g)
      BY <3>1 DEF PackagesAreUsedOnce, WelcomesOpenOnce
    <3> HIDE DEF new
    <3> QED
      BY <1>1, <1>2, <3>1, <3>2 DEF PackagesAreUsedOnce, WelcomesOpenOnce, Spent
  <2> QED
    BY <2>1, <2>2 DEF World, PeerCommits
<1> QED
  BY <1>3, <1>4, <1>5, OthersNotJoined DEF PackagesAreUsedOnce, Others

LEMMA PackagesKept ==
    ASSUME MlsInv, TypeOK', Others \/ \E o \in Ops : CallSteps(o)
    PROVE  PackagesAreUsedOnce'
<1>0. /\ TypeOK /\ Shapes /\ Queue /\ RestoreComesFirst /\ OneAtATime /\ PackagesAreUsedOnce
      /\ WelcomesOpenOnce
  BY DEF MlsInv, PackagesAreUsedOnce
<1>1. CASE \E o \in Ops : CallSteps(o)
  BY <1>0, <1>1, CallPackages
<1>2. CASE World
  BY <1>0, <1>2, WorldPackages
<1>3. CASE Others /\ ~World
  <2>1. StatesMove /\ PackagesGoOn
    BY <1>0, <1>3, OthersMove, OthersPackages
  <2>2. welcomes' = welcomes /\ CallsOver
    BY <2>1 DEF StatesMove
  <2>3. \A g : HasGroup(g)' => HasGroup(g)
    BY <2>1, GroupsMove
  <2>4. WelcomesOpenOnce'
    BY <1>0, <2>1, <2>2, <2>3, WelcomesKept
  <2>5. \A p \in Ops : PackageInHand(p)'
    BY <1>0, <2>1, <2>2, InHandStays DEF CallsOver, Shapes, PackagesAreUsedOnce
  <2> QED
    BY <1>0, <1>3, <2>1, <2>4, <2>5, OthersNotJoined DEF PackagesAreUsedOnce, PackagesGoOn
<1> QED
  BY <1>1, <1>2, <1>3

-----------------------------------------------------------------------------
(* The invariant holds *)

LEMMA MlsInit ==
    ASSUME Init
    PROVE  MlsInv
<1>i. \A o \in Ops : /\ op[o].kind = "none" /\ op[o].pc = "idle" /\ op[o].st = None /\ op[o].room = None
                     /\ op[o].arg = None /\ op[o].kp = None
  BY DEF Init, Idle
<1>m. \A r \in Rooms : mem[r] = None /\ bound[r] = None /\ aead[r] = None /\ idb[r] = None /\ fallback[r] = None
  BY DEF Init
<1>t. /\ tx = <<>> /\ pending = <<>> /\ dirty = {} /\ overlapped = {} /\ welcomes = {}
      /\ init = "none" /\ restoring = None /\ disposal.pc = "none" /\ useFallback = FALSE
      /\ (\A i \in DOMAIN tx : FALSE) /\ (\A i \in DOMAIN pending : FALSE)
  BY DEF Init
<1>1. TypeOK
  <2>1. op \in [Ops -> Calls]
    <3>1. Idle \in Calls
      BY DEF Idle, Calls, Stages
    <3> QED
      BY <3>1 DEF Init
  <2>2. 0 \in 0..MaxReloads /\ 0 \in 0..MaxFaults
    BY Names
  <2>3. pending \in Seq(Packages) /\ tx \in Seq([by : Ops \cup {Disposer}, room : Rooms, st : State])
        /\ log \in [Groups -> Seq(Ops \cup {Peer})]
    BY DEF Init
  <2>4. Typed
    BY <2>1, <2>2, <2>3 DEF Init, Typed
  <2> QED
    BY <2>4, TypedIs
<1>2. Shapes
  BY <1>i DEF Shapes, CallShape, Active, At, AtAny
<1>3. RestoreComesFirst
  BY <1>i, <1>m, <1>t DEF RestoreComesFirst, Active
<1>4. Bindings
  BY <1>i, <1>m DEF Bindings, CallBound
<1>5. Queue
  BY <1>m, <1>t DEF Queue
<1>6. SaveIsOnItsWay /\ DisposerSaves
  BY <1>m, <1>t DEF SaveIsOnItsWay, DisposerSaves, RoomIsSaved
<1>7. CommitsAreNew
  <2>1. ASSUME NEW o \in Ops PROVE Nowhere(o)
    <3>1. \A g \in Groups : ~Mentions(log[g], o)
      BY MentionsNone DEF Init
    <3> QED
      BY <1>i, <1>m, <1>t, <3>1 DEF Nowhere, In
  <2> QED
    BY <2>1 DEF CommitsAreNew
<1>8. OneAtATime /\ WorksOnTheState /\ SealingFollows
  BY <1>i, <1>t DEF OneAtATime, ActiveIn, Active, WorksOnTheState, Alone, SealingFollows
<1>9. PackagesAreUsedOnce
  <2>1. \A g : ~HasGroup(g)
    BY <1>i, <1>m, <1>t DEF HasGroup
  <2> QED
    BY <1>i, <1>t, <2>1 DEF PackagesAreUsedOnce, PendingIsHeld, WelcomesOpenOnce, PackageInHand, NotJoined,
       Alone, Active, AtAny
<1> QED
  BY <1>1, <1>2, <1>3, <1>4, <1>5, <1>6, <1>7, <1>8, <1>9 DEF MlsInv

LEMMA MlsSteps ==
    ASSUME TypeOK, Shapes, Next
    PROVE  TypeOK' /\ Shapes' /\ (Others \/ \E o \in Ops : CallSteps(o))
<1>1. TypeOK' /\ Shapes'
  BY NextShapes
<1>2. ASSUME NEW o \in Ops, Call(o) PROVE CallSteps(o)
  BY <1>2, CallDoes DEF Shapes
<1> QED
  BY <1>1, <1>2 DEF Next, Others

LEMMA MlsNext ==
    ASSUME AppAwaitsInit, MlsInv, Next
    PROVE  MlsInv'
<1>1. TypeOK' /\ Shapes' /\ (Others \/ \E o \in Ops : CallSteps(o))
  BY MlsSteps DEF MlsInv
<1>2. RestoreComesFirst' /\ Bindings' /\ Queue'
  BY <1>1, RestoreKept, BindingsKept, QueueKept
<1>3. SaveIsOnItsWay' /\ DisposerSaves' /\ CommitsAreNew'
  BY <1>1, SavesKept, CommitsKept
<1>4. OneAtATime' /\ WorksOnTheState' /\ SealingFollows' /\ PackagesAreUsedOnce'
  BY <1>1, OneAtATimeKept, WorkKept, SealsKept, PackagesKept
<1> QED
  BY <1>1, <1>2, <1>3, <1>4 DEF MlsInv

LEMMA MlsStutters ==
    ASSUME MlsInv, UNCHANGED vars
    PROVE  MlsInv'
<1>0. UNCHANGED <<op, pageVars, package, idb, idbUp, worldVars, historyVars, boundVars>>
  BY DEF vars
<1>1. UNCHANGED <<op, init, toRestore, restoring, mem, bound, aead, pending, disposal, useFallback,
                  fallback, tx, package, idb, idbUp, log, directory, welcomes, dirty, overlapped,
                  reloads, faults>>
  BY <1>0 DEF pageVars, worldVars, historyVars, boundVars
<1>2. (TypeOK /\ Shapes /\ RestoreComesFirst /\ Bindings /\ Queue)'
  <2>1. TypeOK'
    BY <1>1 DEF MlsInv, TypeOK
  <2>2. Shapes'
    <3> SUFFICES ASSUME NEW o \in Ops PROVE CallShape(o)'
      BY DEF Shapes
    <3> QED
      BY <1>1 DEF MlsInv, Shapes, CallShape, Active, At, AtAny
  <2>3. RestoreComesFirst' /\ Queue'
    BY <1>1 DEF MlsInv, RestoreComesFirst, Queue, Active
  <2>4. Bindings'
    BY <1>1 DEF MlsInv, Bindings, CallBound, Disposed
  <2> QED
    BY <2>1, <2>2, <2>3, <2>4
<1>3. (SaveIsOnItsWay /\ DisposerSaves /\ CommitsAreNew)'
  BY <1>1 DEF MlsInv, SaveIsOnItsWay, RoomIsSaved, EndsWith, OwnSaves, SavedLater, ToBeSaved, Unsure, Unsent,
     NoFalseSave, DisposerSaves, SweepIsGood, CommitsAreNew, Uncommitted, Nowhere, In, Mentions, Disposed,
     LastSaved
<1>4. (OneAtATime /\ WorksOnTheState /\ SealingFollows)'
  BY <1>1 DEF MlsInv, OneAtATime, ActiveIn, WorksOnTheState, HoldsState, Alone, Active, SealingFollows,
     SealsSoon, SealsNext, HasSealed, Unsent, Disposed
<1>5. PackagesAreUsedOnce'
  BY <1>1 DEF MlsInv, PackagesAreUsedOnce, PendingIsHeld, WelcomesOpenOnce, HasGroup, Spent, Loose,
     PackageInHand, NotJoined, Alone, Active, At, AtAny, Joinable
<1> QED
  BY <1>2, <1>3, <1>4, <1>5 DEF MlsInv

\* MlsInv is inductive.
LEMMA AlwaysMlsInv ==
    ASSUME AppAwaitsInit
    PROVE  Spec => []MlsInv
<1>1. AppAwaitsInit /\ MlsInv /\ [Next]_vars => MlsInv'
  BY MlsNext, MlsStutters
<1>2. MlsInv /\ [Next]_vars => MlsInv'
  BY <1>1
<1> QED
  BY MlsInit, <1>2, PTL DEF Spec

\* Every variable keeps its type, whether the application awaits the manager or not.
THEOREM MlsTypeCorrect == Spec => []TypeOK
<1>1. Init => TypeOK /\ Shapes
  BY MlsInit DEF MlsInv
<1>2. ASSUME TypeOK, Shapes, [Next]_vars PROVE TypeOK' /\ Shapes'
  <2>1. CASE Next
    BY <1>2, <2>1, NextShapes
  <2>2. CASE UNCHANGED vars
    BY <1>2, <2>2 DEF vars, pageVars, worldVars, historyVars, boundVars, TypeOK, Shapes, CallShape, Active,
       At, AtAny
  <2> QED
    BY <1>2, <2>1, <2>2
<1> QED
  BY <1>1, <1>2, PTL DEF Spec

LEMMA StoredFollows ==
    ASSUME MlsInv
    PROVE  StoredFollowsMemory
<1> SUFFICES ASSUME NEW r \in Rooms, mem[r] # None, ~Disposed, ActiveIn(r) = {}, r \notin dirty
             PROVE  LastSaved(r) = mem[r]
  BY DEF StoredFollowsMemory
<1>1. \A o \in Ops : ~(Active(o) /\ op[o].room = r)
  BY DEF ActiveIn
<1>2. ~SavedLater(r)
  BY <1>1 DEF SavedLater, ToBeSaved, Unsure, Unsent, Active
<1>3. OwnSaves(r) = {}
  <2>1. tx \in Seq(Save) /\ Queue
    BY DEF MlsInv, TypeOK, Save
  <2>2. \A i \in DOMAIN tx : tx[i] \in Save
    BY <2>1
  <2>3. \A i \in DOMAIN tx : tx[i].by \in Ops \cup {Disposer}
    BY <2>2 DEF Save
  <2> QED
    BY <1>1, <2>1, <2>3 DEF OwnSaves, Queue, Active
<1> QED
  BY <1>2, <1>3 DEF MlsInv, SaveIsOnItsWay, RoomIsSaved, EndsWith

LEMMA SealsCurrent ==
    ASSUME MlsInv
    PROVE  SealsInCurrentEpoch
<1> SUFFICES ASSUME NEW r \in Rooms, mem[r] # None, ActiveIn(r) = {}, r \notin dirty, r \notin overlapped,
                    init = "ready", disposal.pc = "none"
             PROVE  aead[r] = mem[r]
  BY DEF SealsInCurrentEpoch
<1>1. SealsSoon(r)
  BY DEF MlsInv, SealingFollows
<1> QED
  BY <1>1 DEF SealsSoon, SealsNext, Unsent, ActiveIn, Active

\* EpochsAgree: once a room's calls have returned and none failed after it wrote
\* the state, memory, the store and the AEAD keys are in one epoch, whatever
\* overlapped, was lost, fell back, was restored or disposed of.
THEOREM MlsEpochsAgree ==
    ASSUME AppAwaitsInit
    PROVE  Spec => []EpochsAgree
<1>1. MlsInv => EpochsAgree
  BY StoredFollows, SealsCurrent DEF EpochsAgree
<1> QED
  BY <1>1, AlwaysMlsInv, PTL

-----------------------------------------------------------------------------
(* A group only moves forward *)

LEMMA PrefixOfMore ==
    ASSUME NEW S, NEW h \in Seq(S)
    PROVE  IsPrefix(h, h) /\ \A a \in S : IsPrefix(h, Append(h, a))
<1>1. Len(h) \in Nat /\ SubSeq(h, 1, Len(h)) = h
  OBVIOUS
<1>2. ASSUME NEW a \in S PROVE Len(h) <= Len(Append(h, a)) /\ SubSeq(Append(h, a), 1, Len(h)) = h
  OBVIOUS
<1> QED
  BY <1>1, <1>2 DEF IsPrefix

\* Only createGroup() binds a bound room anew.
Rebinds(r) ==
    bound[r] # None /\ bound'[r] \notin {None, bound[r]} =>
        \E o \in Ops : At(o, "create", "load") /\ op[o].room = r

\* The group's history goes on.
Forward(r) ==
    r \notin overlapped' /\ mem[r] # None /\ mem'[r] # None /\ mem[r].gid = mem'[r].gid =>
        IsPrefix(mem[r].hist, mem'[r].hist)

LEMMA StaysForward ==
    ASSUME TypeOK, NEW r \in Rooms, mem'[r] = mem[r]
    PROVE  Forward(r)
<1>1. mem[r] # None => mem[r].hist \in Seq(Ops \cup {Peer})
  BY DEF TypeOK, State
<1> QED
  BY <1>1, PrefixOfMore DEF Forward

LEMMA OthersForward ==
    ASSUME MlsInv, Others, NEW r \in Rooms
    PROVE  Rebinds(r) /\ Forward(r)
<1>0. TypeOK /\ Queue /\ RestoreComesFirst
  BY DEF MlsInv
<1>1. CASE Reload \/ DisposeEnds
  <2>1. mem'[r] = None /\ bound'[r] = None
    BY <1>1 DEF Reload, DisposeEnds
  <2> QED
    BY <2>1 DEF Rebinds, Forward
<1>2. ASSUME NEW q \in Rooms, RoomLoaded(q) PROVE Rebinds(r) /\ Forward(r)
  <2>1. CASE q = r
    <3>1. mem[r] = None /\ bound[r] = None
      BY <1>0, <1>2, <2>1, RoomLoadedDoes DEF RestoreComesFirst
    <3> QED
      BY <3>1 DEF Rebinds, Forward
  <2>2. CASE q # r
    <3>1. mem'[r] = mem[r] /\ bound'[r] = bound[r]
      BY <1>0, <1>2, <2>2, RoomLoadedDoes DEF Writes
    <3> QED
      BY <1>0, <3>1, StaysForward DEF Rebinds
  <2> QED
    BY <2>1, <2>2
<1>3. CASE ~(Reload \/ DisposeEnds \/ \E q \in Rooms : RoomLoaded(q))
  <2>1. mem' = mem /\ bound' = bound
    BY <1>0, <1>3, MemoryStays
  <2> QED
    BY <1>0, <2>1, StaysForward DEF Rebinds
<1> QED
  BY <1>1, <1>2, <1>3

LEMMA CallRebinds ==
    ASSUME TypeOK, Shapes, NEW o \in Ops, CallSteps(o), NEW r \in Rooms
    PROVE  Rebinds(r)
<1>0. bound \in [Rooms -> Groups \cup {None}] /\ CallShape(o)
  BY DEF TypeOK, Shapes
<1>1. CASE TakesPackage(o) /\ op[o].kind = "create"
  <2>1. bound' = [bound EXCEPT ![op[o].room] = o] /\ At(o, "create", "load")
    BY <1>1 DEF TakesPackage, At
  <2> QED
    BY <1>0, <2>1 DEF Rebinds
<1>2. CASE Installs(o) /\ op[o].kind = "welcome"
  <2>1. SameGroup(o) /\ bound' = [bound EXCEPT ![op[o].room] = op[o].arg.gid]
    <3>1. PICK st \in State : Installation(o, st)
      BY <1>2 DEF Installs
    <3>2. SameGroup(o) /\ bound' = [bound EXCEPT ![op[o].room] = st.gid] /\ st.gid = op[o].arg.gid
      BY <1>0, <1>2, <3>1 DEF Installation, At, Sends, CallShape
    <3> QED
      BY <3>2
  <2> QED
    BY <1>0, <2>1 DEF Rebinds, SameGroup
<1>3. CASE ~(TakesPackage(o) /\ op[o].kind = "create") /\ ~(Installs(o) /\ op[o].kind = "welcome")
  <2>1. bound' = bound
    BY <1>3 DEF CallSteps, StartsCall, CallEnds, TakesPackage, Advances, Installs, Installation, At,
       WritesCommit, SealsAndSaves, pageVars
  <2> QED
    BY <2>1 DEF Rebinds
<1> QED
  BY <1>1, <1>2, <1>3

LEMMA CallForward ==
    ASSUME TypeOK, Shapes, WorksOnTheState, PackagesAreUsedOnce, NEW o \in Ops, CallSteps(o), NEW r \in Rooms
    PROVE  Forward(r)
<1>0. CallShape(o)
  BY DEF Shapes
<1>n. \A st \in State : st # None
  BY Names
<1> SUFFICES ASSUME r \notin overlapped', mem[r] # None, mem'[r] # None, mem[r].gid = mem'[r].gid
             PROVE  IsPrefix(mem[r].hist, mem'[r].hist)
  BY DEF Forward
<1>1. CASE mem'[r] = mem[r]
  BY <1>1, StaysForward DEF Forward
<1>2. CASE Installs(o) /\ op[o].room = r
  <2>1. PICK st \in State : GoesOn(o, "apply", st) /\ Writes(r, st) /\ Installation(o, st)
    BY <1>2 DEF Installs
  <2>2. Alone(o) /\ mem'[r] = st
    BY <1>2, <2>1 DEF Installs, Writes, Installation, Sends, At, Alone, Active
  <2>3. HoldsState(o) /\ NotJoined(o)
    BY <2>2 DEF WorksOnTheState, PackagesAreUsedOnce
  <2>4. op[o].pc \notin {"apply", "persist"}
    BY <2>1 DEF Installation, Sends, At
  <2>5. op[o].kind = "message" /\ At(o, "message", "mls") /\ st.hist = Append(op[o].st.hist, Peer)
    <3>1. op[o].kind # "create"
      BY <1>2, <2>3, <2>4 DEF HoldsState
    <3>2. ~(At(o, "welcome", "mls") /\ Joinable(o) /\ st = [gid |-> op[o].arg.gid, hist |-> op[o].arg.hist])
      <4> SUFFICES ASSUME At(o, "welcome", "mls"), Joinable(o), st.gid = op[o].arg.gid PROVE FALSE
        OBVIOUS
      <4> QED
        BY <1>2, <2>2, <2>3 DEF NotJoined
    <3> QED
      BY <2>1, <3>1, <3>2 DEF Installation, At
  <2>6. op[o].st \in State
    BY <1>0, <2>5 DEF CallShape, AtAny, At
  <2>7. mem[r] = op[o].st
    BY <1>n, <1>2, <2>3, <2>4, <2>5, <2>6 DEF HoldsState
  <2>8. op[o].st.hist \in Seq(Ops \cup {Peer}) /\ Peer \in Ops \cup {Peer}
    BY <2>6 DEF State
  <2> QED
    BY <2>2, <2>5, <2>7, <2>8, PrefixOfMore
<1>3. CASE WritesCommit(o) /\ op[o].room = r
  <2>1. mem'[r] = Committed(o) /\ op[o].pc = "commit" /\ op[o].kind \in Writers
    BY <1>3 DEF WritesCommit, Writes
  <2>2. op[o].st \in State /\ HoldsState(o)
    BY <1>0, <1>3, <2>1 DEF CallShape, WorksOnTheState, Alone, Active, WritesCommit
  <2>3. mem[r] = op[o].st
    BY <1>n, <1>3, <2>1, <2>2 DEF HoldsState, Writers
  <2>4. Committed(o).hist = Append(op[o].st.hist, o) /\ op[o].st.hist \in Seq(Ops \cup {Peer})
        /\ o \in Ops \cup {Peer}
    BY <2>2, CommittedFields DEF State
  <2> QED
    BY <2>1, <2>3, <2>4, PrefixOfMore
<1>4. mem'[r] = mem[r] \/ ((Installs(o) \/ WritesCommit(o)) /\ op[o].room = r)
  BY DEF CallSteps, StartsCall, CallEnds, TakesPackage, Advances, Installs, WritesCommit, Writes,
     SealsAndSaves, pageVars
<1> QED
  BY <1>1, <1>2, <1>3, <1>4

\* NoRollback: only createGroup() binds a bound room to another group, and no
\* repeated Welcome, late message or failed call takes back an epoch of a room
\* whose calls do not overlap.
THEOREM MlsMovesForward ==
    ASSUME AppAwaitsInit
    PROVE  Spec => NoRollback
<1>1. ASSUME MlsInv, Next, NEW r \in Rooms PROVE Rebinds(r) /\ Forward(r)
  <2>1. Others \/ \E o \in Ops : CallSteps(o)
    BY <1>1, MlsSteps DEF MlsInv
  <2> QED
    BY <1>1, <2>1, OthersForward, CallRebinds, CallForward DEF MlsInv
<1>2. MlsInv /\ [Next]_vars =>
        [\A r \in Rooms :
            /\ bound[r] # None /\ bound'[r] \notin {None, bound[r]} =>
                    \E o \in Ops : At(o, "create", "load") /\ op[o].room = r
            /\ r \notin overlapped' /\ mem[r] # None /\ mem'[r] # None /\ mem[r].gid = mem'[r].gid =>
                    IsPrefix(mem[r].hist, mem'[r].hist)]_vars
  BY <1>1 DEF Rebinds, Forward
<1> QED
  BY <1>2, AlwaysMlsInv, PTL DEF Spec, NoRollback
=============================================================================
