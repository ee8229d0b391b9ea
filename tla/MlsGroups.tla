------------------------------ MODULE MlsGroups ------------------------------
(***************************************************************************)
(* packages/chat-sdk/src/mls-provider.ts (MLSGroupManager), the store of   *)
(* mls-state-store.ts and the lazy initialisation and disposal in          *)
(* client.ts, for one device.                                              *)
(*                                                                         *)
(* A group's ClientState is its id and the commits applied so far; the     *)
(* epoch is their number.  An operation reads it, awaits the network or    *)
(* ts-mls, and writes it back; nothing keeps two operations apart.  ts-mls,*)
(* the Delivery Service, the other members and sframe-ratchet's AEAD layer *)
(* are external.  A reload of the page keeps IndexedDB and the outside     *)
(* world.                                                                  *)
(***************************************************************************)
EXTENDS Naturals, FiniteSets, SequencesExt

CONSTANTS
    Rooms,
    Ops,            \* calls of the manager; the id of a call also names its commit
    Packages,       \* KeyPackages this device may publish
    PeerGroups,     \* groups other members create
    Peer,           \* the author of every commit that is not this device's
    Disposer,       \* client.dispose()
    None,           \* no state, no group, no room
    AppAwaitsInit,  \* does the application await its first getMlsManager()?
    MaxMembers,     \* bound on the members createGroup() adds
    MaxEpoch,       \* bound on the commits of peers
    MaxActive,      \* bound on the calls, dispose() included, that run at the same time
    MaxReloads, MaxFaults

Groups == PeerGroups \cup Ops       \* createGroup draws a fresh random id

State == [gid : Groups, hist : Seq(Ops \cup {Peer})]
Welcome == [gid : Groups, hist : Seq(Ops \cup {Peer}), kp : Packages]
Loaded == [room : Rooms, st : State]        \* what restoreAll() has read

ASSUME NamesAssumption ==
    /\ Peer \notin Ops /\ Disposer \notin Ops /\ PeerGroups \cap Ops = {}
    /\ None \notin Groups \cup Rooms \cup Packages \cup State \cup Loaded
    /\ AppAwaitsInit \in BOOLEAN
    /\ {MaxMembers, MaxEpoch, MaxActive, MaxReloads, MaxFaults} \subseteq Nat

VARIABLES
    op,         \* [Ops -> Call]: the calls, with what each has read so far
    init,       \* #ensureMlsProvider: where the initialisation is
    toRestore,  \* rooms restoreAll() has still to load
    restoring,  \* the room whose epoch it is applying
    mem,        \* #roomStates
    bound,      \* #roomGroupIds
    aead,       \* the state whose epoch the AEAD layer seals with
    pending,    \* #pendingKeyPackages
    package,    \* [Packages -> STRING]: where publishKeyPackage() is
    disposal,   \* client.dispose(): its stage and the rooms it has saved
    useFallback, fallback,      \* the in-memory store
    tx,         \* saves outstanding at IndexedDB, in request order
    idb, idbUp, \* IndexedDB, and whether it works
    log,        \* external: [Groups -> Seq], the commits the service accepted
    directory,  \* external: published KeyPackages nobody has fetched
    welcomes,   \* external: Welcome messages for this device
    dirty,      \* history: rooms where a call failed after writing the state
    overlapped, \* history: rooms where two calls ran at the same time
    reloads, faults

pageVars == <<init, toRestore, restoring, mem, bound, aead, pending, disposal,
              useFallback, fallback, tx>>
groupVars == <<mem, bound, aead>>
initVars == <<init, toRestore, restoring>>
storeVars == <<useFallback, fallback, tx, idb, idbUp>>
worldVars == <<log, directory, welcomes>>
historyVars == <<dirty, overlapped>>
boundVars == <<reloads, faults>>
vars == <<op, pageVars, package, idb, idbUp, worldVars, historyVars, boundVars>>

Idle == [kind |-> "none", room |-> None, arg |-> None, pc |-> "idle", st |-> None,
         kp |-> None, left |-> 0]

Init ==
    /\ op = [o \in Ops |-> Idle]
    /\ init = "none" /\ toRestore = {} /\ restoring = None
    /\ mem = [r \in Rooms |-> None]
    /\ bound = [r \in Rooms |-> None]
    /\ aead = [r \in Rooms |-> None]
    /\ pending = <<>>
    /\ package = [k \in Packages |-> "new"]
    /\ disposal = [pc |-> "none", seen |-> {}]
    /\ useFallback = FALSE /\ fallback = [r \in Rooms |-> None]
    /\ tx = <<>>
    /\ idb = [r \in Rooms |-> None] /\ idbUp = TRUE
    /\ log = [g \in Groups |-> <<>>]
    /\ directory = {} /\ welcomes = {}
    /\ dirty = {} /\ overlapped = {}
    /\ reloads = 0 /\ faults = 0

Disposed == disposal.pc = "done"
Active(o) == op[o].pc \notin {"idle", "done"}
Disposing == disposal.pc \in {"sweeping", "saving"}
Running == Cardinality({o \in Ops : Active(o)}) + IF Disposing THEN 1 ELSE 0
ActiveIn(r) == {o \in Ops : Active(o) /\ op[o].room = r}
Stored(r) == IF useFallback THEN fallback[r] ELSE idb[r]

\* Where a room was last saved: the in-memory store starts empty, so a room that
\* has had no save since the switch has its state in IndexedDB still.
LastSaved(r) == IF useFallback /\ fallback[r] # None THEN fallback[r] ELSE idb[r]

Fault == faults < MaxFaults /\ faults' = faults + 1
At(o, kind, pc) == op[o].kind = kind /\ op[o].pc = pc
AtAny(o, kinds, pc) == op[o].kind \in kinds /\ op[o].pc = pc
Goto(o, pc) == op' = [op EXCEPT ![o].pc = pc]
GotoWith(o, pc, st) == op' = [op EXCEPT ![o].pc = pc, ![o].st = st]
Returns(o) == op' = [op EXCEPT ![o] = [Idle EXCEPT !.pc = "done"]]     \* or throws
Writers == {"add", "remove"}        \* calls that write their state before they send it

(***************************************************************************)
(* Calls.  getMlsManager() hands out the manager as soon as the provider   *)
(* is set: while restoreAll() still runs, and after it threw.              *)
(***************************************************************************)
HasManager == init \in {"ready", "broken"} \/ (init \in {"listing", "restoring"} /\ ~AppAwaitsInit)

CallKinds == {"create", "welcome", "message", "add", "remove"}
Messages == {[gid |-> g, n |-> n] : g \in Groups, n \in 1..MaxEpoch}      \* commit n of a group

\* What a consumer may ask for: a group for a room that has none, a Welcome
\* or a message of the event stream (as often as the stream repeats it), a
\* member more or less.
Request(kind, r, arg, left) ==
    \/ kind = "create" /\ arg = None /\ mem[r] = None
    \/ kind \in Writers /\ arg = None /\ left = 0
    \/ kind = "welcome" /\ left = 0 /\ arg \in welcomes
    \/ kind = "message" /\ left = 0 /\ arg \in Messages /\ arg.n <= Len(log[arg.gid])

Starts(o, kind, r, arg, left) ==
    /\ HasManager /\ ~Disposed /\ op[o].pc = "idle"
    /\ Running < MaxActive
    /\ Request(kind, r, arg, left)
    /\ op' = [op EXCEPT ![o] = [kind |-> kind, room |-> r, arg |-> arg, pc |-> "load",
                                st |-> None, kp |-> None, left |-> left]]
    /\ overlapped' = IF ActiveIn(r) = {} THEN overlapped ELSE overlapped \cup {r}
    /\ UNCHANGED <<pageVars, package, idb, idbUp, worldVars, dirty, boundVars>>

CallBegins(o) ==
    \E kind \in CallKinds, r \in Rooms, arg \in {None} \cup welcomes \cup Messages,
       left \in 0..MaxMembers : Starts(o, kind, r, arg, left)

\* After the awaits of every call's first lines: no KeyPackage, no state, bytes
\* that do not decode, no such member.
NothingToWorkOn(o) ==
    /\ op[o].pc = "load"
    /\ \/ op[o].kind \in {"create", "welcome"} /\ pending = <<>>
       \/ op[o].kind \in {"message", "add", "remove"} /\ mem[op[o].room] = None
       \/ op[o].kind \in {"welcome", "message", "remove"}
    /\ Returns(o)
    /\ UNCHANGED <<pageVars, package, idb, idbUp, worldVars, historyVars, boundVars>>

CreateBegins(o) ==
    /\ At(o, "create", "load") /\ pending # <<>>
    /\ op' = [op EXCEPT ![o].pc = "mls", ![o].kp = Head(pending),
                        ![o].st = [gid |-> o, hist |-> <<>>]]
    /\ bound' = [bound EXCEPT ![op[o].room] = o]
    /\ UNCHANGED <<initVars, mem, aead, pending, disposal, storeVars, package, worldVars,
                   historyVars, boundVars>>

WelcomeBegins(o) ==
    /\ At(o, "welcome", "load") /\ pending # <<>>
    /\ op' = [op EXCEPT ![o].pc = "mls", ![o].kp = Head(pending)]
    /\ UNCHANGED <<pageVars, package, idb, idbUp, worldVars, historyVars, boundVars>>

\* removeMember() finds the leaf and goes on to its commit; addMember()
\* fetches a KeyPackage first; processMessage() hands the message to ts-mls.
StateRead(o) ==
    /\ op[o].pc = "load" /\ mem[op[o].room] # None
    /\ \/ op[o].kind = "add" /\ GotoWith(o, "fetch", mem[op[o].room])
       \/ op[o].kind = "remove" /\ GotoWith(o, "commit", mem[op[o].room])
       \/ op[o].kind = "message" /\ GotoWith(o, "mls", mem[op[o].room])
    /\ UNCHANGED <<pageVars, package, idb, idbUp, worldVars, historyVars, boundVars>>

(***************************************************************************)
(* createGroup, addMember, removeMember.                                   *)
(***************************************************************************)
\* createGroup() is through with its members: state, KeyPackage, epoch.
InstallsCreated(o) ==
    /\ mem' = [mem EXCEPT ![op[o].room] = op[o].st]
    /\ pending' = IF pending = <<>> THEN pending ELSE Tail(pending)
    /\ Goto(o, "apply")

CreateMade(o) ==
    /\ At(o, "create", "mls")
    /\ \/ op[o].left > 0 /\ Goto(o, "fetch") /\ UNCHANGED <<mem, pending>>
       \/ op[o].left = 0 /\ InstallsCreated(o)
    /\ UNCHANGED <<initVars, bound, aead, disposal, storeVars, package, worldVars,
                   historyVars, boundVars>>

\* #fetchKeyPackage of the member: found, or no usable package.
KeyPackageFetched(o) ==
    /\ op[o].pc = "fetch"
    /\ \/ Goto(o, "commit") /\ UNCHANGED faults
       \/ Returns(o) /\ Fault
    /\ UNCHANGED <<pageVars, package, idb, idbUp, worldVars, historyVars, reloads>>

\* createCommit answers: addMember() and removeMember() write the new state
\* at once, createGroup() keeps it for itself.
Committed(o) == [op[o].st EXCEPT !.hist = Append(@, o)]

CommitMade(o) ==
    /\ op[o].pc = "commit"
    /\ GotoWith(o, IF op[o].kind = "remove" THEN "send" ELSE "welcome", Committed(o))
    /\ mem' = IF op[o].kind \in Writers THEN [mem EXCEPT ![op[o].room] = Committed(o)] ELSE mem
    /\ UNCHANGED <<initVars, bound, aead, pending, disposal, storeVars, package, worldVars,
                   historyVars, boundVars>>

\* A call that fails after it wrote the state leaves it unsaved.
FailsToSend(o) ==
    /\ Returns(o)
    /\ dirty' = IF op[o].kind \in Writers THEN dirty \cup {op[o].room} ELSE dirty

WelcomeSent(o) ==
    /\ op[o].pc = "welcome"
    /\ \/ Goto(o, "send") /\ UNCHANGED <<dirty, faults>>
       \/ FailsToSend(o) /\ Fault
    /\ UNCHANGED <<pageVars, package, idb, idbUp, worldVars, overlapped, reloads>>

\* The service takes a commit that follows its log, and refuses any other.
Follows(st) == log[st.gid] = Front(st.hist)

CommitTaken(o) ==
    /\ op[o].pc = "send" /\ Follows(op[o].st)
    /\ log' = [log EXCEPT ![op[o].st.gid] = op[o].st.hist]
    /\ \/ /\ op[o].kind \in Writers /\ Goto(o, "apply")
          /\ UNCHANGED <<mem, pending, dirty, faults>>
       \/ /\ op[o].kind = "create" /\ op[o].left > 1
          /\ op' = [op EXCEPT ![o].pc = "fetch", ![o].left = @ - 1]
          /\ UNCHANGED <<mem, pending, dirty, faults>>
       \/ /\ op[o].kind = "create" /\ op[o].left = 1
          /\ InstallsCreated(o) /\ UNCHANGED <<dirty, faults>>
       \/ FailsToSend(o) /\ Fault /\ UNCHANGED <<mem, pending>>     \* the answer is lost
    /\ UNCHANGED <<initVars, bound, aead, disposal, storeVars, package, directory, welcomes,
                   overlapped, reloads>>

CommitRefused(o) ==
    /\ op[o].pc = "send"
    /\ FailsToSend(o)
    /\ \/ ~Follows(op[o].st) /\ UNCHANGED faults
       \/ Fault
    /\ UNCHANGED <<pageVars, package, idb, idbUp, worldVars, overlapped, reloads>>

(***************************************************************************)
(* processWelcome and processMessage, when ts-mls has answered.            *)
(***************************************************************************)
\* joinGroup succeeds with the KeyPackage the Welcome was made for; a room
\* bound to another group refuses it.
Joinable(o) == op[o].arg.kp = op[o].kp
SameGroup(o) == bound[op[o].room] \in {None, op[o].arg.gid}

\* Mutant of Joined: the KeyPackage stays.
JoinedKeepingPackage(o) ==
    /\ At(o, "welcome", "mls") /\ Joinable(o) /\ SameGroup(o)
    /\ LET st == [gid |-> op[o].arg.gid, hist |-> op[o].arg.hist]
       IN  /\ GotoWith(o, "apply", st)
           /\ mem' = [mem EXCEPT ![op[o].room] = st]
           /\ bound' = [bound EXCEPT ![op[o].room] = st.gid]
    /\ UNCHANGED <<initVars, aead, pending, disposal, storeVars, package, worldVars, historyVars,
                   boundVars>>

Joined(o) ==
    /\ At(o, "welcome", "mls") /\ Joinable(o) /\ SameGroup(o)
    /\ LET st == [gid |-> op[o].arg.gid, hist |-> op[o].arg.hist]
       IN  /\ GotoWith(o, "apply", st)
           /\ mem' = [mem EXCEPT ![op[o].room] = st]
           /\ bound' = [bound EXCEPT ![op[o].room] = st.gid]
    /\ pending' = IF pending = <<>> THEN pending ELSE Tail(pending)
    /\ UNCHANGED <<initVars, aead, disposal, storeVars, package, worldVars, historyVars,
                   boundVars>>

WelcomeRefused(o) ==
    /\ At(o, "welcome", "mls") /\ ~(Joinable(o) /\ SameGroup(o))
    /\ Returns(o)
    /\ UNCHANGED <<pageVars, package, idb, idbUp, worldVars, historyVars, boundVars>>

\* A commit applies to the state it was made on; one's own never does.
Applies(o) ==
    LET st == op[o].st  msg == op[o].arg
    IN  /\ st.gid = msg.gid
        /\ st.hist = SubSeq(log[msg.gid], 1, msg.n - 1)
        /\ log[msg.gid][msg.n] = Peer

MessageApplied(o) ==
    /\ At(o, "message", "mls") /\ Applies(o)
    /\ LET st == [op[o].st EXCEPT !.hist = Append(@, Peer)]
       IN  GotoWith(o, "apply", st) /\ mem' = [mem EXCEPT ![op[o].room] = st]
    /\ UNCHANGED <<initVars, bound, aead, pending, disposal, storeVars, package, worldVars,
                   historyVars, boundVars>>

MessageRefused(o) ==
    /\ At(o, "message", "mls") /\ ~Applies(o)
    /\ Returns(o)
    /\ UNCHANGED <<pageVars, package, idb, idbUp, worldVars, historyVars, boundVars>>

(***************************************************************************)
(* #applyEpoch and #persistRoom, which end every call that changed a       *)
(* state.  What is saved is the room's state by then, whoever wrote it.    *)
(***************************************************************************)
NothingToSave(r) == Disposed \/ mem[r] = None

SavesInMemory(r) ==
    /\ ~NothingToSave(r) /\ useFallback
    /\ fallback' = [fallback EXCEPT ![r] = mem[r]]
    /\ dirty' = dirty \ {r}
    /\ UNCHANGED <<useFallback, tx, idb, idbUp>>

\* Mutant of RequestsSave: a call saves the state it made.
RequestsSaveOwn(who, r) ==
    /\ ~NothingToSave(r) /\ ~useFallback
    /\ tx' = Append(tx, [by |-> who, room |-> r,
                         st |-> IF who = Disposer THEN mem[r] ELSE op[who].st])
    /\ UNCHANGED <<useFallback, fallback, idb, idbUp, dirty>>

RequestsSave(who, r) ==
    /\ ~NothingToSave(r) /\ ~useFallback
    /\ tx' = Append(tx, [by |-> who, room |-> r, st |-> mem[r]])
    /\ UNCHANGED <<useFallback, fallback, idb, idbUp, dirty>>

EpochApplied(o) ==
    /\ op[o].pc = "apply" /\ bound[op[o].room] # None
    /\ aead' = [aead EXCEPT ![op[o].room] = op[o].st]
    /\ \/ NothingToSave(op[o].room) /\ Returns(o) /\ UNCHANGED <<storeVars, dirty>>
       \/ SavesInMemory(op[o].room) /\ Returns(o)
       \/ RequestsSave(o, op[o].room) /\ Goto(o, "persist")
    /\ UNCHANGED <<initVars, mem, bound, pending, disposal, package, worldVars, overlapped,
                   boundVars>>

\* The room was disposed of meanwhile.
EpochHasNoGroup(o) ==
    /\ op[o].pc = "apply" /\ bound[op[o].room] = None
    /\ Returns(o)
    /\ UNCHANGED <<pageVars, package, idb, idbUp, worldVars, historyVars, boundVars>>

\* saveClientState() returns to the call, or to persistAll().
Saved(who) ==
    \/ who = Disposer /\ disposal' = [disposal EXCEPT !.pc = "sweeping"] /\ UNCHANGED op
    \/ who # Disposer /\ Returns(who) /\ UNCHANGED disposal

SaveCommits ==
    /\ tx # <<>> /\ idbUp /\ Saved(Head(tx).by)
    /\ idb' = [idb EXCEPT ![Head(tx).room] = Head(tx).st]
    /\ tx' = Tail(tx)
    /\ dirty' = IF mem[Head(tx).room] = Head(tx).st THEN dirty \ {Head(tx).room} ELSE dirty
    /\ UNCHANGED <<initVars, groupVars, pending, useFallback, fallback, idbUp, package,
                   worldVars, overlapped, boundVars>>

\* A transient error (quota, lock) is thrown to the caller.
SaveAborts ==
    /\ tx # <<>> /\ idbUp /\ Fault
    /\ \/ /\ Head(tx).by = Disposer /\ disposal' = [disposal EXCEPT !.pc = "failed"]
          /\ UNCHANGED <<op, dirty>>
       \/ /\ Head(tx).by # Disposer /\ Returns(Head(tx).by)
          /\ dirty' = dirty \cup {Head(tx).room} /\ UNCHANGED disposal
    /\ tx' = Tail(tx)
    /\ UNCHANGED <<initVars, groupVars, pending, useFallback, fallback, idb, idbUp, package,
                   worldVars, overlapped, reloads>>

\* A permanent one (the database cannot be opened) rejects every save that
\* waits for it, one promise reaction after the other, and switches to the
\* in-memory store for the rest of the page.
SaveFallsBack ==
    /\ tx # <<>> /\ ~idbUp
    /\ useFallback' = TRUE
    /\ fallback' = [r \in Rooms |->
                       LET saves == {i \in DOMAIN tx : tx[i].room = r}
                       IN  IF saves = {} THEN fallback[r] ELSE tx[Max(saves)].st]
    /\ op' = [o \in Ops |-> IF op[o].pc = "persist" THEN [Idle EXCEPT !.pc = "done"] ELSE op[o]]
    /\ disposal' = IF disposal.pc = "saving" THEN [disposal EXCEPT !.pc = "sweeping"] ELSE disposal
    /\ tx' = <<>>
    /\ dirty' = {r \in dirty : mem[r] # fallback'[r]}
    /\ UNCHANGED <<initVars, groupVars, pending, idb, idbUp, package, worldVars, overlapped,
                   boundVars>>

IdbBecomesUnavailable ==
    /\ idbUp /\ Fault /\ idbUp' = FALSE
    /\ UNCHANGED <<op, pageVars, package, idb, worldVars, historyVars, reloads>>

(***************************************************************************)
(* #ensureMlsProvider and restoreAll.                                      *)
(***************************************************************************)
\* createMlsProvider is there: #cryptoProvider and #mlsManager are set.  (A
\* failed import leaves everything as it was.)
Imported ==
    /\ init = "none" /\ init' = "listing"
    /\ UNCHANGED <<op, toRestore, restoring, groupVars, pending, disposal, storeVars, package,
                   worldVars, historyVars, boundVars>>

\* A read of the store finds it unavailable, and switches.
Switched == useFallback \/ ~idbUp
Read(r) == IF Switched THEN fallback[r] ELSE idb[r]

RoomsListed ==
    /\ init = "listing"
    /\ init' = "restoring"
    /\ useFallback' = Switched
    /\ toRestore' = {r \in Rooms : Read(r) # None}
    /\ UNCHANGED <<op, restoring, groupVars, pending, disposal, fallback, tx, idb, idbUp,
                   package, worldVars, historyVars, boundVars>>

RoomLoaded(r) ==
    /\ init = "restoring" /\ restoring = None /\ r \in toRestore
    /\ useFallback' = Switched
    /\ toRestore' = toRestore \ {r}
    /\ \/ /\ Read(r) # None
          /\ restoring' = [room |-> r, st |-> Read(r)]
          /\ mem' = [mem EXCEPT ![r] = Read(r)]
          /\ bound' = [bound EXCEPT ![r] = Read(r).gid]
       \/ Read(r) = None /\ UNCHANGED <<restoring, mem, bound>>
    /\ UNCHANGED <<op, init, aead, pending, disposal, fallback, tx, idb, idbUp, package,
                   worldVars, historyVars, boundVars>>

\* Bytes that do not decode are dropped from the store.
RoomDropped(r) ==
    /\ init = "restoring" /\ restoring = None /\ r \in toRestore /\ Fault
    /\ useFallback' = Switched
    /\ toRestore' = toRestore \ {r}
    /\ idb' = IF Switched THEN idb ELSE [idb EXCEPT ![r] = None]
    /\ fallback' = IF Switched THEN [fallback EXCEPT ![r] = None] ELSE fallback
    /\ UNCHANGED <<op, init, restoring, groupVars, pending, disposal, tx, idbUp, package,
                   worldVars, historyVars, reloads>>

RoomRestored ==
    /\ restoring # None /\ bound[restoring.room] # None
    /\ aead' = [aead EXCEPT ![restoring.room] = restoring.st]
    /\ restoring' = None
    /\ UNCHANGED <<op, init, toRestore, mem, bound, pending, disposal, storeVars, package,
                   worldVars, historyVars, boundVars>>

\* A transient error, or a disposal in between: restoreAll() throws.  The
\* promise is forgotten, but the provider is set, so nothing tries again.
RestoreThrows ==
    /\ init \in {"listing", "restoring"}
    /\ \/ Fault
       \/ restoring # None /\ bound[restoring.room] = None /\ UNCHANGED faults
    /\ init' = "broken" /\ restoring' = None
    /\ UNCHANGED <<op, toRestore, groupVars, pending, disposal, storeVars, package, worldVars,
                   historyVars, reloads>>

RestoreDone ==
    /\ init = "restoring" /\ restoring = None /\ toRestore = {}
    /\ init' = "ready"
    /\ UNCHANGED <<op, toRestore, restoring, groupVars, pending, disposal, storeVars, package,
                   worldVars, historyVars, boundVars>>

(***************************************************************************)
(* publishKeyPackage().                                                    *)
(***************************************************************************)
PublishTaken(k) ==
    /\ HasManager /\ ~Disposed /\ package[k] = "new"
    /\ package' = [package EXCEPT ![k] = "posted"]
    /\ directory' = directory \cup {k}
    /\ UNCHANGED <<op, pageVars, idb, idbUp, log, welcomes, historyVars, boundVars>>

PublishDone(k) ==
    /\ package[k] = "posted"
    /\ package' = [package EXCEPT ![k] = "held"]
    /\ pending' = Append(pending, k)
    /\ UNCHANGED <<op, initVars, groupVars, disposal, storeVars, worldVars, historyVars,
                   boundVars>>

\* The answer is lost, and with it the private half.  (A refusal leaves nothing.)
PublishAnswerLost(k) ==
    /\ package[k] = "posted" /\ Fault
    /\ package' = [package EXCEPT ![k] = "lost"]
    /\ UNCHANGED <<op, pageVars, idb, idbUp, worldVars, historyVars, reloads>>

(***************************************************************************)
(* client.dispose(): persistAll(), then the manager's dispose().           *)
(***************************************************************************)
DisposeBegins ==
    /\ HasManager /\ disposal.pc = "none" /\ Running < MaxActive
    /\ reloads < MaxReloads         \* bound: in a page that ends
    /\ disposal' = [pc |-> "sweeping", seen |-> {}]
    /\ UNCHANGED <<op, initVars, groupVars, pending, storeVars, package, worldVars,
                   historyVars, boundVars>>

Unswept == {r \in Rooms : mem[r] # None} \ disposal.seen

SweepRoom(r) ==
    /\ disposal.pc = "sweeping" /\ r \in Unswept
    /\ \/ SavesInMemory(r) /\ disposal' = [disposal EXCEPT !.seen = @ \cup {r}]
       \/ RequestsSave(Disposer, r) /\ disposal' = [pc |-> "saving", seen |-> disposal.seen \cup {r}]
    /\ UNCHANGED <<op, initVars, groupVars, pending, package, worldVars, overlapped, boundVars>>

DisposeEnds ==
    /\ disposal.pc = "sweeping" /\ Unswept = {}
    /\ disposal' = [disposal EXCEPT !.pc = "done"]
    /\ mem' = [r \in Rooms |-> None]
    /\ bound' = [r \in Rooms |-> None]
    /\ aead' = [r \in Rooms |-> None]
    /\ pending' = <<>>
    /\ UNCHANGED <<op, initVars, storeVars, package, worldVars, historyVars, boundVars>>

(***************************************************************************)
(* The other members, and the page.                                        *)
(***************************************************************************)
PeerCommitted(g) ==
    /\ Len(log[g]) < MaxEpoch
    /\ log' = [log EXCEPT ![g] = Append(@, Peer)]

\* A member fetches one of this device's KeyPackages, commits its Add and
\* sends the Welcome.  (MLS adds nobody who is a member already; a device that
\* was removed and is invited again is left out.)
PeerInvites(g, k) ==
    /\ k \in directory /\ PeerCommitted(g)
    /\ \A w \in welcomes : w.gid # g
    /\ directory' = directory \ {k}
    /\ welcomes' = welcomes \cup {[gid |-> g, hist |-> log'[g], kp |-> k]}
    /\ UNCHANGED <<op, pageVars, package, idb, idbUp, historyVars, boundVars>>

PeerCommits(g) ==
    /\ log[g] # <<>> /\ PeerCommitted(g)
    /\ UNCHANGED <<op, pageVars, package, idb, idbUp, directory, welcomes, historyVars, boundVars>>

Reload ==
    /\ reloads < MaxReloads /\ reloads' = reloads + 1
    /\ op' = [o \in Ops |-> IF Active(o) THEN [Idle EXCEPT !.pc = "done"] ELSE op[o]]
    /\ init' = "none" /\ toRestore' = {} /\ restoring' = None
    /\ mem' = [r \in Rooms |-> None]
    /\ bound' = [r \in Rooms |-> None]
    /\ aead' = [r \in Rooms |-> None]
    /\ pending' = <<>>
    /\ package' = [k \in Packages |-> IF package[k] = "new" THEN "new" ELSE "lost"]
    /\ disposal' = [pc |-> "none", seen |-> {}]
    /\ useFallback' = FALSE /\ fallback' = [r \in Rooms |-> None]
    /\ tx' = <<>> /\ idbUp' = TRUE
    /\ dirty' = {} /\ overlapped' = {}
    /\ UNCHANGED <<idb, worldVars, faults>>

Call(o) ==
    \/ CallBegins(o) \/ NothingToWorkOn(o) \/ StateRead(o)
    \/ CreateBegins(o) \/ CreateMade(o) \/ KeyPackageFetched(o) \/ CommitMade(o)
    \/ WelcomeSent(o) \/ CommitTaken(o) \/ CommitRefused(o)
    \/ WelcomeBegins(o) \/ Joined(o) \/ WelcomeRefused(o)
    \/ MessageApplied(o) \/ MessageRefused(o)
    \/ EpochApplied(o) \/ EpochHasNoGroup(o)

Store == SaveCommits \/ SaveAborts \/ SaveFallsBack \/ IdbBecomesUnavailable

Initialise ==
    \/ Imported \/ RoomsListed \/ RoomRestored \/ RestoreThrows \/ RestoreDone
    \/ \E r \in Rooms : RoomLoaded(r) \/ RoomDropped(r)

Publish(k) == PublishTaken(k) \/ PublishDone(k) \/ PublishAnswerLost(k)

Dispose == DisposeBegins \/ DisposeEnds \/ \E r \in Rooms : SweepRoom(r)

World == \E g \in Groups : PeerCommits(g) \/ \E k \in Packages : g \in PeerGroups /\ PeerInvites(g, k)

Next ==
    \/ \E o \in Ops : Call(o)
    \/ \E k \in Packages : Publish(k)
    \/ Store \/ Initialise \/ Dispose \/ World \/ Reload

Spec == Init /\ [][Next]_vars

(***************************************************************************)
(* Properties.                                                             *)
(***************************************************************************)
Stages == {"idle", "load", "mls", "fetch", "commit", "welcome", "send", "apply", "persist",
           "done"}
Calls == [kind : {"none"} \cup CallKinds,
          room : Rooms \cup {None}, arg : {None} \cup Welcome \cup [gid : Groups, n : Nat],
          pc : Stages, st : State \cup {None}, kp : Packages \cup {None}, left : Nat]

TypeOK ==
    /\ op \in [Ops -> Calls]
    /\ init \in {"none", "listing", "restoring", "ready", "broken"}
    /\ toRestore \subseteq Rooms
    /\ restoring \in Loaded \cup {None}
    /\ {mem, aead, idb, fallback} \subseteq [Rooms -> State \cup {None}]
    /\ bound \in [Rooms -> Groups \cup {None}]
    /\ pending \in Seq(Packages)
    /\ package \in [Packages -> {"new", "posted", "held", "lost"}]
    /\ disposal \in [pc : {"none", "sweeping", "saving", "failed", "done"}, seen : SUBSET Rooms]
    /\ tx \in Seq([by : Ops \cup {Disposer}, room : Rooms, st : State])
    /\ {useFallback, idbUp} \subseteq BOOLEAN
    /\ log \in [Groups -> Seq(Ops \cup {Peer})]
    /\ directory \subseteq Packages
    /\ welcomes \subseteq Welcome
    /\ dirty \cup overlapped \subseteq Rooms
    /\ reloads \in 0..MaxReloads /\ faults \in 0..MaxFaults

\* However calls on a room overlap, once they have returned and none failed
\* after it wrote the state, the state in memory is the one last saved: a call
\* saves the room's newest state, not its own, and saves commit in order.
StoredFollowsMemory ==
    \A r \in Rooms :
        mem[r] # None /\ ~Disposed /\ ActiveIn(r) = {} /\ r \notin dirty => LastSaved(r) = mem[r]

\* A room's group only moves forward.  The Welcome of another group never takes
\* over a bound room (the binding is checked when the join is complete, with
\* nothing in between); only createGroup() binds a room anew.  And as long as
\* calls on the room do not overlap, a repeated Welcome, a late message or a
\* failed call never takes back an epoch, since the Welcome's KeyPackage is
\* gone with its first use.
NoRollback ==
    [][\A r \in Rooms :
        /\ bound[r] # None /\ bound'[r] \notin {None, bound[r]} =>
                \E o \in Ops : At(o, "create", "load") /\ op[o].room = r
        /\ r \notin overlapped' /\ mem[r] # None /\ mem'[r] # None /\ mem[r].gid = mem'[r].gid =>
                IsPrefix(mem[r].hist, mem'[r].hist)]_vars

\* Under the same condition messages are sealed in the group's current epoch
\* once the calls have returned, after a restore as well.  (dispose() may save
\* a state whose call failed before it applied the epoch.)
SealsInCurrentEpoch ==
    \A r \in Rooms :
        (/\ mem[r] # None /\ ActiveIn(r) = {}
         /\ r \notin dirty \cup overlapped
         /\ init = "ready" /\ disposal.pc = "none") => aead[r] = mem[r]

\* Memory, the store and the AEAD keys are in one epoch when all is quiet
\* (processCommit() and its like apply an epoch, then save it).
EpochsAgree == StoredFollowsMemory /\ SealsInCurrentEpoch

\* client.ts:688 "Restore persisted MLS state from IndexedDB before first use":
\* no message is processed and no member added or removed, only to fail for
\* want of a state, in a room whose state is stored.
RestoredBeforeUse ==
    \A o \in Ops :
        (op[o].pc = "load" /\ op[o].kind \in Writers \cup {"message"} /\ Stored(op[o].room) # None)
            => mem[op[o].room] # None
=============================================================================
