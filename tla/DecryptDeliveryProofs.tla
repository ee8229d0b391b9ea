----------------------- MODULE DecryptDeliveryProofs -----------------------
(***************************************************************************)
(* The room decrypt chain, and the rows that reach the application over    *)
(* it.                                                                     *)
(***************************************************************************)
EXTENDS DecryptDelivery, TLAPS

-----------------------------------------------------------------------------
(***************************************************************************)
(* RoomDecryptChain, proved for every set of rooms, entries and tasks and  *)
(* every bound: its invariants, and that it implements SerialUnseal.       *)
(***************************************************************************)

\* The map sends a room only to an entry that was made for it.
MapMatchesHome ==
    \A r \in Rooms : byRoom[r] # NoEntry => home[byRoom[r]] = r

\* Only an unsettled link can be running.
RunningIsQueued == \A e \in Entries : running[e] => queue[e] # <<>>

CountsAgree == \A e \in Entries : Len(queue[e]) <= appended[e]

\* A removal belongs to an entry of some room, is never ahead of its entry,
\* and, as long as no later call bumped the generation, waits for the very
\* last link: this is why the generation test protects the queued work.
RemovalsAreBehind ==
    \A c \in cleanups :
        /\ home[c.entry] \in Rooms
        /\ c.generation <= generation[c.entry]
        /\ c.generation = generation[c.entry] => c.after = appended[c.entry]

IInv ==
    /\ TypeOK
    /\ MapMatchesHome
    /\ RunningIsQueued
    /\ CountsAgree
    /\ RemovalsAreBehind
    /\ UnsettledWorkIsReachable
    /\ IdleEntryHasRemoval

-----------------------------------------------------------------------------
LEMMA LiveEntry ==
    ASSUME TypeOK, NEW r \in Rooms, RefCountOf(r) # 0
    PROVE  byRoom[r] \in Entries /\ refCount[byRoom[r]] \in Nat \ {0}
BY DEF TypeOK, RefCountOf

LEMMA InitEstablishesIInv == ChainInit => IInv
BY NoEntryAssumption
   DEF ChainInit, IInv, TypeOK, MapMatchesHome, RunningIsQueued, CountsAgree,
       RemovalsAreBehind, UnsettledWorkIsReachable, IdleEntryHasRemoval

LEMMA AcquireFreshKeepsIInv ==
    ASSUME IInv, NEW r \in Rooms, NEW e \in Entries, AcquireFresh(r, e)
    PROVE  IInv'
<1> USE DEF IInv, AcquireFresh, Unreferenced
<1>1. TypeOK'
  BY DEF TypeOK
<1>2. byRoom'[r] = e /\ home'[e] = r /\ refCount'[e] = 1
  BY DEF TypeOK
<1>3. \A q \in Rooms : q # r => byRoom'[q] = byRoom[q] /\ byRoom[q] # e
  BY DEF TypeOK
<1>4. MapMatchesHome'
  BY <1>2, <1>3 DEF TypeOK, MapMatchesHome
<1>5. RunningIsQueued' /\ CountsAgree'
  BY DEF TypeOK, RunningIsQueued, CountsAgree
<1>6. RemovalsAreBehind'
  BY DEF TypeOK, RemovalsAreBehind, Cleanup
<1>7. UnsettledWorkIsReachable'
  <2> SUFFICES ASSUME NEW f \in Entries, queue[f] # <<>>
               PROVE  \E q \in Rooms : byRoom'[q] = f
    BY DEF UnsettledWorkIsReachable
  <2>1. PICK q \in Rooms : byRoom[q] = f
    BY DEF UnsettledWorkIsReachable
  <2> QED
    BY <1>3, <2>1, NoEntryAssumption
<1>8. IdleEntryHasRemoval'
  <2> SUFFICES ASSUME NEW q \in Rooms, byRoom'[q] # NoEntry, refCount'[byRoom'[q]] = 0
               PROVE  \E c \in cleanups : /\ c.entry = byRoom'[q]
                                          /\ c.generation = generation'[byRoom'[q]]
    BY DEF IdleEntryHasRemoval, RefCountOf
  <2>1. q # r /\ byRoom'[q] = byRoom[q] /\ byRoom[q] # e /\ byRoom[q] \in Entries
    BY <1>2, <1>3 DEF TypeOK
  <2>2. refCount[byRoom[q]] = 0 /\ generation'[byRoom[q]] = generation[byRoom[q]]
    BY <2>1 DEF TypeOK
  <2> QED
    BY <2>1, <2>2 DEF IdleEntryHasRemoval, RefCountOf
<1> QED
  BY <1>1, <1>4, <1>5, <1>6, <1>7, <1>8

LEMMA AcquireSharedKeepsIInv ==
    ASSUME IInv, NEW r \in Rooms, AcquireShared(r)
    PROVE  IInv'
<1> USE DEF IInv, AcquireShared
<1>0. byRoom[r] \in Entries
  BY DEF TypeOK
<1>1. TypeOK'
  BY <1>0 DEF TypeOK
<1>2. MapMatchesHome' /\ RunningIsQueued' /\ CountsAgree'
  BY DEF MapMatchesHome, RunningIsQueued, CountsAgree
<1>3. RemovalsAreBehind'
  BY <1>0 DEF TypeOK, RemovalsAreBehind, Cleanup
<1>4. UnsettledWorkIsReachable'
  BY DEF UnsettledWorkIsReachable
<1>5. ASSUME NEW q \in Rooms, byRoom'[q] # NoEntry, RefCountOf(q)' = 0
      PROVE  byRoom[q] # byRoom[r]
  BY <1>0, <1>5 DEF TypeOK, RefCountOf
<1>6. IdleEntryHasRemoval'
  BY <1>0, <1>5 DEF TypeOK, IdleEntryHasRemoval, RefCountOf
<1> QED
  BY <1>1, <1>2, <1>3, <1>4, <1>6

LEMMA AppendTaskKeepsIInv ==
    ASSUME IInv, NEW r \in Rooms, NEW t \in Tasks, AppendTask(r, t), RefCountOf(r) # 0
    PROVE  IInv'
<1> DEFINE e == byRoom[r]
<1> USE DEF IInv
<1>0. e \in Entries /\ refCount[e] # 0
  BY LiveEntry
<1>1. /\ generation' = [generation EXCEPT ![e] = @ + 1]
      /\ queue' = [queue EXCEPT ![e] = Append(@, t)]
      /\ appended' = [appended EXCEPT ![e] = @ + 1]
      /\ UNCHANGED <<byRoom, refCount, home, running, cleanups>>
  BY DEF AppendTask
<1>2. /\ Append(queue[e], t) \in Seq(Tasks)
      /\ Append(queue[e], t) # <<>>
      /\ Len(Append(queue[e], t)) = Len(queue[e]) + 1
  <2>1. queue[e] \in Seq(Tasks)
    BY <1>0 DEF TypeOK
  <2> QED
    BY <2>1
<1> HIDE DEF e
<1>3. TypeOK'
  BY <1>0, <1>1, <1>2 DEF TypeOK
<1>4. MapMatchesHome'
  BY <1>1 DEF MapMatchesHome
<1>5. RunningIsQueued'
  BY <1>0, <1>1, <1>2 DEF TypeOK, RunningIsQueued
<1>6. CountsAgree'
  <2> SUFFICES ASSUME NEW f \in Entries PROVE Len(queue'[f]) <= appended'[f]
    BY DEF CountsAgree
  <2>1. Len(queue[f]) <= appended[f] /\ appended[f] \in Nat /\ Len(queue[f]) \in Nat
    BY DEF CountsAgree, TypeOK
  <2> QED
    BY <1>0, <1>1, <1>2, <2>1 DEF TypeOK
<1>7. RemovalsAreBehind'
  BY <1>0, <1>1 DEF TypeOK, RemovalsAreBehind, Cleanup
<1>8. UnsettledWorkIsReachable'
  BY <1>0, <1>1 DEF TypeOK, UnsettledWorkIsReachable, e
<1>9. IdleEntryHasRemoval'
  <2> SUFFICES ASSUME NEW q \in Rooms, byRoom[q] # NoEntry, RefCountOf(q) = 0
               PROVE  \E c \in cleanups : /\ c.entry = byRoom[q]
                                          /\ c.generation = generation'[byRoom[q]]
    BY <1>1 DEF IdleEntryHasRemoval, RefCountOf
  <2>1. byRoom[q] # e
    BY <1>0 DEF RefCountOf
  <2> QED
    BY <1>0, <1>1, <2>1 DEF TypeOK, IdleEntryHasRemoval
<1> QED
  BY <1>3, <1>4, <1>5, <1>6, <1>7, <1>8, <1>9

LEMMA ReleaseKeepsIInv ==
    ASSUME IInv, NEW r \in Rooms, Release(r), RefCountOf(r) # 0
    PROVE  IInv'
<1> DEFINE e == byRoom[r]
<1> USE DEF IInv
<1>0. e \in Entries /\ refCount[e] \in Nat \ {0}
  BY LiveEntry
<1>1. /\ refCount' = [refCount EXCEPT ![e] = @ - 1]
      /\ cleanups' = IF refCount[e] = 1 THEN cleanups \cup {CleanupOf(e)} ELSE cleanups
      /\ UNCHANGED <<byRoom, generation, home, queue, running, appended>>
  BY DEF Release
<1>2. home[e] = r
  BY <1>0, NoEntryAssumption DEF MapMatchesHome
<1> HIDE DEF e
<1>3. CleanupOf(e) \in Cleanup
  BY <1>0 DEF TypeOK, CleanupOf, Cleanup
<1>4. TypeOK'
  BY <1>0, <1>1, <1>3 DEF TypeOK
<1>5. MapMatchesHome' /\ RunningIsQueued' /\ CountsAgree'
  BY <1>1 DEF MapMatchesHome, RunningIsQueued, CountsAgree
<1>6. RemovalsAreBehind'
  BY <1>0, <1>1, <1>2 DEF TypeOK, RemovalsAreBehind, CleanupOf
<1>7. UnsettledWorkIsReachable'
  BY <1>1 DEF UnsettledWorkIsReachable
<1>8. IdleEntryHasRemoval'
  <2> SUFFICES ASSUME NEW q \in Rooms, byRoom[q] # NoEntry, refCount'[byRoom[q]] = 0
               PROVE  \E c \in cleanups' : /\ c.entry = byRoom[q]
                                           /\ c.generation = generation[byRoom[q]]
    BY <1>1 DEF IdleEntryHasRemoval, RefCountOf
  <2>1. CASE byRoom[q] = e
    <3>1. refCount[e] = 1
      BY <1>0, <1>1, <2>1 DEF TypeOK
    <3>2. CleanupOf(e) \in cleanups'
      BY <1>1, <3>1
    <3> QED
      BY <2>1, <3>2 DEF CleanupOf
  <2>2. CASE byRoom[q] # e
    BY <1>0, <1>1, <2>2 DEF TypeOK, IdleEntryHasRemoval, RefCountOf
  <2> QED
    BY <2>1, <2>2
<1> QED
  BY <1>4, <1>5, <1>6, <1>7, <1>8

LEMMA StartTaskKeepsIInv ==
    ASSUME IInv, NEW e \in Entries, StartTask(e)
    PROVE  IInv'
BY DEF StartTask, IInv, TypeOK, MapMatchesHome, RunningIsQueued, CountsAgree,
       RemovalsAreBehind, UnsettledWorkIsReachable, IdleEntryHasRemoval, RefCountOf

LEMMA SettleTaskKeepsIInv ==
    ASSUME IInv, NEW e \in Entries, SettleTask(e)
    PROVE  IInv'
<1> USE DEF IInv, SettleTask
<1>0. queue[e] # <<>> /\ queue[e] \in Seq(Tasks)
  BY DEF TypeOK, RunningIsQueued
<1>1. Tail(queue[e]) \in Seq(Tasks) /\ Len(Tail(queue[e])) = Len(queue[e]) - 1
  BY <1>0
<1>2. TypeOK'
  BY <1>1 DEF TypeOK
<1>3. MapMatchesHome' /\ RemovalsAreBehind'
  BY DEF MapMatchesHome, RemovalsAreBehind
<1>4. RunningIsQueued'
  BY DEF TypeOK, RunningIsQueued
<1>5. CountsAgree'
  <2> SUFFICES ASSUME NEW f \in Entries PROVE Len(queue'[f]) <= appended[f]
    BY DEF CountsAgree
  <2>1. Len(queue[f]) <= appended[f] /\ appended[f] \in Nat /\ Len(queue[f]) \in Nat
    BY DEF CountsAgree, TypeOK
  <2> QED
    BY <1>1, <2>1 DEF TypeOK
<1>6. UnsettledWorkIsReachable'
  BY <1>0 DEF TypeOK, UnsettledWorkIsReachable
<1>7. IdleEntryHasRemoval'
  BY DEF IdleEntryHasRemoval, RefCountOf
<1> QED
  BY <1>2, <1>3, <1>4, <1>5, <1>6, <1>7

\* A removal that fires finds no unsettled link: every call after its release
\* would have bumped the generation.
LEMMA RemovedEntryIsDrained ==
    ASSUME IInv, NEW c \in cleanups, RemoveIfStillIdle(c), StillIdle(c)
    PROVE  queue[c.entry] = <<>>
<1>1. c.entry \in Entries /\ c.after = appended[c.entry]
  BY DEF IInv, TypeOK, Cleanup, StillIdle, RemovalsAreBehind
<1>2. queue[c.entry] \in Seq(Tasks) /\ appended[c.entry] \in Nat
  BY <1>1 DEF IInv, TypeOK
<1>3. Len(queue[c.entry]) = 0
  BY <1>1, <1>2 DEF RemoveIfStillIdle, Settled
<1> QED
  BY <1>2, <1>3

LEMMA RemoveIfStillIdleKeepsIInv ==
    ASSUME IInv, NEW c \in cleanups, RemoveIfStillIdle(c)
    PROVE  IInv'
<1> USE DEF IInv, RemoveIfStillIdle
<1>0. c.entry \in Entries /\ home[c.entry] \in Rooms
  BY DEF TypeOK, Cleanup, RemovalsAreBehind
<1>1. TypeOK'
  BY <1>0 DEF TypeOK
<1>2. MapMatchesHome'
  BY <1>0 DEF TypeOK, MapMatchesHome
<1>3. RunningIsQueued' /\ CountsAgree' /\ RemovalsAreBehind'
  BY DEF RunningIsQueued, CountsAgree, RemovalsAreBehind
<1>4. UnsettledWorkIsReachable'
  <2> SUFFICES ASSUME NEW e \in Entries, queue[e] # <<>>
               PROVE  \E r \in Rooms : byRoom'[r] = e
    BY DEF UnsettledWorkIsReachable
  <2>1. PICK r \in Rooms : byRoom[r] = e
    BY DEF UnsettledWorkIsReachable
  <2>2. byRoom'[r] = e
    <3>1. CASE ~StillIdle(c)
      BY <2>1, <3>1
    <3>2. CASE StillIdle(c)
      <4>1. e # c.entry
        BY <3>2, RemovedEntryIsDrained
      <4>2. r # home[c.entry]
        BY <2>1, <3>2, <4>1 DEF StillIdle
      <4> QED
        BY <2>1, <3>2, <4>2 DEF TypeOK
    <3> QED
      BY <3>1, <3>2
  <2> QED
    BY <2>2
<1>5. IdleEntryHasRemoval'
  <2> SUFFICES ASSUME NEW q \in Rooms, byRoom'[q] # NoEntry, refCount[byRoom'[q]] = 0
               PROVE  \E d \in cleanups' : /\ d.entry = byRoom'[q]
                                           /\ d.generation = generation[byRoom'[q]]
    BY DEF IdleEntryHasRemoval, RefCountOf
  <2>1. byRoom'[q] = byRoom[q]
    BY <1>0 DEF TypeOK
  <2>2. PICK d \in cleanups : d.entry = byRoom[q] /\ d.generation = generation[byRoom[q]]
    BY <2>1 DEF IdleEntryHasRemoval, RefCountOf
  <2>3. d # c
    <3> SUFFICES ASSUME d = c PROVE FALSE
      OBVIOUS
    <3>1. home[c.entry] = q
      BY <2>1, <2>2 DEF MapMatchesHome
    <3>2. StillIdle(c)
      BY <2>1, <2>2, <3>1 DEF StillIdle
    <3> QED
      BY <3>1, <3>2 DEF TypeOK
  <2> QED
    BY <2>1, <2>2, <2>3
<1> QED
  BY <1>1, <1>2, <1>3, <1>4, <1>5

LEMMA StepKeepsIInv == IInv /\ [ChainNext]_chainVars => IInv'
<1> SUFFICES ASSUME IInv, [ChainNext]_chainVars PROVE IInv'
  OBVIOUS
<1>1. ASSUME NEW r \in Rooms, Acquire(r) PROVE IInv'
  BY <1>1, AcquireFreshKeepsIInv, AcquireSharedKeepsIInv DEF Acquire
<1>2. CASE UNCHANGED chainVars
  BY <1>2 DEF chainVars, IInv, TypeOK, MapMatchesHome, RunningIsQueued, CountsAgree,
     RemovalsAreBehind, UnsettledWorkIsReachable, IdleEntryHasRemoval, RefCountOf
<1>3. ASSUME NEW r \in Rooms, NEW t \in Tasks, AppendTask(r, t) PROVE IInv'
  BY <1>2, <1>3, AppendTaskKeepsIInv DEF AppendTask
<1>4. ASSUME NEW r \in Rooms, Release(r) PROVE IInv'
  BY <1>2, <1>4, ReleaseKeepsIInv DEF Release
<1>5. ASSUME NEW e \in Entries, StartTask(e) \/ SettleTask(e) PROVE IInv'
  BY <1>5, StartTaskKeepsIInv, SettleTaskKeepsIInv
<1>6. ASSUME NEW c \in cleanups, RemoveIfStillIdle(c) PROVE IInv'
  BY <1>6, RemoveIfStillIdleKeepsIInv
<1> QED
  BY <1>1, <1>2, <1>3, <1>4, <1>5, <1>6 DEF ChainNext, Call, Reaction

LEMMA IInvHolds == ChainSafety => []IInv
BY InitEstablishesIInv, StepKeepsIInv, PTL DEF ChainSafety

-----------------------------------------------------------------------------
\* Every reachable state has the types the module declares.
THEOREM ChainTypeCorrect == ChainSafety => []TypeOK
<1>1. IInv => TypeOK
  BY DEF IInv
<1> QED
  BY <1>1, IInvHolds, PTL

\* However callers interleave acquire, append and release, a task that has not
\* settled is on the entry its room maps to.
THEOREM WorkStaysReachable == ChainSafety => []UnsettledWorkIsReachable
<1>1. IInv => UnsettledWorkIsReachable
  BY DEF IInv
<1> QED
  BY <1>1, IInvHolds, PTL

\* At most one unseal task is in flight per room: the guarantee of the class.
THEOREM Serial == ChainSafety => []OneUnsealInFlight
<1>1. IInv => OneUnsealInFlight
  <2> SUFFICES ASSUME IInv, NEW e \in Entries, NEW f \in Entries,
                      running[e], running[f], home[e] = home[f]
               PROVE  e = f
    BY DEF OneUnsealInFlight
  <2>1. PICK q \in Rooms : byRoom[q] = e
    BY DEF IInv, RunningIsQueued, UnsettledWorkIsReachable
  <2>2. PICK r \in Rooms : byRoom[r] = f
    BY DEF IInv, RunningIsQueued, UnsettledWorkIsReachable
  <2>3. home[e] = q /\ home[f] = r
    BY <2>1, <2>2, NoEntryAssumption DEF IInv, MapMatchesHome
  <2> QED
    BY <2>1, <2>2, <2>3
<1> QED
  BY <1>1, IInvHolds, PTL

\* No entry is stranded in the map: an idle one always has a removal coming.
THEOREM IdleEntryNotStranded == ChainSafety => []IdleEntryHasRemoval
<1>1. IInv => IdleEntryHasRemoval
  BY DEF IInv
<1> QED
  BY <1>1, IInvHolds, PTL

-----------------------------------------------------------------------------
usersBar == [r \in Rooms |-> RefCountOf(r)]
pendingBar == [r \in Rooms |-> IF byRoom[r] = NoEntry THEN <<>> ELSE queue[byRoom[r]]]
busyBar == [r \in Rooms |-> byRoom[r] # NoEntry /\ running[byRoom[r]]]

LEMMA InitRefines == ChainInit => Promised!Init
BY DEF ChainInit, Promised!Init, RefCountOf

LEMMA AcquireFreshRefines ==
    ASSUME IInv, NEW r \in Rooms, NEW e \in Entries, AcquireFresh(r, e)
    PROVE  Promised!Join(r)
<1>1. /\ byRoom' = [byRoom EXCEPT ![r] = e]
      /\ refCount' = [refCount EXCEPT ![e] = 1]
      /\ UNCHANGED <<queue, running>>
      /\ byRoom[r] = NoEntry /\ queue[e] = <<>> /\ \A q \in Rooms : byRoom[q] # e
  BY DEF AcquireFresh, Unreferenced
<1>2. running[e] = FALSE
  BY <1>1 DEF IInv, TypeOK, RunningIsQueued
<1>3. usersBar' = [usersBar EXCEPT ![r] = @ + 1]
  <2>1. RefCountOf(r) = 0 /\ RefCountOf(r)' = 1
    BY <1>1, NoEntryAssumption DEF IInv, TypeOK, RefCountOf
  <2>2. ASSUME NEW q \in Rooms, q # r PROVE RefCountOf(q)' = RefCountOf(q)
    <3>1. byRoom'[q] = byRoom[q] /\ byRoom[q] # e
      BY <1>1, <2>2 DEF IInv, TypeOK
    <3>2. byRoom[q] # NoEntry => refCount'[byRoom[q]] = refCount[byRoom[q]]
      BY <1>1, <3>1 DEF IInv, TypeOK
    <3> QED
      BY <3>1, <3>2 DEF RefCountOf
  <2>3. \A q \in Rooms : RefCountOf(q)' = IF q = r THEN RefCountOf(q) + 1 ELSE RefCountOf(q)
    BY <2>1, <2>2
  <2> HIDE DEF RefCountOf
  <2> QED
    BY <2>3, Zenon DEF usersBar
<1>4. pendingBar' = pendingBar
  BY <1>1 DEF IInv, TypeOK, pendingBar
<1>5. busyBar' = busyBar
  BY <1>1, <1>2 DEF IInv, TypeOK, busyBar
<1> QED
  BY <1>3, <1>4, <1>5 DEF Promised!Join, usersBar, pendingBar, busyBar

LEMMA AcquireSharedRefines ==
    ASSUME IInv, NEW r \in Rooms, AcquireShared(r)
    PROVE  Promised!Join(r)
<1>1. /\ byRoom[r] \in Entries
      /\ refCount' = [refCount EXCEPT ![byRoom[r]] = @ + 1]
      /\ UNCHANGED <<byRoom, queue, running>>
  BY DEF IInv, TypeOK, AcquireShared
<1>2. \A q \in Rooms : byRoom[q] = byRoom[r] => q = r
  BY <1>1, NoEntryAssumption DEF IInv, MapMatchesHome
<1>3. usersBar' = [usersBar EXCEPT ![r] = @ + 1]
  BY <1>1, <1>2, NoEntryAssumption DEF IInv, TypeOK, usersBar, RefCountOf
<1> QED
  BY <1>1, <1>3 DEF Promised!Join, usersBar

LEMMA AppendTaskRefines ==
    ASSUME IInv, NEW r \in Rooms, NEW t \in Tasks, AppendTask(r, t), RefCountOf(r) # 0
    PROVE  Promised!Submit(r, t)
<1>1. /\ byRoom[r] \in Entries /\ refCount[byRoom[r]] \in Nat \ {0}
      /\ queue' = [queue EXCEPT ![byRoom[r]] = Append(@, t)]
      /\ UNCHANGED <<byRoom, refCount, running>>
  BY LiveEntry DEF IInv, AppendTask
<1>2. \A q \in Rooms : byRoom[q] = byRoom[r] => q = r
  BY <1>1, NoEntryAssumption DEF IInv, MapMatchesHome
<1>3. pendingBar' = [pendingBar EXCEPT ![r] = Append(@, t)]
  BY <1>1, <1>2, NoEntryAssumption DEF IInv, TypeOK, pendingBar
<1>4. RefCountOf(r) > 0
  BY <1>1, NoEntryAssumption DEF RefCountOf
<1> QED
  BY <1>1, <1>3, <1>4 DEF Promised!Submit, pendingBar, RefCountOf

LEMMA ReleaseRefines ==
    ASSUME IInv, NEW r \in Rooms, Release(r), RefCountOf(r) # 0
    PROVE  Promised!Leave(r)
<1>1. /\ byRoom[r] \in Entries /\ refCount[byRoom[r]] \in Nat \ {0}
      /\ refCount' = [refCount EXCEPT ![byRoom[r]] = @ - 1]
      /\ UNCHANGED <<byRoom, queue, running>>
  BY LiveEntry DEF IInv, Release
<1>2. \A q \in Rooms : byRoom[q] = byRoom[r] => q = r
  BY <1>1, NoEntryAssumption DEF IInv, MapMatchesHome
<1>3. usersBar' = [usersBar EXCEPT ![r] = @ - 1]
  BY <1>1, <1>2, NoEntryAssumption DEF IInv, TypeOK, usersBar, RefCountOf
<1>4. RefCountOf(r) > 0
  BY <1>1, NoEntryAssumption DEF RefCountOf
<1> QED
  BY <1>1, <1>3, <1>4 DEF Promised!Leave, usersBar

LEMMA StartTaskRefines ==
    ASSUME IInv, NEW e \in Entries, StartTask(e)
    PROVE  \E r \in Rooms : Promised!Start(r)
<1>1. queue[e] # <<>> /\ running[e] = FALSE
  BY DEF IInv, TypeOK, StartTask
<1>2. PICK r \in Rooms : byRoom[r] = e
  BY <1>1 DEF IInv, UnsettledWorkIsReachable
<1>3. \A q \in Rooms : byRoom[q] = e => q = r
  BY <1>2, NoEntryAssumption DEF IInv, MapMatchesHome
<1>4. busyBar' = [busyBar EXCEPT ![r] = TRUE]
  BY <1>2, <1>3, NoEntryAssumption DEF IInv, TypeOK, busyBar, StartTask
<1>5. UNCHANGED <<usersBar, pendingBar>>
  BY DEF StartTask, usersBar, pendingBar, RefCountOf
<1>6. pendingBar[r] # <<>> /\ ~busyBar[r]
  BY <1>1, <1>2, NoEntryAssumption DEF pendingBar, busyBar
<1> QED
  BY <1>4, <1>5, <1>6 DEF Promised!Start, usersBar, pendingBar, busyBar

LEMMA SettleTaskRefines ==
    ASSUME IInv, NEW e \in Entries, SettleTask(e)
    PROVE  \E r \in Rooms : Promised!Finish(r)
<1>1. running[e] /\ queue[e] # <<>>
  BY DEF IInv, SettleTask, RunningIsQueued
<1>2. PICK r \in Rooms : byRoom[r] = e
  BY <1>1 DEF IInv, UnsettledWorkIsReachable
<1>3. \A q \in Rooms : byRoom[q] = e => q = r
  BY <1>2, NoEntryAssumption DEF IInv, MapMatchesHome
<1>4. busyBar' = [busyBar EXCEPT ![r] = FALSE]
  BY <1>2, <1>3, NoEntryAssumption DEF IInv, TypeOK, busyBar, SettleTask
<1>5. pendingBar' = [pendingBar EXCEPT ![r] = Tail(@)]
  BY <1>2, <1>3, NoEntryAssumption DEF IInv, TypeOK, pendingBar, SettleTask
<1>6. usersBar' = usersBar
  BY DEF SettleTask, usersBar, RefCountOf
<1>7. busyBar[r]
  BY <1>1, <1>2, NoEntryAssumption DEF busyBar
<1> QED
  BY <1>4, <1>5, <1>6, <1>7 DEF Promised!Finish, usersBar, pendingBar, busyBar

LEMMA RemoveIfStillIdleRefines ==
    ASSUME IInv, NEW c \in cleanups, RemoveIfStillIdle(c)
    PROVE  UNCHANGED Promised!vars
<1>1. CASE ~StillIdle(c)
  BY <1>1 DEF RemoveIfStillIdle, Promised!vars, RefCountOf
<1>2. CASE StillIdle(c)
  <2> DEFINE e == c.entry
             q == home[e]
  <2>1. /\ e \in Entries /\ q \in Rooms
        /\ byRoom[q] = e /\ refCount[e] = 0
        /\ queue[e] = <<>> /\ running[e] = FALSE
        /\ byRoom' = [byRoom EXCEPT ![q] = NoEntry]
        /\ UNCHANGED <<refCount, queue, running>>
    BY <1>2, RemovedEntryIsDrained
       DEF IInv, TypeOK, Cleanup, StillIdle, RemovalsAreBehind, RunningIsQueued,
           RemoveIfStillIdle
  <2> HIDE DEF e, q
  <2>2. usersBar' = usersBar
    BY <2>1 DEF IInv, TypeOK, usersBar, RefCountOf
  <2>3. pendingBar' = pendingBar
    BY <2>1 DEF IInv, TypeOK, pendingBar
  <2>4. busyBar' = busyBar
    BY <2>1 DEF IInv, TypeOK, busyBar
  <2> QED
    BY <2>2, <2>3, <2>4 DEF Promised!vars, usersBar, pendingBar, busyBar
<1> QED
  BY <1>1, <1>2

\* Seen through its map, the class is the serial executor SerialUnseal: entry
\* objects, generations and deferred deletes never show.
THEOREM RefinesSerialUnseal == ChainSafety => Promised!Safety
<1>1. IInv /\ [ChainNext]_chainVars => [Promised!Next]_(Promised!vars)
  <2> SUFFICES ASSUME IInv, [ChainNext]_chainVars
               PROVE  Promised!Next \/ UNCHANGED Promised!vars
    OBVIOUS
  <2> USE DEF Promised!Next, Promised!RoomStep
  <2>1. ASSUME NEW r \in Rooms, Acquire(r) PROVE Promised!Next
    BY <2>1, AcquireFreshRefines, AcquireSharedRefines DEF Acquire
  <2>2. CASE UNCHANGED chainVars
    BY <2>2 DEF chainVars, Promised!vars, RefCountOf
  <2>3. ASSUME NEW r \in Rooms, NEW t \in Tasks, AppendTask(r, t)
        PROVE  Promised!Next \/ UNCHANGED Promised!vars
    BY <2>2, <2>3, AppendTaskRefines DEF AppendTask
  <2>4. ASSUME NEW r \in Rooms, Release(r)
        PROVE  Promised!Next \/ UNCHANGED Promised!vars
    BY <2>2, <2>4, ReleaseRefines DEF Release
  <2>5. ASSUME NEW e \in Entries, StartTask(e) \/ SettleTask(e) PROVE Promised!Next
    BY <2>5, StartTaskRefines, SettleTaskRefines
  <2>6. ASSUME NEW c \in cleanups, RemoveIfStillIdle(c) PROVE UNCHANGED Promised!vars
    BY <2>6, RemoveIfStillIdleRefines
  <2> QED
    BY <2>1, <2>2, <2>3, <2>4, <2>5, <2>6 DEF ChainNext, Call, Reaction
<1> QED
  BY InitRefines, IInvHolds, <1>1, PTL DEF ChainSafety, Promised!Safety

-----------------------------------------------------------------------------
(***************************************************************************)
(* DecryptDelivery, proved for every set of subscriptions and list() calls *)
(* and every bound: it uses the decrypt chain as any caller may, so what   *)
(* the section above proves of the chain holds beneath it, and rows   *)
(* are handed out once and in order.                                       *)
(***************************************************************************)

\* The one room of this module is the only one with an entry.
OnlyThisRoom == \A r \in Rooms : r # Room => byRoom[r] = NoEntry

\* A page being appended has rows left; nothing is queued without a provider.
BurstInv ==
    /\ turn # NoEntry => phase[turn] = "live" /\ sent[turn] < Bound[turn]
    /\ \A f \in Fetches : phase[f] = "idle" => sent[f] = 0
    /\ provider = "absent" => turn = NoEntry /\ \A e \in Entries : queue[e] = <<>>

\* What is queued was sent, and is queued in the order it was sent.
QueuedInv ==
    \A e \in Entries : \A i \in 1..Len(queue[e]) :
        /\ queue[e][i] \in DeliveryTasks
        /\ queue[e][i][2] <= sent[queue[e][i][1]]
        /\ \A j \in 1..Len(queue[e]) :
               i < j /\ queue[e][i][1] = queue[e][j][1] => queue[e][i][2] < queue[e][j][2]

\* What was handed out was sent, and before everything that is queued still.
HandedOutInv ==
    \A c \in Consumers : \A d \in 1..Len(delivered[c]) :
        /\ delivered[c][d].row <= sent[c]
        /\ \A e \in Entries : \A i \in 1..Len(queue[e]) :
               queue[e][i][1] = c => delivered[c][d].row < queue[e][i][2]
        /\ \A k \in 1..Len(delivered[c]) :
               d < k => delivered[c][d].row < delivered[c][k].row

DInv ==
    /\ IInv
    /\ DeliveryTypeOK
    /\ OnlyThisRoom
    /\ BurstInv
    /\ QueuedInv
    /\ HandedOutInv

-----------------------------------------------------------------------------
(* The chain beneath *)

LEMMA TaskShape ==
    /\ \A t \in DeliveryTasks : t[1] \in Consumers /\ t[2] \in Nat
    /\ \A c \in Consumers : \A n \in 1..Bound[c] :
           <<c, n>> \in DeliveryTasks /\ <<c, n>>[1] = c /\ <<c, n>>[2] = n
BY BoundAssumption DEF DeliveryTasks

LEMMA AppendIsChainStep ==
    ASSUME NEW c \in Consumers, NEW n \in 1..Bound[c], AppendTask(Room, <<c, n>>)
    PROVE  ChainNext
<1>1. <<c, n>> \in Tasks
  BY TaskShape, DeliveryAssumption
<1> QED
  BY <1>1, DeliveryAssumption DEF ChainNext, Call

LEMMA EveryStepIsAChainStep ==
    ASSUME DeliveryTypeOK, BurstInv, [Next]_vars
    PROVE  [ChainNext]_chainVars
<1>1. CASE UNCHANGED vars
  BY <1>1 DEF vars
<1>2. CASE InitProvider
  BY <1>2 DEF InitProvider
<1>3. ASSUME NEW s \in Subscribers, Subscribe(s) \/ Row(s) \/ Teardown(s)
      PROVE  [ChainNext]_chainVars
  <2>1. CASE Subscribe(s)
    BY <2>1, DeliveryAssumption DEF Subscribe, ChainNext, Call
  <2>2. CASE Row(s)
    <3>1. s \in Consumers /\ sent[s] + 1 \in 1..Bound[s]
      BY <2>2, BoundAssumption DEF Row, DeliveryTypeOK, Consumers
    <3>2. AppendTask(Room, <<s, sent[s] + 1>>) \/ UNCHANGED chainVars
      BY <2>2 DEF Row
    <3> QED
      BY <3>1, <3>2, AppendIsChainStep
  <2>3. CASE Teardown(s)
    BY <2>3, DeliveryAssumption DEF Teardown, ChainNext, Call
  <2> QED
    BY <1>3, <2>1, <2>2, <2>3
<1>4. ASSUME NEW f \in Fetches,
             FetchBegin(f) \/ FetchAppend(f) \/ FetchAborts(f) \/ FetchReturns(f)
      PROVE  [ChainNext]_chainVars
  <2>1. CASE FetchBegin(f)
    BY <2>1, DeliveryAssumption DEF FetchBegin, ChainNext, Call
  <2>2. CASE FetchAppend(f)
    <3>1. f \in Consumers /\ sent[f] + 1 \in 1..Bound[f]
      BY <2>2, BoundAssumption, DeliveryAssumption
         DEF FetchAppend, DeliveryTypeOK, BurstInv, Consumers
    <3> QED
      BY <2>2, <3>1, AppendIsChainStep DEF FetchAppend
  <2>3. CASE FetchAborts(f)
    BY <2>3 DEF FetchAborts
  <2>4. CASE FetchReturns(f)
    BY <2>4, DeliveryAssumption DEF FetchReturns, ChainNext, Call
  <2> QED
    BY <1>4, <2>1, <2>2, <2>3, <2>4
<1>5. ASSUME NEW e \in Entries,
             \/ TaskBegins(e) \/ SignalAbort(e) \/ UnsealSettles(e)
             \/ SkipCancelled(e) \/ ForceDrain(e)
      PROVE  [ChainNext]_chainVars
  BY <1>5 DEF TaskBegins, SignalAbort, UnsealSettles, SkipCancelled, ForceDrain, TaskEnds,
              ChainNext
<1>6. ASSUME NEW t \in orphans, OrphanSettles(t) PROVE [ChainNext]_chainVars
  BY <1>6 DEF OrphanSettles
<1>7. CASE RemovalRuns
  BY <1>7 DEF RemovalRuns, ChainNext
<1> QED
  BY <1>1, <1>2, <1>3, <1>4, <1>5, <1>6, <1>7 DEF Next, SubscriberNext, FetchNext, TaskNext

LEMMA OnlyThisRoomKept ==
    ASSUME DeliveryTypeOK, OnlyThisRoom, BurstInv, [Next]_vars
    PROVE  OnlyThisRoom'
<1> USE DEF OnlyThisRoom
<1>1. ASSUME \/ Acquire(Room) \/ Release(Room) \/ UNCHANGED chainVars
             \/ \E e \in Entries : StartTask(e) \/ SettleTask(e)
      PROVE  OnlyThisRoom'
  BY <1>1, DeliveryAssumption DEF DeliveryTypeOK, TypeOK, Acquire, AcquireShared, AcquireFresh,
     Release, StartTask, SettleTask, chainVars
<1>2. ASSUME NEW t, AppendTask(Room, t) PROVE OnlyThisRoom'
  BY <1>2 DEF AppendTask, chainVars
<1>3. CASE Reaction
  BY <1>3 DEF DeliveryTypeOK, TypeOK, Reaction, RemoveIfStillIdle
<1>4. CASE UNCHANGED vars
  BY <1>1, <1>4 DEF vars
<1>5. CASE InitProvider
  BY <1>1, <1>5 DEF InitProvider
<1>6. CASE SubscriberNext
  BY <1>1, <1>2, <1>6 DEF SubscriberNext, Subscribe, Row, Teardown
<1>7. CASE FetchNext
  BY <1>1, <1>2, <1>7 DEF FetchNext, FetchBegin, FetchAppend, FetchAborts, FetchReturns
<1>8. CASE TaskNext
  BY <1>1, <1>8 DEF TaskNext, TaskBegins, SignalAbort, UnsealSettles, SkipCancelled, ForceDrain,
     TaskEnds
<1>9. CASE \E t \in orphans : OrphanSettles(t)
  BY <1>1, <1>9 DEF OrphanSettles
<1>10. CASE RemovalRuns
  BY <1>3, <1>10 DEF RemovalRuns
<1> QED
  BY <1>4, <1>5, <1>6, <1>7, <1>8, <1>9, <1>10 DEF Next

\* All the unsettled work of the room is on one entry.
LEMMA OneQueue ==
    ASSUME IInv, OnlyThisRoom, NEW e \in Entries, queue[e] # <<>>
    PROVE  e = byRoom[Room]
BY NoEntryAssumption DEF IInv, UnsettledWorkIsReachable, OnlyThisRoom

-----------------------------------------------------------------------------
(* What a step does to the rows *)

Quiet == UNCHANGED <<queue, sent, delivered>>

\* A row, or a row of a page, goes to the end of the room's queue.
Queues(c) ==
    /\ provider = "ready" \/ turn # NoEntry
    /\ sent[c] + 1 \in 1..Bound[c]
    /\ byRoom[Room] \in Entries
    /\ sent' = [sent EXCEPT ![c] = @ + 1]
    /\ queue' = [queue EXCEPT ![byRoom[Room]] = Append(@, <<c, sent[c] + 1>>)]
    /\ UNCHANGED delivered

\* The chain has no entry for it.
Drops(c) ==
    /\ sent' = [sent EXCEPT ![c] = @ + 1]
    /\ UNCHANGED <<queue, delivered>>

\* There is no provider yet.
HandsOutRaw(c) ==
    /\ provider = "absent"
    /\ sent' = [sent EXCEPT ![c] = @ + 1]
    /\ Delivered(c, sent[c] + 1, "raw")
    /\ UNCHANGED queue

\* The head of a queue is done with.
HandsOut(e, outcome) ==
    /\ queue[e] # <<>>
    /\ queue' = [queue EXCEPT ![e] = Tail(@)]
    /\ Delivered(Head(queue[e])[1], Head(queue[e])[2], outcome)
    /\ UNCHANGED sent

Effect ==
    \/ Quiet
    \/ \E c \in Consumers : Queues(c) \/ Drops(c) \/ HandsOutRaw(c)
    \/ \E e \in Entries, outcome \in Outcomes : HandsOut(e, outcome)

LEMMA AppendEffect ==
    ASSUME TypeOK, NEW c \in Consumers, sent[c] + 1 \in 1..Bound[c],
           provider = "ready" \/ turn # NoEntry,
           AppendTask(Room, <<c, sent[c] + 1>>),
           sent' = [sent EXCEPT ![c] = @ + 1], UNCHANGED delivered
    PROVE  Queues(c) \/ Drops(c)
<1>1. CASE RefCountOf(Room) = 0
  BY <1>1 DEF AppendTask, Drops, chainVars
<1>2. CASE RefCountOf(Room) # 0
  <2>1. byRoom[Room] \in Entries
    BY <1>2, DeliveryAssumption, LiveEntry
  <2> QED
    BY <1>2, <2>1 DEF AppendTask, Queues
<1> QED
  BY <1>1, <1>2

LEMMA EveryStepHasAnEffect ==
    ASSUME IInv, DeliveryTypeOK, BurstInv, [Next]_vars
    PROVE  Effect
<1> USE DEF Effect
<1>0. TypeOK
  BY DEF DeliveryTypeOK
<1>1. ASSUME \/ Acquire(Room) \/ Release(Room) \/ UNCHANGED chainVars \/ Reaction
             \/ \E e \in Entries : StartTask(e)
      PROVE  UNCHANGED queue
  BY <1>1 DEF Acquire, AcquireShared, AcquireFresh, Release, StartTask, Reaction,
     RemoveIfStillIdle, chainVars
<1>2. CASE UNCHANGED vars \/ InitProvider \/ RemovalRuns
  BY <1>1, <1>2 DEF vars, clientVars, InitProvider, RemovalRuns, Quiet
<1>3. ASSUME NEW s \in Subscribers, Subscribe(s) \/ Teardown(s) PROVE Quiet
  BY <1>1, <1>3 DEF Subscribe, Teardown, Quiet
<1>4. ASSUME NEW s \in Subscribers, Row(s) PROVE Effect
  <2>1. s \in Consumers /\ sent[s] + 1 \in 1..Bound[s]
    BY <1>4, BoundAssumption DEF Row, DeliveryTypeOK, Consumers
  <2>2. CASE provider = "ready"
    <3>1. /\ AppendTask(Room, <<s, sent[s] + 1>>)
          /\ sent' = [sent EXCEPT ![s] = @ + 1] /\ UNCHANGED delivered
      BY <1>4, <2>2 DEF Row
    <3> QED
      BY <1>0, <2>1, <2>2, <3>1, AppendEffect
  <2>3. CASE provider # "ready"
    BY <1>1, <1>4, <2>1, <2>3 DEF Row, HandsOutRaw, DeliveryTypeOK
  <2> QED
    BY <2>2, <2>3
<1>5. ASSUME NEW f \in Fetches, FetchBegin(f) \/ FetchAborts(f) \/ FetchReturns(f) PROVE Quiet
  BY <1>1, <1>5 DEF FetchBegin, FetchAborts, FetchReturns, Quiet
<1>6. ASSUME NEW f \in Fetches, FetchAppend(f) PROVE Effect
  <2>1. /\ f \in Consumers /\ sent[f] + 1 \in 1..Bound[f] /\ turn # NoEntry
        /\ AppendTask(Room, <<f, sent[f] + 1>>)
        /\ sent' = [sent EXCEPT ![f] = @ + 1] /\ UNCHANGED delivered
    BY <1>6, BoundAssumption, DeliveryAssumption
       DEF FetchAppend, DeliveryTypeOK, BurstInv, Consumers
  <2> QED
    BY <1>0, <2>1, AppendEffect
<1>7. ASSUME NEW e \in Entries, TaskBegins(e) \/ SignalAbort(e) PROVE Quiet
  BY <1>1, <1>7 DEF TaskBegins, SignalAbort, Quiet
<1>8. ASSUME NEW e \in Entries, UnsealSettles(e) \/ SkipCancelled(e) \/ ForceDrain(e)
      PROVE  \E outcome \in Outcomes : HandsOut(e, outcome)
  <2>1. PICK outcome \in Outcomes : TaskEnds(e, outcome)
    BY <1>8 DEF UnsealSettles, SkipCancelled, ForceDrain, Outcomes
  <2>2. queue[e] # <<>>
    BY <2>1 DEF TaskEnds, SettleTask, IInv, RunningIsQueued
  <2> QED
    BY <2>1, <2>2 DEF TaskEnds, SettleTask, HandsOut
<1>9. ASSUME NEW t \in orphans, OrphanSettles(t) PROVE Quiet
  BY <1>1, <1>9 DEF OrphanSettles, Quiet
<1> QED
  BY <1>2, <1>3, <1>4, <1>5, <1>6, <1>7, <1>8, <1>9
     DEF Next, SubscriberNext, FetchNext, TaskNext

-----------------------------------------------------------------------------
(* Types *)

LEMMA ClientTypes ==
    ASSUME DeliveryTypeOK, [Next]_vars
    PROVE  /\ provider' \in {"absent", "ready"}
           /\ phase' \in [Consumers -> {"idle", "live", "gone"}]
           /\ holds' \in [Consumers -> BOOLEAN]
           /\ released' \in [Subscribers -> BOOLEAN]
           /\ unseal' \in [Entries -> UnsealState]
           /\ aborted' \subseteq Fetches
           /\ turn' \in Fetches \cup {NoEntry}
<1> USE DEF DeliveryTypeOK, UnsealState
<1>1. CASE UNCHANGED vars \/ InitProvider \/ RemovalRuns
  BY <1>1 DEF vars, clientVars, InitProvider, RemovalRuns
<1>2. CASE SubscriberNext
  BY <1>2, ZenonT(30) DEF SubscriberNext, Subscribe, Row, Teardown, Consumers
<1>3. CASE FetchNext
  BY <1>3 DEF FetchNext, FetchBegin, FetchAppend, FetchAborts, FetchReturns, Consumers
<1>4. ASSUME NEW e \in Entries, TaskBegins(e) \/ SignalAbort(e)
      PROVE  /\ unseal' \in [Entries -> UnsealState]
             /\ UNCHANGED <<provider, phase, holds, released, aborted, turn>>
  BY <1>4 DEF TaskBegins, SignalAbort
<1>5. ASSUME NEW e \in Entries, UnsealSettles(e) \/ SkipCancelled(e) \/ ForceDrain(e)
      PROVE  /\ unseal' \in [Entries -> UnsealState]
             /\ UNCHANGED <<provider, phase, holds, released, aborted, turn>>
  BY <1>5 DEF UnsealSettles, SkipCancelled, ForceDrain, TaskEnds
<1>6. CASE \E t \in orphans : OrphanSettles(t)
  BY <1>6 DEF OrphanSettles
<1> QED
  BY <1>1, <1>2, <1>3, <1>4, <1>5, <1>6 DEF Next, TaskNext

LEMMA OrphanTypes ==
    ASSUME IInv, DeliveryTypeOK, QueuedInv, [Next]_vars
    PROVE  orphans' \subseteq DeliveryTasks
<1> USE DEF DeliveryTypeOK
<1>1. CASE UNCHANGED vars \/ InitProvider \/ RemovalRuns \/ SubscriberNext \/ FetchNext
  BY <1>1 DEF vars, clientVars, InitProvider, RemovalRuns, SubscriberNext, Subscribe, Row,
     Teardown, FetchNext, FetchBegin, FetchAppend, FetchAborts, FetchReturns
<1>2. ASSUME NEW e \in Entries,
             TaskBegins(e) \/ SignalAbort(e) \/ UnsealSettles(e) \/ SkipCancelled(e)
      PROVE  orphans' = orphans
  BY <1>2 DEF TaskBegins, SignalAbort, UnsealSettles, SkipCancelled
<1>3. ASSUME NEW e \in Entries, ForceDrain(e) PROVE orphans' \subseteq DeliveryTasks
  <2>1. queue[e] \in Seq(Tasks) /\ queue[e] # <<>>
    BY <1>3 DEF ForceDrain, TaskEnds, SettleTask, IInv, RunningIsQueued, TypeOK
  <2>2. 1 \in 1..Len(queue[e]) /\ Head(queue[e]) = queue[e][1]
    BY <2>1
  <2> QED
    BY <1>3, <2>2 DEF ForceDrain, QueuedInv
<1>4. CASE \E t \in orphans : OrphanSettles(t)
  BY <1>4 DEF OrphanSettles
<1> QED
  BY <1>1, <1>2, <1>3, <1>4 DEF Next, TaskNext

LEMMA BurstKept ==
    ASSUME DeliveryTypeOK, BurstInv, Effect, [Next]_vars
    PROVE  BurstInv'
<1> USE DEF DeliveryTypeOK, BurstInv
<1>0. provider' = "absent" => provider = "absent" /\ turn' = NoEntry
  <2>1. CASE UNCHANGED vars \/ InitProvider \/ RemovalRuns
    BY <2>1 DEF vars, clientVars, InitProvider, RemovalRuns
  <2>2. CASE SubscriberNext
    BY <2>2 DEF SubscriberNext, Subscribe, Row, Teardown
  <2>3. CASE FetchNext
    BY <2>3, DeliveryAssumption DEF FetchNext, FetchBegin, FetchAppend, FetchAborts, FetchReturns
  <2>4. CASE TaskNext \/ \E t \in orphans : OrphanSettles(t)
    BY <2>4 DEF TaskNext, TaskBegins, SignalAbort, UnsealSettles, SkipCancelled, ForceDrain,
       TaskEnds, OrphanSettles
  <2> QED
    BY <2>1, <2>2, <2>3, <2>4 DEF Next
<1>1. ASSUME provider' = "absent" PROVE \A e \in Entries : queue'[e] = <<>>
  <2>1. provider = "absent" /\ turn = NoEntry /\ \A e \in Entries : queue[e] = <<>>
    BY <1>0, <1>1
  <2> QED
    BY <2>1 DEF Effect, Quiet, Queues, Drops, HandsOutRaw, HandsOut
<1>2. /\ turn' # NoEntry => phase'[turn'] = "live" /\ sent'[turn'] < Bound[turn']
      /\ \A f \in Fetches : phase'[f] = "idle" => sent'[f] = 0
  <2>1. CASE UNCHANGED vars \/ InitProvider \/ RemovalRuns
    BY <2>1 DEF vars, clientVars, InitProvider, RemovalRuns
  <2>2. ASSUME NEW s \in Subscribers, Subscribe(s) \/ Row(s) \/ Teardown(s)
        PROVE  /\ turn' # NoEntry => phase'[turn'] = "live" /\ sent'[turn'] < Bound[turn']
               /\ \A f \in Fetches : phase'[f] = "idle" => sent'[f] = 0
    <3>1. s \notin Fetches /\ s \in Consumers
      BY DeliveryAssumption DEF Consumers
    <3> QED
      BY <2>2, <3>1 DEF Subscribe, Row, Teardown, EventLoopFree, Consumers
  <2>3. ASSUME NEW f \in Fetches, FetchBegin(f)
        PROVE  /\ turn' # NoEntry => phase'[turn'] = "live" /\ sent'[turn'] < Bound[turn']
               /\ \A g \in Fetches : phase'[g] = "idle" => sent'[g] = 0
    BY <2>3, BoundAssumption DEF FetchBegin, EventLoopFree, Consumers
  <2>4. ASSUME NEW f \in Fetches, FetchAppend(f)
        PROVE  /\ turn' # NoEntry => phase'[turn'] = "live" /\ sent'[turn'] < Bound[turn']
               /\ \A g \in Fetches : phase'[g] = "idle" => sent'[g] = 0
    <3>1. /\ f \in Consumers /\ sent[f] < Bound[f] /\ sent[f] \in Nat /\ Bound[f] \in Nat
          /\ phase[f] = "live"
      BY <2>4, BoundAssumption, DeliveryAssumption DEF FetchAppend, Consumers
    <3>2. \A g \in Fetches : g \in Consumers /\ 0 < Bound[g]
      BY BoundAssumption DEF Consumers
    <3> QED
      BY <2>4, <3>1, <3>2 DEF FetchAppend
  <2>5. ASSUME NEW f \in Fetches, FetchAborts(f) \/ FetchReturns(f)
        PROVE  /\ turn' # NoEntry => phase'[turn'] = "live" /\ sent'[turn'] < Bound[turn']
               /\ \A g \in Fetches : phase'[g] = "idle" => sent'[g] = 0
    BY <2>5 DEF FetchAborts, FetchReturns, EventLoopFree, Consumers
  <2>6. CASE TaskNext \/ \E t \in orphans : OrphanSettles(t)
    BY <2>6 DEF TaskNext, TaskBegins, SignalAbort, UnsealSettles, SkipCancelled, ForceDrain,
       TaskEnds, OrphanSettles
  <2> QED
    BY <2>1, <2>2, <2>3, <2>4, <2>5, <2>6 DEF Next, SubscriberNext, FetchNext
<1> QED
  BY <1>0, <1>1, <1>2

-----------------------------------------------------------------------------
(* Order *)

LEMMA AppendedSequence ==
    ASSUME NEW S, NEW q \in Seq(S), NEW x \in S
    PROVE  /\ Len(Append(q, x)) = Len(q) + 1
           /\ \A i \in 1..Len(q) : Append(q, x)[i] = q[i]
           /\ Append(q, x)[Len(q) + 1] = x
           /\ Len(q) \in Nat
OBVIOUS

LEMMA TailSequence ==
    ASSUME NEW S, NEW q \in Seq(S), q # <<>>
    PROVE  /\ Len(Tail(q)) = Len(q) - 1 /\ Len(q) \in Nat \ {0}
           /\ \A i \in 1..Len(Tail(q)) : Tail(q)[i] = q[i + 1]
           /\ Head(q) = q[1]
OBVIOUS

\* What the invariant says of one queued task ...
LEMMA QueuedTask ==
    ASSUME DInv, NEW e \in Entries, NEW i \in 1..Len(queue[e])
    PROVE  /\ queue[e][i] \in DeliveryTasks /\ queue[e][i][1] \in Consumers
           /\ queue[e][i][2] \in Nat /\ queue[e][i][2] <= sent[queue[e][i][1]]
           /\ \A j \in 1..Len(queue[e]) :
                i < j /\ queue[e][i][1] = queue[e][j][1] => queue[e][i][2] < queue[e][j][2]
<1>1. queue[e][i] \in DeliveryTasks
  BY DEF DInv, QueuedInv
<1> QED
  BY <1>1, TaskShape DEF DInv, QueuedInv

\* ... and of one row that was handed out.
LEMMA HandedOutRow ==
    ASSUME DInv, NEW c \in Consumers, NEW k \in 1..Len(delivered[c])
    PROVE  /\ delivered[c][k].row \in Nat /\ delivered[c][k].row <= sent[c]
           /\ \A e \in Entries : \A i \in 1..Len(queue[e]) :
                  queue[e][i][1] = c => delivered[c][k].row < queue[e][i][2]
           /\ \A l \in 1..Len(delivered[c]) :
                  k < l => delivered[c][k].row < delivered[c][l].row
<1>1. delivered[c] \in Seq(Delivery)
  BY DEF DInv, DeliveryTypeOK
<1>2. delivered[c][k] \in Delivery
  BY <1>1
<1>3. delivered[c][k].row \in Nat
  BY <1>2 DEF Delivery
<1>4. HandedOutInv
  BY DEF DInv
<1> QED
  BY <1>3, <1>4 DEF HandedOutInv

LEMMA QuietKeepsOrder ==
    ASSUME DInv, Quiet
    PROVE  QueuedInv' /\ HandedOutInv'
BY DEF DInv, Quiet, QueuedInv, HandedOutInv

LEMMA DropsKeepsOrder ==
    ASSUME DInv, NEW c \in Consumers, Drops(c)
    PROVE  QueuedInv' /\ HandedOutInv'
<1>1. /\ queue' = queue /\ delivered' = delivered
      /\ \A d \in Consumers : sent'[d] \in Nat /\ sent[d] \in Nat /\ sent[d] <= sent'[d]
  BY DEF DInv, Drops, DeliveryTypeOK
<1>2. ASSUME NEW e \in Entries, NEW i \in 1..Len(queue[e])
      PROVE  queue[e][i][2] <= sent'[queue[e][i][1]]
  BY <1>1, QueuedTask
<1>3. ASSUME NEW d \in Consumers, NEW k \in 1..Len(delivered[d])
      PROVE  delivered[d][k].row <= sent'[d]
  BY <1>1, HandedOutRow
<1>4. QueuedInv'
  BY <1>1, <1>2, QueuedTask DEF QueuedInv
<1>5. HandedOutInv'
  BY <1>1, <1>3, HandedOutRow DEF HandedOutInv
<1> QED
  BY <1>4, <1>5

LEMMA HandsOutRawKeepsOrder ==
    ASSUME DInv, NEW c \in Consumers, HandsOutRaw(c)
    PROVE  QueuedInv' /\ HandedOutInv'
<1> DEFINE new == [row |-> sent[c] + 1, outcome |-> "raw"]
<1>1. /\ queue' = queue /\ \A e \in Entries : queue[e] = <<>>
      /\ delivered' = [delivered EXCEPT ![c] = Append(@, new)]
      /\ sent' = [sent EXCEPT ![c] = @ + 1]
      /\ sent \in [Consumers -> Nat] /\ delivered \in [Consumers -> Seq(Delivery)]
  BY DEF DInv, HandsOutRaw, Delivered, DeliveryTypeOK, BurstInv
<1>2. QueuedInv'
  BY <1>1 DEF QueuedInv
<1>3. new \in Delivery /\ new.row = sent[c] + 1 /\ sent'[c] = sent[c] + 1 /\ sent[c] \in Nat
  BY <1>1 DEF Delivery, Outcomes
<1>4. /\ delivered'[c] = Append(delivered[c], new)
      /\ \A d \in Consumers : d # c => delivered'[d] = delivered[d] /\ sent'[d] = sent[d]
  BY <1>1
<1> HIDE DEF new
<1>5. /\ Len(delivered'[c]) = Len(delivered[c]) + 1 /\ Len(delivered[c]) \in Nat
      /\ \A i \in 1..Len(delivered[c]) : delivered'[c][i] = delivered[c][i]
      /\ delivered'[c][Len(delivered[c]) + 1] = new
  BY <1>1, <1>3, <1>4, AppendedSequence
<1>6. ASSUME NEW d \in 1..Len(delivered[c])
      PROVE  /\ delivered[c][d].row \in Nat /\ delivered[c][d].row <= sent[c]
             /\ \A k \in 1..Len(delivered[c]) :
                    d < k => delivered[c][d].row < delivered[c][k].row
  BY HandedOutRow
<1>7. ASSUME NEW d \in 1..Len(delivered'[c])
      PROVE  /\ delivered'[c][d].row <= sent'[c]
             /\ \A k \in 1..Len(delivered'[c]) :
                    d < k => delivered'[c][d].row < delivered'[c][k].row
  <2>1. CASE d = Len(delivered[c]) + 1
    BY <1>3, <1>5, <2>1
  <2>2. CASE d \in 1..Len(delivered[c])
    <3>1. delivered'[c][d].row = delivered[c][d].row
      BY <1>5, <2>2
    <3>2. ASSUME NEW k \in 1..Len(delivered'[c]), d < k
          PROVE  delivered'[c][d].row < delivered'[c][k].row
      <4>1. CASE k = Len(delivered[c]) + 1
        BY <1>3, <1>5, <1>6, <2>2, <3>1, <4>1, SMTT(30)
      <4>2. CASE k \in 1..Len(delivered[c])
        BY <1>5, <1>6, <2>2, <3>1, <3>2, <4>2
      <4> QED
        BY <1>5, <4>1, <4>2
    <3> QED
      BY <1>3, <1>6, <2>2, <3>1, <3>2
  <2> QED
    BY <1>5, <2>1, <2>2
<1>8. ASSUME NEW b \in Consumers, b # c, NEW d \in 1..Len(delivered'[b])
      PROVE  /\ delivered'[b][d].row <= sent'[b]
             /\ \A k \in 1..Len(delivered'[b]) :
                    d < k => delivered'[b][d].row < delivered'[b][k].row
  BY <1>4, <1>8, HandedOutRow
<1>9. \A e \in Entries : Len(queue'[e]) = 0
  BY <1>1
<1>10. HandedOutInv'
  BY <1>7, <1>8, <1>9 DEF HandedOutInv
<1> QED
  BY <1>2, <1>10

LEMMA QueuesKeepsOrder ==
    ASSUME DInv, NEW c \in Consumers, Queues(c)
    PROVE  QueuedInv' /\ HandedOutInv'
<1> DEFINE e == byRoom[Room]
           task == <<c, sent[c] + 1>>
<1>1. /\ e \in Entries /\ task \in DeliveryTasks /\ task \in Tasks
      /\ task[1] = c /\ task[2] = sent[c] + 1
      /\ queue' = [queue EXCEPT ![e] = Append(@, task)]
      /\ sent' = [sent EXCEPT ![c] = @ + 1] /\ delivered' = delivered
      /\ queue \in [Entries -> Seq(Tasks)] /\ sent \in [Consumers -> Nat]
      /\ delivered \in [Consumers -> Seq(Delivery)]
  BY TaskShape, DeliveryAssumption DEF DInv, Queues, DeliveryTypeOK, TypeOK
<1>2. \A f \in Entries : f # e => queue[f] = <<>> /\ queue'[f] = <<>>
  BY <1>1, OneQueue DEF DInv
<1> HIDE DEF task, e
<1>3. /\ queue'[e] = Append(queue[e], task)
      /\ Len(queue'[e]) = Len(queue[e]) + 1 /\ Len(queue[e]) \in Nat
      /\ \A i \in 1..Len(queue[e]) : queue'[e][i] = queue[e][i]
      /\ queue'[e][Len(queue[e]) + 1] = task
  BY <1>1, AppendedSequence
<1>4. \A d \in Consumers : /\ sent[d] \in Nat /\ sent'[d] \in Nat /\ sent[d] <= sent'[d]
                           /\ d = c => sent'[d] = sent[d] + 1
  BY <1>1
<1>5. ASSUME NEW i \in 1..Len(queue[e])
      PROVE  /\ queue[e][i] \in DeliveryTasks /\ queue[e][i][1] \in Consumers
             /\ queue[e][i][2] \in Nat /\ queue[e][i][2] <= sent[queue[e][i][1]]
             /\ \A j \in 1..Len(queue[e]) :
                  i < j /\ queue[e][i][1] = queue[e][j][1] => queue[e][i][2] < queue[e][j][2]
  BY <1>1, QueuedTask
<1>6. ASSUME NEW i \in 1..Len(queue'[e])
      PROVE  /\ queue'[e][i] \in DeliveryTasks
             /\ queue'[e][i][2] <= sent'[queue'[e][i][1]]
             /\ \A j \in 1..Len(queue'[e]) :
                  i < j /\ queue'[e][i][1] = queue'[e][j][1] => queue'[e][i][2] < queue'[e][j][2]
  <2>1. CASE i = Len(queue[e]) + 1
    BY <1>1, <1>3, <1>4, <2>1
  <2>2. CASE i \in 1..Len(queue[e])
    <3>1. queue'[e][i] = queue[e][i]
      BY <1>3, <2>2
    <3>2. ASSUME NEW j \in 1..Len(queue'[e]), i < j, queue'[e][i][1] = queue'[e][j][1]
          PROVE  queue'[e][i][2] < queue'[e][j][2]
      <4>1. CASE j = Len(queue[e]) + 1
        BY <1>1, <1>3, <1>4, <1>5, <2>2, <3>1, <3>2, <4>1
      <4>2. CASE j \in 1..Len(queue[e])
        BY <1>3, <1>5, <2>2, <3>1, <3>2, <4>2
      <4> QED
        BY <1>3, <4>1, <4>2
    <3>3. queue[e][i][2] <= sent'[queue[e][i][1]]
      BY <1>4, <1>5, <2>2
    <3> QED
      BY <1>5, <2>2, <3>1, <3>2, <3>3
  <2> QED
    BY <1>3, <2>1, <2>2
<1>7. QueuedInv'
  <2>1. \A f \in Entries : f # e => Len(queue'[f]) = 0
    BY <1>2
  <2> QED
    BY <1>6, <2>1 DEF QueuedInv
<1>8. ASSUME NEW d \in Consumers, NEW k \in 1..Len(delivered[d])
      PROVE  /\ delivered[d][k].row \in Nat /\ delivered[d][k].row <= sent[d]
             /\ \A i \in 1..Len(queue[e]) :
                    queue[e][i][1] = d => delivered[d][k].row < queue[e][i][2]
             /\ \A l \in 1..Len(delivered[d]) :
                    k < l => delivered[d][k].row < delivered[d][l].row
  BY <1>1, HandedOutRow
<1>9. ASSUME NEW d \in Consumers, NEW k \in 1..Len(delivered[d])
      PROVE  /\ delivered[d][k].row <= sent'[d]
             /\ \A i \in 1..Len(queue'[e]) :
                    queue'[e][i][1] = d => delivered[d][k].row < queue'[e][i][2]
  <2>1. delivered[d][k].row \in Nat /\ delivered[d][k].row <= sent[d]
    BY <1>8
  <2>2. ASSUME NEW i \in 1..Len(queue'[e]), queue'[e][i][1] = d
        PROVE  delivered[d][k].row < queue'[e][i][2]
    <3>1. CASE i = Len(queue[e]) + 1
      BY <1>1, <1>3, <1>4, <2>1, <2>2, <3>1
    <3>2. CASE i \in 1..Len(queue[e])
      BY <1>3, <1>8, <2>2, <3>2
    <3> QED
      BY <1>3, <3>1, <3>2
  <2> QED
    BY <1>4, <2>1, <2>2
<1>10. HandedOutInv'
  <2>1. \A f \in Entries : f # e => Len(queue'[f]) = 0
    BY <1>2
  <2>2. ASSUME NEW d \in Consumers, NEW k \in 1..Len(delivered'[d]),
               NEW f \in Entries, NEW i \in 1..Len(queue'[f]), queue'[f][i][1] = d
        PROVE  delivered'[d][k].row < queue'[f][i][2]
    <3>1. f = e
      BY <2>1, <2>2
    <3>2. delivered' = delivered
      BY <1>1
    <3> QED
      BY <1>9, <2>2, <3>1, <3>2
  <2>3. delivered' = delivered
    BY <1>1
  <2> QED
    BY <1>8, <1>9, <2>2, <2>3 DEF HandedOutInv
<1> QED
  BY <1>7, <1>10

LEMMA HandsOutKeepsOrder ==
    ASSUME DInv, NEW e \in Entries, NEW outcome \in Outcomes, HandsOut(e, outcome)
    PROVE  QueuedInv' /\ HandedOutInv'
<1> DEFINE q == queue[e]
           c == Head(q)[1]
           new == [row |-> Head(q)[2], outcome |-> outcome]
<1>1. /\ q # <<>> /\ q \in Seq(Tasks)
      /\ queue \in [Entries -> Seq(Tasks)] /\ sent \in [Consumers -> Nat]
      /\ delivered \in [Consumers -> Seq(Delivery)]
      /\ queue' = [queue EXCEPT ![e] = Tail(q)] /\ sent' = sent
      /\ delivered' = [delivered EXCEPT ![c] = Append(@, new)]
  BY DEF DInv, HandsOut, Delivered, DeliveryTypeOK, TypeOK
<1>2. \A f \in Entries : f # e => queue'[f] = <<>>
  BY <1>1, OneQueue DEF DInv
<1>3. /\ Len(q) \in Nat \ {0} /\ Head(q) = q[1]
      /\ queue'[e] = Tail(q) /\ Len(queue'[e]) = Len(q) - 1
      /\ \A i \in 1..Len(queue'[e]) : queue'[e][i] = q[i + 1]
  BY <1>1, TailSequence
<1>4. ASSUME NEW i \in 1..Len(q)
      PROVE  /\ q[i] \in DeliveryTasks /\ q[i][1] \in Consumers
             /\ q[i][2] \in Nat /\ q[i][2] <= sent[q[i][1]]
             /\ \A j \in 1..Len(q) : i < j /\ q[i][1] = q[j][1] => q[i][2] < q[j][2]
  BY QueuedTask
<1>5. /\ c \in Consumers /\ new \in Delivery /\ new.row = q[1][2] /\ c = q[1][1]
      /\ new.row \in Nat /\ new.row <= sent[c]
  BY <1>3, <1>4 DEF Delivery
<1>6. ASSUME NEW i \in 1..Len(queue'[e])
      PROVE  /\ i + 1 \in 1..Len(q) /\ queue'[e][i] = q[i + 1]
             /\ queue'[e][i][1] = c => new.row < queue'[e][i][2]
  BY <1>3, <1>4, <1>5
<1> HIDE DEF q, c, new
<1>7. QueuedInv'
  <2>1. \A f \in Entries : f # e => Len(queue'[f]) = 0
    BY <1>2
  <2>2. ASSUME NEW i \in 1..Len(queue'[e])
        PROVE  /\ queue'[e][i] \in DeliveryTasks
               /\ queue'[e][i][2] <= sent'[queue'[e][i][1]]
    BY <1>1, <1>4, <1>6
  <2>3. ASSUME NEW i \in 1..Len(queue'[e]), NEW j \in 1..Len(queue'[e]),
               i < j, queue'[e][i][1] = queue'[e][j][1]
        PROVE  queue'[e][i][2] < queue'[e][j][2]
    <3>1. i + 1 \in 1..Len(q) /\ j + 1 \in 1..Len(q) /\ i + 1 < j + 1
      BY <1>6, <2>3
    <3> QED
      BY <1>4, <1>6, <2>3, <3>1
  <2> QED
    BY <2>1, <2>2, <2>3 DEF QueuedInv
<1>8. /\ Len(delivered'[c]) = Len(delivered[c]) + 1 /\ Len(delivered[c]) \in Nat
      /\ \A i \in 1..Len(delivered[c]) : delivered'[c][i] = delivered[c][i]
      /\ delivered'[c][Len(delivered[c]) + 1] = new
      /\ \A d \in Consumers : d # c => delivered'[d] = delivered[d]
  <2>1. /\ delivered[c] \in Seq(Delivery) /\ delivered'[c] = Append(delivered[c], new)
        /\ \A d \in Consumers : d # c => delivered'[d] = delivered[d]
    BY <1>1, <1>5
  <2> QED
    BY <1>5, <2>1, AppendedSequence
<1>9. ASSUME NEW d \in Consumers, NEW k \in 1..Len(delivered[d])
      PROVE  /\ delivered[d][k].row \in Nat /\ delivered[d][k].row <= sent[d]
             /\ \A i \in 1..Len(q) : q[i][1] = d => delivered[d][k].row < q[i][2]
             /\ \A l \in 1..Len(delivered[d]) :
                    k < l => delivered[d][k].row < delivered[d][l].row
  BY HandedOutRow DEF q
<1>10. \A k \in 1..Len(delivered[c]) : delivered[c][k].row < new.row
  BY <1>3, <1>5, <1>9
<1>11. ASSUME NEW d \in Consumers, NEW k \in 1..Len(delivered'[d])
       PROVE  /\ delivered'[d][k].row <= sent[d]
              /\ \A i \in 1..Len(queue'[e]) :
                     queue'[e][i][1] = d => delivered'[d][k].row < queue'[e][i][2]
              /\ \A l \in 1..Len(delivered'[d]) :
                     k < l => delivered'[d][k].row < delivered'[d][l].row
  <2>1. CASE d # c
    <3>1. delivered'[d] = delivered[d]
      BY <1>8, <2>1
    <3> QED
      BY <1>6, <1>9, <3>1
  <2>2. CASE d = c /\ k = Len(delivered[c]) + 1
    BY <1>5, <1>6, <1>8, <2>2
  <2>3. CASE d = c /\ k \in 1..Len(delivered[c])
    <3>1. delivered'[c][k] = delivered[c][k]
      BY <1>8, <2>3
    <3>2. ASSUME NEW l \in 1..Len(delivered'[c]), k < l
          PROVE  delivered[c][k].row < delivered'[c][l].row
      <4>1. CASE l = Len(delivered[c]) + 1
        BY <1>8, <1>10, <2>3, <4>1
      <4>2. CASE l \in 1..Len(delivered[c])
        BY <1>5, <1>8, <1>9, <2>3, <3>2, <4>2
      <4> QED
        BY <1>8, <4>1, <4>2
    <3>3. \A i \in 1..Len(queue'[e]) :
              queue'[e][i][1] = c => delivered[c][k].row < queue'[e][i][2]
      BY <1>6, <1>9, <2>3
    <3> QED
      BY <1>9, <2>3, <3>1, <3>2, <3>3
  <2> QED
    BY <1>8, <2>1, <2>2, <2>3
<1>12. HandedOutInv'
  <2>1. \A f \in Entries : f # e => Len(queue'[f]) = 0
    BY <1>2
  <2>2. ASSUME NEW d \in Consumers, NEW k \in 1..Len(delivered'[d]),
               NEW f \in Entries, NEW i \in 1..Len(queue'[f]), queue'[f][i][1] = d
        PROVE  delivered'[d][k].row < queue'[f][i][2]
    <3>1. f = e
      BY <2>1, <2>2
    <3> QED
      BY <1>11, <2>2, <3>1
  <2>3. sent' = sent
    BY <1>1
  <2> QED
    BY <1>11, <2>2, <2>3 DEF HandedOutInv
<1> QED
  BY <1>7, <1>12

LEMMA RowTypes ==
    ASSUME DInv, Effect
    PROVE  sent' \in [Consumers -> Nat] /\ delivered' \in [Consumers -> Seq(Delivery)]
<1>1. /\ sent \in [Consumers -> Nat] /\ delivered \in [Consumers -> Seq(Delivery)]
      /\ queue \in [Entries -> Seq(Tasks)]
  BY DEF DInv, DeliveryTypeOK, TypeOK
<1>2. ASSUME NEW c \in Consumers, NEW n \in Nat, NEW o \in Outcomes, Delivered(c, n, o)
      PROVE  delivered' \in [Consumers -> Seq(Delivery)]
  <2>1. [row |-> n, outcome |-> o] \in Delivery
    BY DEF Delivery
  <2> QED
    BY <1>1, <1>2, <2>1 DEF Delivered
<1>3. ASSUME NEW e \in Entries, NEW o \in Outcomes, HandsOut(e, o)
      PROVE  sent' = sent /\ delivered' \in [Consumers -> Seq(Delivery)]
  <2>1. Len(queue[e]) \in Nat \ {0} /\ Head(queue[e]) = queue[e][1]
    BY <1>1, <1>3, TailSequence DEF HandsOut
  <2>2. queue[e][1] \in DeliveryTasks
    BY <2>1 DEF DInv, QueuedInv
  <2> QED
    BY <1>2, <1>3, <2>1, <2>2, TaskShape DEF HandsOut
<1>4. ASSUME NEW c \in Consumers, HandsOutRaw(c)
      PROVE  /\ sent' \in [Consumers -> Nat]
             /\ delivered' \in [Consumers -> Seq(Delivery)]
  BY <1>1, <1>2, <1>4 DEF HandsOutRaw, Outcomes
<1>5. ASSUME NEW c \in Consumers, Queues(c) \/ Drops(c)
      PROVE  sent' \in [Consumers -> Nat] /\ delivered' = delivered
  <2>1. sent' = [sent EXCEPT ![c] = @ + 1] /\ delivered' = delivered
    BY <1>5 DEF Queues, Drops
  <2> QED
    BY <1>1, <2>1
<1>6. CASE Quiet
  BY <1>1, <1>6 DEF Quiet
<1> QED
  BY <1>1, <1>3, <1>4, <1>5, <1>6 DEF Effect

-----------------------------------------------------------------------------
LEMMA InitEstablishesDInv == Init => DInv
<1> SUFFICES ASSUME Init PROVE DInv
  OBVIOUS
<1>1. IInv
  BY InitEstablishesIInv DEF Init
<1>2. DeliveryTypeOK
  BY <1>1 DEF Init, IInv, DeliveryTypeOK, UnsealState
<1>3. OnlyThisRoom /\ BurstInv /\ QueuedInv
  BY DEF Init, ChainInit, OnlyThisRoom, BurstInv, QueuedInv, Consumers
<1>4. HandedOutInv
  BY DEF Init, HandedOutInv
<1> QED
  BY <1>1, <1>2, <1>3, <1>4 DEF DInv

LEMMA StepKeepsDInv == DInv /\ [Next]_vars => DInv'
<1> SUFFICES ASSUME DInv, [Next]_vars PROVE DInv'
  OBVIOUS
<1>1. IInv /\ DeliveryTypeOK /\ OnlyThisRoom /\ BurstInv /\ QueuedInv
  BY DEF DInv
<1>2. IInv'
  BY <1>1, EveryStepIsAChainStep, StepKeepsIInv
<1>3. Effect
  BY <1>1, EveryStepHasAnEffect
<1>4. QueuedInv' /\ HandedOutInv'
  BY <1>3, QuietKeepsOrder, DropsKeepsOrder, HandsOutRawKeepsOrder, QueuesKeepsOrder,
     HandsOutKeepsOrder DEF Effect
<1>5. DeliveryTypeOK'
  BY <1>1, <1>2, <1>3, ClientTypes, OrphanTypes, RowTypes DEF DeliveryTypeOK, IInv
<1>6. OnlyThisRoom' /\ BurstInv'
  BY <1>1, <1>3, OnlyThisRoomKept, BurstKept
<1> QED
  BY <1>2, <1>4, <1>5, <1>6 DEF DInv

LEMMA DInvHolds == Spec => []DInv
BY InitEstablishesDInv, StepKeepsDInv, PTL DEF Spec

-----------------------------------------------------------------------------
\* Every reachable state of the delivery has the types the module declares.
THEOREM DeliveryTypeCorrect == Spec => []DeliveryTypeOK
<1>1. DInv => DeliveryTypeOK
  BY DEF DInv
<1> QED
  BY <1>1, DInvHolds, PTL

\* subscribe() and list() use the chain as its callers may: each of their steps
\* is a step of the class, or none.
THEOREM UsesTheChain == Spec => ChainSafety
<1>1. Init => ChainInit
  BY DEF Init
<1>2. DInv /\ [Next]_vars => [ChainNext]_chainVars
  BY EveryStepIsAChainStep DEF DInv
<1> QED
  BY <1>1, <1>2, DInvHolds, PTL DEF Spec, ChainSafety

\* #appendDecryptTask's tasks never run beside each other, whoever appended
\* them and whatever drained: the provider decrypts one row at a time.
THEOREM OneRowAtATime == Spec => []OneUnsealInFlight
BY UsesTheChain, Serial, PTL

\* Every row is handed out at most once and in the order it arrived, for any
\* number of subscriptions and pages on one chain.
THEOREM InOrder == Spec => []DeliveredOnceInOrder
<1>1. ASSUME DInv PROVE DeliveredOnceInOrder
  <2>1. delivered \in [Consumers -> Seq(Delivery)]
    BY <1>1 DEF DInv, DeliveryTypeOK
  <2>2. \A c \in Consumers : DOMAIN delivered[c] = 1..Len(delivered[c])
    BY <2>1
  <2> QED
    BY <1>1, <2>2 DEF DInv, HandedOutInv, DeliveredOnceInOrder
<1> QED
  BY <1>1, DInvHolds, PTL
=============================================================================
