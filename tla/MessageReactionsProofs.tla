----------------------- MODULE MessageReactionsProofs -----------------------
(***************************************************************************)
(* MessageReactions, proved for every set of messages, emojis and users    *)
(* (finitely many) and every bound: types, one write at a time, chips that *)
(* match the users they list, and that a quiet message shows the server.   *)
(***************************************************************************)
EXTENDS MessageReactions, FiniteSetTheorems, SequenceTheorems, TLAPS

\* A click whose call is outstanding holds the lock of its message.
LockCoversWrites == ~destroyed => \A w \in writes : w.msg \in inflight

ChipsOK(entry) ==
    \A e \in Emojis :
        /\ entry.counts[e] <= Cardinality(entry.users[e])
        /\ entry.counts[e] = 0 <=> entry.users[e] = {}

ChipsInv ==
    /\ \A m \in Msgs : ChipsOK(reactions[m])
    /\ \A w \in writes : ChipsOK(w.preSnapshot)

\* What may still bring the server's state to a message that does not show it:
\* an event, a refresh that is not behind the server or will be repeated, the
\* timer of an expired write, or a write that will change the server and so
\* be announced.
EventPending(m) == \E i \in 1..Len(events) : events[i].msg = m

FreshRefresh(m) ==
    /\ m \in fetching
    /\ m \in pending \/ \A a \in answers : a.msg = m => a.pairs = server[m]

EffectiveWrite(m) ==
    \E w \in writes :
        /\ w.msg = m
        /\ ~w.applied
        /\ w.call = "send" <=> <<Self, w.emoji>> \notin server[m]

Reconciled(m) ==
    ShowsServer(m) \/ EventPending(m) \/ FreshRefresh(m) \/ m \in timers \/ EffectiveWrite(m)

ReconciledInv == ~destroyed => \A m \in rows \ excused : Reconciled(m)

\* An answer that is behind the server will be asked for again.
StaleIsRepeated ==
    ~destroyed => \A a \in answers :
        a.pairs = server[a.msg] \/ a.msg \in pending \cup excused \/ EventPending(a.msg)

\* #order lists no message twice, so an evicted one is not among the rows.
DistinctRows == \A i, j \in 1..Len(order) : order[i] = order[j] => i = j

IInv ==
    /\ TypeOK
    /\ DistinctRows
    /\ LockCoversWrites
    /\ OneWriteAtATime
    /\ ChipsInv
    /\ ReconciledInv
    /\ StaleIsRepeated
-----------------------------------------------------------------------------
(* Entries *)

LEMMA PutOK ==
    ASSUME NEW entry \in Shown, NEW e \in Emojis, NEW who \in SUBSET Users, NEW n \in Nat
    PROVE  /\ Put(entry, e, who, n) \in Shown
           /\ ChipsOK(entry) /\ n <= Cardinality(who) /\ (n = 0 <=> who = {})
                => ChipsOK(Put(entry, e, who, n))
BY DEF Put, Shown, ChipsOK

LEMMA UsersAreFinite ==
    ASSUME NEW who \in SUBSET Users
    PROVE  IsFiniteSet(who) /\ Cardinality(who) \in Nat
BY ReactionsAssumption, FS_Subset, FS_CardinalityType

LEMMA MoreOK ==
    ASSUME NEW entry \in Shown, NEW e \in Emojis, NEW user \in Users
    PROVE  /\ More(entry, e, user) \in Shown
           /\ ChipsOK(entry) => ChipsOK(More(entry, e, user))
<1> DEFINE who == entry.users[e]
           n == entry.counts[e] + (IF user \in who THEN 0 ELSE 1)
<1>1. who \in SUBSET Users /\ n \in Nat /\ entry.counts[e] \in Nat
  BY DEF Shown
<1>2. who \cup {user} \in SUBSET Users
  BY <1>1
<1>3. ChipsOK(entry) => n <= Cardinality(who \cup {user}) /\ n # 0
  <2>1. IsFiniteSet(who) /\ Cardinality(who) \in Nat
    BY <1>1, UsersAreFinite
  <2>2. Cardinality(who \cup {user}) = IF user \in who THEN Cardinality(who)
                                                       ELSE Cardinality(who) + 1
    BY <2>1, FS_AddElement
  <2> QED
    BY <1>1, <2>1, <2>2 DEF ChipsOK
<1>4. More(entry, e, user) = Put(entry, e, who \cup {user}, n)
  BY DEF More
<1> HIDE DEF who, n
<1> QED
  BY <1>1, <1>2, <1>3, <1>4, PutOK

LEMMA LessOK ==
    ASSUME NEW entry \in Shown, NEW e \in Emojis, NEW user \in Users
    PROVE  /\ Less(entry, e, user) \in Shown
           /\ ChipsOK(entry) => ChipsOK(Less(entry, e, user))
<1> DEFINE who == entry.users[e]
           n == entry.counts[e]
<1>1. who \in SUBSET Users /\ n \in Nat
  BY DEF Shown
<1>2. CASE n <= 1
  <2>1. Less(entry, e, user) = Put(entry, e, {}, 0)
    BY <1>2 DEF Less
  <2>2. Cardinality({}) = 0
    BY FS_EmptySet
  <2> QED
    BY <2>1, <2>2, PutOK
<1>3. CASE n > 1
  <2>1. Less(entry, e, user) = Put(entry, e, who \ {user}, n - 1)
    BY <1>1, <1>3 DEF Less
  <2>2. who \ {user} \in SUBSET Users /\ n - 1 \in Nat
    BY <1>1, <1>3
  <2>3. IsFiniteSet(who) /\ Cardinality(who) \in Nat
    BY <1>1, UsersAreFinite
  <2>4. Cardinality(who \ {user}) = IF user \in who THEN Cardinality(who) - 1
                                                    ELSE Cardinality(who)
    BY <2>3, FS_RemoveElement
  <2>5. who \ {user} = {} => Cardinality(who \ {user}) = 0
    BY FS_EmptySet
  <2>6. ChipsOK(entry) => n <= Cardinality(who)
    BY DEF ChipsOK
  <2>7. ChipsOK(entry) => n - 1 <= Cardinality(who \ {user}) /\ who \ {user} # {} /\ n - 1 # 0
    BY <1>1, <1>3, <2>3, <2>4, <2>5, <2>6
  <2> HIDE DEF who, n
  <2> QED
    BY <2>1, <2>2, <2>7, PutOK
<1> QED
  BY <1>1, <1>2, <1>3

LEMMA AggregateOK ==
    ASSUME NEW pairs
    PROVE  Aggregate(pairs) \in Shown /\ ChipsOK(Aggregate(pairs))
<1> DEFINE who(e) == {u \in Users : <<u, e>> \in pairs}
<1>1. \A e \in Emojis : /\ who(e) \in SUBSET Users
                        /\ Cardinality(who(e)) \in Nat
                        /\ Cardinality(who(e)) = 0 <=> who(e) = {}
  <2> TAKE e \in Emojis
  <2>1. who(e) \in SUBSET Users
    OBVIOUS
  <2> HIDE DEF who
  <2> QED
    BY <2>1, UsersAreFinite, FS_EmptySet
<1>2. Aggregate(pairs) = [counts |-> [e \in Emojis |-> Cardinality(who(e))],
                          users |-> [e \in Emojis |-> who(e)]]
  BY DEF Aggregate
<1> HIDE DEF who
<1> QED
  BY <1>1, <1>2 DEF Shown, ChipsOK

LEMMA NoReactionsOK == NoReactions \in Shown /\ ChipsOK(NoReactions)
BY FS_EmptySet DEF NoReactions, Shown, ChipsOK
-----------------------------------------------------------------------------
(* Types *)

LEMMA RowsAreMsgs == ASSUME TypeOK PROVE rows \subseteq Msgs
BY DEF TypeOK, rows

LEMMA RefreshType ==
    ASSUME TypeOK, NEW m \in Msgs, Refresh(m)
    PROVE  /\ fetching' = fetching \cup {m}
           /\ fetching' \subseteq Msgs
           /\ pending' \subseteq fetching'
BY DEF TypeOK, Refresh

LEMMA RefreshEndsType ==
    ASSUME TypeOK, NEW m \in Msgs, RefreshEnds(m)
    PROVE  /\ fetching' \subseteq Msgs
           /\ pending' \subseteq fetching'
           /\ answers' \subseteq [msg : fetching', pairs : SUBSET Pairs]
BY DEF TypeOK, RefreshEnds

LEMMA ServerTakesType ==
    ASSUME TypeOK, NEW m \in Msgs, NEW user \in Users, NEW e \in Emojis,
           NEW op \in {"add", "remove"}, ServerTakes(m, user, e, op)
    PROVE  server' \in [Msgs -> SUBSET Pairs] /\ events' \in Seq(Events)
<1> DEFINE ev == [msg |-> m, user |-> user, emoji |-> e, op |-> op]
           after == IF op = "add" THEN server[m] \cup {<<user, e>>} ELSE server[m] \ {<<user, e>>}
<1>1. <<user, e>> \in Pairs /\ ev \in Events
  BY DEF Pairs, Events
<1>2. server' = [server EXCEPT ![m] = after] /\ (events' = events \/ events' = Append(events, ev))
  BY DEF ServerTakes
<1>3. after \in SUBSET Pairs
  BY <1>1 DEF TypeOK
<1> HIDE DEF ev, after
<1>4. server' \in [Msgs -> SUBSET Pairs]
  BY <1>2, <1>3 DEF TypeOK
<1>5. events' \in Seq(Events)
  <2>1. events \in Seq(Events)
    BY DEF TypeOK
  <2>2. Append(events, ev) \in Seq(Events)
    BY <1>1, <2>1
  <2> QED
    BY <1>2, <2>1, <2>2
<1> QED
  BY <1>4, <1>5

LEMMA InitType == Init => TypeOK
<1> SUFFICES ASSUME Init PROVE TypeOK
  OBVIOUS
<1>1. order \in Seq(Msgs) /\ rows \subseteq Msgs
  BY ReactionsAssumption DEF Init, rows
<1>2. server \in [Msgs -> SUBSET Pairs]
  BY ReactionsAssumption DEF Init, Pairs
<1>3. clicks = 0 /\ changes = 0 /\ arrivals = 0 /\ faults = 0 /\ events = <<>>
  BY DEF Init
<1>4. /\ reactions \in [Msgs -> Shown]
      /\ inflight = {} /\ writes = {} /\ fetching = rows /\ pending = {} /\ timers = {}
      /\ destroyed = FALSE /\ answers = {} /\ excused = {}
  BY NoReactionsOK DEF Init
<1>5. /\ clicks \in 0..MaxClicks /\ changes \in 0..MaxChanges
      /\ arrivals \in 0..MaxArrivals /\ faults \in 0..MaxFaults
  BY <1>3, ReactionsAssumption
<1>6. events \in Seq(Events)
  BY <1>3
<1>7. writes \subseteq Writes /\ answers \subseteq [msg : fetching, pairs : SUBSET Pairs]
  BY <1>4
<1>8. fetching \subseteq Msgs /\ pending \subseteq fetching /\ destroyed \in BOOLEAN
  BY <1>1, <1>4
<1> QED
  BY <1>1, <1>2, <1>4, <1>5, <1>6, <1>7, <1>8 DEF TypeOK

\* A click: the new write and the optimistic entry.
LEMMA SelectType ==
    ASSUME TypeOK, NEW m \in Msgs, NEW e \in Emojis, SelectReaction(m, e)
    PROVE  /\ TypeOK'
           /\ \E entry \in Shown, call \in {"send", "remove", "swap"}, f \in Emojis :
                 /\ StartWrite(m, call, f, e, entry)
                 /\ call = "send" <=> Self \notin reactions[m].users[f]
<1>1. reactions[m] \in Shown /\ Self \in Users
  BY ReactionsAssumption DEF TypeOK
<1>2. \E entry \in Shown, call \in {"send", "remove", "swap"}, f \in Emojis :
          /\ StartWrite(m, call, f, e, entry)
          /\ call = "send" <=> Self \notin reactions[m].users[f]
  <2>1. CASE RouteAdd(m, e)
    BY <1>1, <2>1, MoreOK DEF RouteAdd, Own
  <2>2. CASE RouteRemove(m, e)
    BY <1>1, <2>2, LessOK DEF RouteRemove, Own
  <2>3. CASE \E from \in Emojis : RouteReplace(m, from, e)
    BY <1>1, <2>3, LessOK, MoreOK DEF RouteReplace, Own
  <2> QED
    BY <2>1, <2>2, <2>3 DEF SelectReaction
<1>3. PICK entry \in Shown, call \in {"send", "remove", "swap"}, f \in Emojis :
          StartWrite(m, call, f, e, entry)
  BY <1>2
<1>4. clicks' \in 0..MaxClicks /\ clicks + 1 \in 1..MaxClicks
  BY ReactionsAssumption DEF TypeOK, SelectReaction
<1>5. reactions' \in [Msgs -> Shown] /\ writes' \subseteq Writes
  <2> DEFINE w == [id |-> clicks + 1, msg |-> m, call |-> call, emoji |-> f, to |-> e,
                   applied |-> FALSE, preSnapshot |-> reactions[m]]
  <2>1. w \in Writes
    BY <1>1, <1>4 DEF Writes
  <2>2. reactions' = [reactions EXCEPT ![m] = entry] /\ writes' = writes \cup {w}
    BY <1>3 DEF StartWrite
  <2> HIDE DEF w
  <2> QED
    BY <2>1, <2>2 DEF TypeOK
<1>6. inflight' \subseteq Msgs
  BY DEF SelectReaction, Lock, TypeOK
<1>7. TypeOK'
  BY <1>4, <1>5, <1>6 DEF TypeOK, SelectReaction, serverVars
<1> QED
  BY <1>2, <1>7

LEMMA WriteType ==
    ASSUME TypeOK, NEW w \in writes,
           \/ ServerAppliesWrite(w) \/ SwapGoesOn(w) \/ WriteSucceeds(w)
           \/ WriteFails(w) \/ WriteExpires(w)
    PROVE  TypeOK'
<1>1. /\ w \in Writes /\ w.msg \in Msgs /\ w.emoji \in Emojis /\ w.to \in Emojis
      /\ w.preSnapshot \in Shown
  BY DEF TypeOK, Writes
<1>2. CASE ServerAppliesWrite(w)
  <2>1. server' \in [Msgs -> SUBSET Pairs] /\ events' \in Seq(Events)
    BY <1>1, <1>2, ServerTakesType, ReactionsAssumption DEF ServerAppliesWrite
  <2>2. writes' \subseteq Writes
    BY <1>1, <1>2 DEF ServerAppliesWrite, TypeOK, Writes
  <2> QED
    BY <1>2, <2>1, <2>2 DEF ServerAppliesWrite, TypeOK, budgets
<1>3. CASE SwapGoesOn(w)
  <2>1. writes' \subseteq Writes
    BY <1>1, <1>3 DEF SwapGoesOn, TypeOK, Writes
  <2> QED
    BY <1>3, <2>1 DEF SwapGoesOn, TypeOK, budgets, serverVars
<1>4. CASE WriteSucceeds(w)
  BY <1>4 DEF WriteSucceeds, EndWrite, TypeOK, budgets, serverVars
<1>5. CASE WriteFails(w)
  BY <1>1, <1>5, ReactionsAssumption DEF WriteFails, EndWrite, TypeOK, serverVars
<1>6. CASE WriteExpires(w)
  BY <1>1, <1>6, ReactionsAssumption DEF WriteExpires, EndWrite, DelayRollback, TypeOK, serverVars
<1> QED
  BY <1>2, <1>3, <1>4, <1>5, <1>6

LEMMA RefreshStepType ==
    ASSUME TypeOK, NEW m \in Msgs,
           ServerAnswersRefresh(m) \/ RefreshFails(m) \/ RollbackTimerFires(m)
    PROVE  TypeOK'
<1>1. CASE ServerAnswersRefresh(m)
  BY <1>1 DEF ServerAnswersRefresh, TypeOK, mutableVars, budgets
<1>2. CASE RefreshFails(m)
  BY <1>2, RefreshEndsType, ReactionsAssumption DEF RefreshFails, TypeOK
<1>3. CASE RollbackTimerFires(m)
  BY <1>3, RefreshType DEF RollbackTimerFires, TypeOK, serverVars, budgets
<1> QED
  BY <1>1, <1>2, <1>3

LEMMA RefreshResolvesType ==
    ASSUME TypeOK, NEW a \in answers, RefreshResolves(a)
    PROVE  TypeOK'
<1>1. a.msg \in Msgs
  BY DEF TypeOK
<1>2. reactions' \in [Msgs -> Shown]
  BY <1>1, AggregateOK DEF RefreshResolves, TypeOK
<1> QED
  BY <1>1, <1>2, RefreshEndsType DEF RefreshResolves, TypeOK, budgets

LEMMA HandleReactionType ==
    ASSUME TypeOK, HandleReaction
    PROVE  TypeOK'
<1> DEFINE ev == Head(events)
<1>1. ev \in Events /\ events' \in Seq(Events)
  BY DEF HandleReaction, TypeOK
<1>2. ev.msg \in Msgs /\ ev.user \in Users /\ ev.emoji \in Emojis
  BY <1>1 DEF Events
<1>3. reactions' \in [Msgs -> Shown]
  BY <1>2, LessOK, MoreOK DEF HandleReaction, TypeOK
<1>4. Refresh(ev.msg)
  BY DEF HandleReaction
<1> HIDE DEF ev
<1> QED
  BY <1>1, <1>2, <1>3, <1>4, RefreshType DEF HandleReaction, TypeOK, budgets

LEMMA NewMessageType ==
    ASSUME TypeOK, NEW m \in Msgs, NEW pinned \in BOOLEAN, NewMessage(m, pinned)
    PROVE  TypeOK'
<1> DEFINE all == Append(order, m)
           gone == Overflow(Len(all), pinned)
<1>1. all \in Seq(Msgs) /\ Len(all) \in Nat
  BY DEF TypeOK
<1>2. gone \in 0..Len(all)
  BY <1>1, ReactionsAssumption DEF Overflow
<1>3. order' \in Seq(Msgs)
  <2>1. order' = SubSeq(all, gone + 1, Len(all))
    BY DEF NewMessage
  <2> HIDE DEF all, gone
  <2> QED
    BY <1>1, <1>2, <2>1
<1>4. reactions' \in [Msgs -> Shown]
  BY NoReactionsOK DEF NewMessage, TypeOK
<1>5. fetching' \subseteq Msgs /\ pending' \subseteq fetching' /\ fetching \subseteq fetching'
  BY RefreshType DEF NewMessage
<1>6. arrivals' \in 0..MaxArrivals
  BY ReactionsAssumption DEF NewMessage, TypeOK
<1>7. UNCHANGED <<inflight, writes, timers, destroyed, server, answers, events, excused,
                  clicks, changes, faults>>
  BY DEF NewMessage, serverVars
<1> HIDE DEF all, gone
<1> QED
  BY <1>3, <1>4, <1>5, <1>6, <1>7 DEF TypeOK

LEMMA NextType == TypeOK /\ [Next]_vars => TypeOK'
<1> SUFFICES ASSUME TypeOK, [Next]_vars PROVE TypeOK'
  OBVIOUS
<1>1. ASSUME NEW m \in Msgs, NEW user \in Users, NEW e \in Emojis, NEW op \in {"add", "remove"},
             OtherReacts(m, user, e, op)
      PROVE  TypeOK'
  BY <1>1, ServerTakesType, ReactionsAssumption DEF OtherReacts, TypeOK, mutableVars
<1>2. CASE EventIsLost
  <2>1. Head(events) \in Events /\ events' \in Seq(Events)
    BY <1>2 DEF EventIsLost, TypeOK
  <2>2. Head(events).msg \in Msgs
    BY <2>1 DEF Events
  <2> QED
    BY <1>2, <2>1, <2>2, ReactionsAssumption DEF EventIsLost, TypeOK, mutableVars
<1>3. CASE Destroy
  BY <1>3, NoReactionsOK DEF Destroy, TypeOK, budgets
<1>4. CASE UNCHANGED vars
  BY <1>4 DEF vars, mutableVars, serverVars, budgets, TypeOK
<1> QED
  BY <1>1, <1>2, <1>3, <1>4, SelectType, WriteType, RefreshStepType, RefreshResolvesType,
     HandleReactionType, NewMessageType DEF Next
-----------------------------------------------------------------------------
(* Locks and writes *)

\* An outstanding call goes on as another of the same click.
LEMMA SameClick ==
    ASSUME TypeOK, LockCoversWrites, OneWriteAtATime, NEW w \in writes, NEW w2,
           w2.msg = w.msg, writes' = (writes \ {w}) \cup {w2},
           UNCHANGED <<inflight, destroyed>>
    PROVE  LockCoversWrites' /\ OneWriteAtATime'
BY DEF LockCoversWrites, OneWriteAtATime

LEMMA EndOfClick ==
    ASSUME TypeOK, LockCoversWrites, OneWriteAtATime, NEW w \in writes, EndWrite(w),
           UNCHANGED destroyed
    PROVE  LockCoversWrites' /\ OneWriteAtATime'
BY DEF LockCoversWrites, OneWriteAtATime, EndWrite

LEMMA WritesAreRecords ==
    ASSUME TypeOK, NEW w \in writes
    PROVE  [w EXCEPT !.applied = TRUE].msg = w.msg
           /\ [w EXCEPT !.call = "send", !.emoji = w.to, !.applied = FALSE].msg = w.msg
BY DEF TypeOK, Writes

LEMMA LockStep ==
    ASSUME TypeOK, LockCoversWrites, OneWriteAtATime, [Next]_vars
    PROVE  LockCoversWrites' /\ OneWriteAtATime'
<1>1. ASSUME NEW m \in Msgs, NEW e \in Emojis, SelectReaction(m, e)
      PROVE  LockCoversWrites' /\ OneWriteAtATime'
  <2>1. PICK w2 : w2.msg = m /\ writes' = writes \cup {w2}
    BY <1>1, SelectType DEF StartWrite
  <2>2. m \notin inflight /\ inflight' = inflight \cup {m} /\ ~destroyed
    BY <1>1 DEF SelectReaction, Lock
  <2> QED
    BY <2>1, <2>2 DEF LockCoversWrites, OneWriteAtATime
<1>2. ASSUME NEW w \in writes, ServerAppliesWrite(w)
      PROVE  LockCoversWrites' /\ OneWriteAtATime'
  BY <1>2, SameClick, WritesAreRecords DEF ServerAppliesWrite
<1>3. ASSUME NEW w \in writes, SwapGoesOn(w)
      PROVE  LockCoversWrites' /\ OneWriteAtATime'
  BY <1>3, SameClick, WritesAreRecords DEF SwapGoesOn
<1>4. ASSUME NEW w \in writes, WriteSucceeds(w) \/ WriteFails(w) \/ WriteExpires(w)
      PROVE  LockCoversWrites' /\ OneWriteAtATime'
  BY <1>4, EndOfClick DEF WriteSucceeds, WriteFails, WriteExpires
<1>5. CASE Destroy
  BY <1>5 DEF Destroy, LockCoversWrites, OneWriteAtATime
<1>6. CASE UNCHANGED <<writes, inflight, destroyed>>
  BY <1>6 DEF LockCoversWrites, OneWriteAtATime
<1>7. ASSUME NEW m \in Msgs, NEW user \in Users, NEW e \in Emojis, NEW op \in {"add", "remove"},
             OtherReacts(m, user, e, op)
      PROVE  UNCHANGED <<writes, inflight, destroyed>>
  BY <1>7 DEF OtherReacts, mutableVars
<1>8. ASSUME NEW m \in Msgs, \/ ServerAnswersRefresh(m) \/ RefreshFails(m) \/ RollbackTimerFires(m)
                              \/ \E pinned \in BOOLEAN : NewMessage(m, pinned)
      PROVE  UNCHANGED <<writes, inflight, destroyed>>
  BY <1>8 DEF ServerAnswersRefresh, RefreshFails, RollbackTimerFires, NewMessage, mutableVars
<1>9. ASSUME \/ \E a \in answers : RefreshResolves(a)
             \/ EventIsLost \/ HandleReaction \/ UNCHANGED vars
      PROVE  UNCHANGED <<writes, inflight, destroyed>>
  BY <1>9 DEF RefreshResolves, EventIsLost, HandleReaction, vars, mutableVars
<1> QED
  BY <1>1, <1>2, <1>3, <1>4, <1>5, <1>6, <1>7, <1>8, <1>9 DEF Next
-----------------------------------------------------------------------------
(* Chips *)

LEMMA ChipsStep ==
    ASSUME TypeOK, ChipsInv, [Next]_vars
    PROVE  ChipsInv'
<1>1. ASSUME NEW m \in Msgs, NEW e \in Emojis, SelectReaction(m, e)
      PROVE  ChipsInv'
  <2>1. reactions[m] \in Shown /\ ChipsOK(reactions[m]) /\ Self \in Users
    BY ReactionsAssumption DEF TypeOK, ChipsInv
  <2>2. \E entry, w : /\ ChipsOK(entry) /\ reactions' = [reactions EXCEPT ![m] = entry]
                      /\ w.preSnapshot = reactions[m] /\ writes' = writes \cup {w}
    <3>1. CASE RouteAdd(m, e)
      BY <2>1, <3>1, MoreOK DEF RouteAdd, StartWrite
    <3>2. CASE RouteRemove(m, e)
      BY <2>1, <3>2, LessOK DEF RouteRemove, StartWrite
    <3>3. CASE \E from \in Emojis : RouteReplace(m, from, e)
      BY <2>1, <3>3, LessOK, MoreOK DEF RouteReplace, StartWrite
    <3> QED
      BY <1>1, <3>1, <3>2, <3>3 DEF SelectReaction
  <2> QED
    BY <2>1, <2>2 DEF ChipsInv, TypeOK
<1>2. ASSUME NEW w \in writes, ServerAppliesWrite(w) \/ SwapGoesOn(w)
      PROVE  ChipsInv'
  <2>1. \E w2 : w2.preSnapshot = w.preSnapshot /\ writes' = (writes \ {w}) \cup {w2}
    BY <1>2 DEF ServerAppliesWrite, SwapGoesOn, TypeOK, Writes
  <2>2. UNCHANGED reactions
    BY <1>2 DEF ServerAppliesWrite, SwapGoesOn
  <2> QED
    BY <2>1, <2>2 DEF ChipsInv
<1>3. ASSUME NEW w \in writes, WriteSucceeds(w) \/ WriteFails(w) \/ WriteExpires(w)
      PROVE  ChipsInv'
  <2>1. writes' \subseteq writes
    BY <1>3 DEF WriteSucceeds, WriteFails, WriteExpires, EndWrite
  <2>2. \/ UNCHANGED reactions
        \/ reactions' = [reactions EXCEPT ![w.msg] = w.preSnapshot]
    BY <1>3 DEF WriteSucceeds, WriteFails, WriteExpires
  <2> QED
    BY <2>1, <2>2 DEF ChipsInv, TypeOK
<1>4. ASSUME NEW a \in answers, RefreshResolves(a)
      PROVE  ChipsInv'
  BY <1>4, AggregateOK DEF RefreshResolves, ChipsInv, TypeOK
<1>5. CASE HandleReaction
  <2> DEFINE ev == Head(events)
  <2>1. ev \in Events
    BY <1>5 DEF HandleReaction, TypeOK
  <2>2. ev.msg \in Msgs /\ ev.user \in Users /\ ev.emoji \in Emojis
    BY <2>1 DEF Events
  <2>3. reactions[ev.msg] \in Shown /\ ChipsOK(reactions[ev.msg])
    BY <2>2 DEF TypeOK, ChipsInv
  <2>4. \E entry : ChipsOK(entry) /\ reactions' = [reactions EXCEPT ![ev.msg] = entry]
    BY <1>5, <2>2, <2>3, LessOK, MoreOK DEF HandleReaction
  <2>5. UNCHANGED writes
    BY <1>5 DEF HandleReaction
  <2> HIDE DEF ev
  <2> QED
    BY <2>2, <2>4, <2>5 DEF ChipsInv, TypeOK
<1>6. ASSUME NEW m \in Msgs, NEW pinned \in BOOLEAN, NewMessage(m, pinned)
      PROVE  ChipsInv'
  BY <1>6, NoReactionsOK DEF NewMessage, ChipsInv, TypeOK
<1>7. CASE Destroy
  BY <1>7, NoReactionsOK DEF Destroy, ChipsInv, TypeOK
<1>8. CASE UNCHANGED <<reactions, writes>>
  BY <1>8 DEF ChipsInv
<1>9. ASSUME \/ \E m \in Msgs : ServerAnswersRefresh(m) \/ RefreshFails(m) \/ RollbackTimerFires(m)
             \/ EventIsLost \/ UNCHANGED vars
             \/ \E m \in Msgs, user \in Users, e \in Emojis, op \in {"add", "remove"} :
                    OtherReacts(m, user, e, op)
      PROVE  UNCHANGED <<reactions, writes>>
  BY <1>9 DEF ServerAnswersRefresh, RefreshFails, RollbackTimerFires, EventIsLost, OtherReacts,
              vars, mutableVars
<1> QED
  BY <1>1, <1>2, <1>3, <1>4, <1>5, <1>6, <1>7, <1>8, <1>9 DEF Next
-----------------------------------------------------------------------------
(* Rows *)

\* What arrives takes the place of what is evicted at the other end.
LEMMA Eviction ==
    ASSUME TypeOK, DistinctRows, NEW m \in Msgs, NEW pinned \in BOOLEAN, NewMessage(m, pinned)
    PROVE  /\ DistinctRows'
           /\ \A x \in rows' : x # m => x \in rows /\ reactions'[x] = reactions[x]
<1> DEFINE all == Append(order, m)
           gone == Overflow(Len(all), pinned)
           n == Len(all)
<1>1. /\ order \in Seq(Msgs) /\ all \in Seq(Msgs) /\ n \in Nat /\ n = Len(order) + 1
      /\ all[n] = m /\ \A i \in 1..Len(order) : all[i] = order[i]
  BY DEF TypeOK
<1>2. gone \in 0..n
  BY <1>1, ReactionsAssumption DEF Overflow
<1>3. \A i, j \in 1..n : all[i] = all[j] => i = j
  <2>1. \A i \in 1..Len(order) : order[i] # m
    BY DEF NewMessage, rows
  <2>2. Len(order) \in Nat /\ \A i \in 1..n : i \in 1..Len(order) \/ i = n
    BY <1>1
  <2> HIDE DEF all, n
  <2> QED
    BY <1>1, <2>1, <2>2 DEF DistinctRows
<1>4. order' = SubSeq(all, gone + 1, n)
  BY DEF NewMessage
<1>5. \A x \in Msgs : (\A i \in 1..gone : all[i] # x) => reactions'[x] = reactions[x]
  BY DEF NewMessage
<1> HIDE DEF gone, all
<1>6. Len(order') = n - gone /\ \A i \in 1..(n - gone) : order'[i] = all[gone + i]
  <2>1. Len(order') = n - gone
    BY <1>1, <1>2, <1>4, SubSeqProperties
  <2>2. \A i \in 1..Len(order') : order'[i] = all[gone + i]
    BY <1>1, <1>2, <1>4, SubSeqProperties
  <2> QED
    BY <2>1, <2>2
<1> HIDE DEF n
<1>7. DistinctRows'
  BY <1>1, <1>2, <1>3, <1>6 DEF DistinctRows
<1>8. ASSUME NEW x \in rows', x # m
      PROVE  x \in rows /\ reactions'[x] = reactions[x]
  <2>1. PICK i \in 1..(n - gone) : x = all[gone + i]
    BY <1>6, <1>8 DEF rows
  <2>2. gone + i \in 1..n
    BY <1>1, <1>2
  <2>3. x \in Msgs /\ \A k \in 1..gone : all[k] # x
    BY <1>1, <1>2, <1>3, <2>1, <2>2
  <2>4. gone + i \in 1..Len(order)
    BY <1>1, <1>8, <2>1, <2>2
  <2> QED
    BY <1>1, <1>5, <2>1, <2>3, <2>4 DEF rows
<1> QED
  BY <1>7, <1>8

LEMMA RowsStep ==
    ASSUME TypeOK, DistinctRows, [Next]_vars
    PROVE  DistinctRows'
<1>1. CASE UNCHANGED order
  BY <1>1 DEF DistinctRows
<1>2. CASE Destroy
  BY <1>2 DEF Destroy, DistinctRows
<1>3. ASSUME \/ \E m \in Msgs : \/ ServerAnswersRefresh(m) \/ RefreshFails(m)
                               \/ RollbackTimerFires(m)
                               \/ \E e \in Emojis : SelectReaction(m, e)
             \/ \E w \in writes : \/ ServerAppliesWrite(w) \/ SwapGoesOn(w)
                                 \/ WriteSucceeds(w) \/ WriteFails(w) \/ WriteExpires(w)
             \/ \E a \in answers : RefreshResolves(a)
             \/ HandleReaction \/ EventIsLost \/ UNCHANGED vars
             \/ \E m \in Msgs, user \in Users, e \in Emojis, op \in {"add", "remove"} :
                    OtherReacts(m, user, e, op)
      PROVE  UNCHANGED order
  BY <1>3 DEF ServerAnswersRefresh, RefreshFails, RollbackTimerFires, SelectReaction,
              ServerAppliesWrite, SwapGoesOn, WriteSucceeds, WriteFails, WriteExpires,
              RefreshResolves, HandleReaction, EventIsLost, OtherReacts, vars, mutableVars
<1> QED
  BY <1>1, <1>2, <1>3, Eviction DEF Next
-----------------------------------------------------------------------------
(* Reconciliation *)

\* A message a step does not touch.
LEMMA Untouched ==
    ASSUME NEW m, Reconciled(m),
           reactions'[m] = reactions[m], server'[m] = server[m],
           EventPending(m) => EventPending(m)',
           FreshRefresh(m) => FreshRefresh(m)',
           m \in timers => m \in timers',
           EffectiveWrite(m) => EffectiveWrite(m)'
    PROVE  Reconciled(m)'
BY DEF Reconciled, ShowsServer

LEMMA SameEvents ==
    ASSUME NEW m, UNCHANGED events PROVE EventPending(m) <=> EventPending(m)'
BY DEF EventPending

LEMMA SameRefreshes ==
    ASSUME NEW m, UNCHANGED <<fetching, pending, answers>>, server'[m] = server[m]
    PROVE  FreshRefresh(m) => FreshRefresh(m)'
BY DEF FreshRefresh

\* Only a call that ends without an effect goes, or one of another message.
LEMMA SameWrites ==
    ASSUME NEW m, server'[m] = server[m],
           \A w \in writes : w \in writes' \/ w.applied \/ w.msg # m
    PROVE  EffectiveWrite(m) => EffectiveWrite(m)'
BY DEF EffectiveWrite

\* The event at the head of the stream is delivered or lost.
LEMMA NextEvent ==
    ASSUME TypeOK, events # <<>>, events' = Tail(events), NEW m, m # Head(events).msg
    PROVE  EventPending(m) => EventPending(m)'
<1> SUFFICES ASSUME NEW i \in 1..Len(events), events[i].msg = m
             PROVE  \E j \in 1..Len(events') : events'[j].msg = m
  BY DEF EventPending
<1>1. events \in Seq(Events)
  BY DEF TypeOK
<1>2. i # 1
  BY <1>1
<1>3. i - 1 \in 1..Len(events') /\ events'[i - 1] = events[i]
  BY <1>1, <1>2
<1> QED
  BY <1>3

\* A change at the server is announced.
LEMMA ServerAnnounces ==
    ASSUME TypeOK, ~destroyed, NEW mm \in Msgs, NEW user \in Users, NEW e \in Emojis,
           NEW op \in {"add", "remove"}, ServerTakes(mm, user, e, op)
    PROVE  /\ \A m : EventPending(m) => EventPending(m)'
           /\ \A m \in Msgs : m # mm => server'[m] = server[m]
           /\ \/ EventPending(mm)'
              \/ server' = server /\ (op = "add" <=> <<user, e>> \in server[mm])
<1> DEFINE ev == [msg |-> mm, user |-> user, emoji |-> e, op |-> op]
           after == IF op = "add" THEN server[mm] \cup {<<user, e>>} ELSE server[mm] \ {<<user, e>>}
<1>1. events \in Seq(Events) /\ ev \in Events /\ ev.msg = mm
  BY DEF TypeOK, Events
<1>2. server' = [server EXCEPT ![mm] = after]
  BY DEF ServerTakes
<1>3. after = server[mm] => server' = server /\ (op = "add" <=> <<user, e>> \in server[mm])
  BY <1>2 DEF TypeOK
<1>4. \/ after = server[mm] /\ events' = events
      \/ events' = Append(events, ev)
  BY DEF ServerTakes
<1> HIDE DEF ev, after
<1>5. ASSUME events' = Append(events, ev)
      PROVE  EventPending(mm)' /\ \A m : EventPending(m) => EventPending(m)'
  <2>1. /\ Len(events') = Len(events) + 1 /\ Len(events) \in Nat
        /\ events'[Len(events')] = ev
        /\ \A i \in 1..Len(events) : events'[i] = events[i]
    BY <1>1, <1>5
  <2>2. Len(events') \in 1..Len(events') /\ 1..Len(events) \subseteq 1..Len(events')
    BY <2>1
  <2> QED
    BY <1>1, <2>1, <2>2 DEF EventPending
<1> QED
  BY <1>1, <1>2, <1>3, <1>4, <1>5, SameEvents DEF TypeOK

\* A refresh asked for is not behind the server.
LEMMA RefreshIsFresh ==
    ASSUME TypeOK, NEW m \in Msgs, Refresh(m), UNCHANGED <<server, answers>>
    PROVE  /\ FreshRefresh(m)'
           /\ \A x : FreshRefresh(x) => FreshRefresh(x)'
           /\ pending \subseteq pending'
           /\ m \in fetching => m \in pending'
BY DEF TypeOK, Refresh, FreshRefresh

\* The end of one refresh leaves the others.
LEMMA RefreshEndsAlone ==
    ASSUME TypeOK, NEW m \in Msgs, RefreshEnds(m), UNCHANGED server
    PROVE  /\ \A x : x # m /\ FreshRefresh(x) => FreshRefresh(x)'
           /\ m \in pending => FreshRefresh(m)'
           /\ \A a \in answers' : a \in answers /\ a.msg # m
           /\ pending' = pending \ {m}
BY DEF TypeOK, RefreshEnds, FreshRefresh

\* A click whose effect the server does not have yet.
LEMMA SelectReconciles ==
    ASSUME IInv, NEW m \in Msgs, NEW e \in Emojis, SelectReaction(m, e)
    PROVE  ReconciledInv' /\ StaleIsRepeated'
<1>1. /\ UNCHANGED <<order, fetching, pending, timers, destroyed, server, answers, events, excused>>
      /\ ~destroyed
  BY DEF SelectReaction, serverVars
<1>2. PICK entry \in Shown, call \in {"send", "remove", "swap"}, f \in Emojis :
          /\ StartWrite(m, call, f, e, entry)
          /\ call = "send" <=> Self \notin reactions[m].users[f]
  BY SelectType DEF IInv
<1>3. \A x \in Msgs : x # m => reactions'[x] = reactions[x]
  BY <1>2 DEF StartWrite, IInv, TypeOK
<1>4. writes \subseteq writes'
  BY <1>2 DEF StartWrite
<1>5. \A x \in Msgs : EffectiveWrite(x) => EffectiveWrite(x)'
  BY <1>1, <1>4, SameWrites
<1>6. ShowsServer(m) => EffectiveWrite(m)'
  <2> SUFFICES ASSUME ShowsServer(m) PROVE EffectiveWrite(m)'
    OBVIOUS
  <2>1. \A g \in Emojis : Self \in reactions[m].users[g] <=> <<Self, g>> \in server[m]
    BY ReactionsAssumption DEF ShowsServer, Aggregate
  <2>2. \E w \in writes' : w.msg = m /\ ~w.applied /\ w.call = call /\ w.emoji = f
    <3> DEFINE w == [id |-> clicks + 1, msg |-> m, call |-> call, emoji |-> f, to |-> e,
                     applied |-> FALSE, preSnapshot |-> reactions[m]]
    <3>1. w.msg = m /\ ~w.applied /\ w.call = call /\ w.emoji = f
      OBVIOUS
    <3>2. w \in writes'
      BY <1>2 DEF StartWrite
    <3> HIDE DEF w
    <3> QED
      BY <3>1, <3>2
  <2> QED
    BY <1>1, <1>2, <2>1, <2>2 DEF EffectiveWrite
<1>7. \A x \in Msgs : Reconciled(x) => Reconciled(x)'
  <2> TAKE x \in Msgs
  <2>1. CASE x # m
    BY <1>1, <1>3, <1>5, <2>1, SameEvents, SameRefreshes, Untouched
  <2>2. CASE x = m
    BY <1>1, <1>5, <1>6, <2>2, SameEvents, SameRefreshes DEF Reconciled
  <2> QED
    BY <2>1, <2>2
<1>8. rows' = rows /\ rows \subseteq Msgs
  BY <1>1, RowsAreMsgs DEF rows, IInv
<1> QED
  BY <1>1, <1>7, <1>8, SameEvents DEF IInv, ReconciledInv, StaleIsRepeated

\* A change at the server, by a write or from elsewhere, while the list is mounted.
LEMMA ServerReconciles ==
    ASSUME IInv, ~destroyed, NEW m \in Msgs, NEW user \in Users, NEW e \in Emojis,
           NEW op \in {"add", "remove"}, ServerTakes(m, user, e, op),
           UNCHANGED <<order, reactions, fetching, pending, timers, destroyed, answers, excused>>,
           \A w \in writes : \/ w \in writes'
                             \/ w.msg = m /\ (w.call = "send" <=> op = "add")
                                /\ w.emoji = e /\ user = Self
    PROVE  ReconciledInv' /\ StaleIsRepeated'
<1>1. /\ \A x : EventPending(x) => EventPending(x)'
      /\ \A x \in Msgs : x # m => server'[x] = server[x]
      /\ \/ EventPending(m)'
         \/ server' = server /\ (op = "add" <=> <<user, e>> \in server[m])
  BY ServerAnnounces DEF IInv
<1>2. \A x \in Msgs : Reconciled(x) => Reconciled(x)'
  <2> SUFFICES ASSUME NEW x \in Msgs, Reconciled(x), ~EventPending(x)'
               PROVE  Reconciled(x)'
    BY DEF Reconciled
  <2>1. server'[x] = server[x]
    BY <1>1
  <2>2. EffectiveWrite(x) => EffectiveWrite(x)'
    BY <1>1, <2>1 DEF EffectiveWrite
  <2> QED
    BY <1>1, <2>1, <2>2, SameRefreshes, Untouched
<1>3. \A a \in answers : a.msg \in Msgs
  BY DEF IInv, TypeOK
<1>4. rows' = rows /\ rows \subseteq Msgs
  BY RowsAreMsgs DEF rows, IInv
<1> QED
  BY <1>1, <1>2, <1>3, <1>4 DEF IInv, ReconciledInv, StaleIsRepeated

\* The rest of a write.
LEMMA WriteReconciles ==
    ASSUME IInv, NEW w \in writes,
           \/ ServerAppliesWrite(w) \/ SwapGoesOn(w) \/ WriteSucceeds(w)
           \/ WriteFails(w) \/ WriteExpires(w)
    PROVE  ReconciledInv' /\ StaleIsRepeated'
<1>1. w \in Writes /\ w.msg \in Msgs /\ w.emoji \in Emojis
  BY DEF IInv, TypeOK, Writes
<1>2. CASE destroyed
  <2>1. UNCHANGED destroyed
    BY DEF ServerAppliesWrite, SwapGoesOn, WriteSucceeds, WriteFails, WriteExpires
  <2> QED
    BY <1>2, <2>1 DEF ReconciledInv, StaleIsRepeated
<1>3. CASE ~destroyed /\ ServerAppliesWrite(w)
  <2> DEFINE op == IF w.call = "send" THEN "add" ELSE "remove"
  <2>1. /\ ServerTakes(w.msg, Self, w.emoji, op)
        /\ op \in {"add", "remove"} /\ (w.call = "send" <=> op = "add")
        /\ UNCHANGED <<order, reactions, fetching, pending, timers, destroyed, answers, excused>>
        /\ \A w2 \in writes : w2 \in writes' \/ w2 = w
    BY <1>3 DEF ServerAppliesWrite
  <2> HIDE DEF op
  <2> QED
    BY <1>1, <1>3, <2>1, ServerReconciles, ReactionsAssumption
<1>4. ASSUME ~destroyed, ~ServerAppliesWrite(w) PROVE ReconciledInv' /\ StaleIsRepeated'
  <2>1. /\ UNCHANGED <<order, fetching, pending, destroyed, server, answers, events>>
        /\ \A x \in Msgs : x # w.msg => reactions'[x] = reactions[x]
        /\ timers \subseteq timers' /\ excused \subseteq excused'
    BY <1>1, <1>4 DEF SwapGoesOn, WriteSucceeds, WriteFails, WriteExpires, DelayRollback,
                      serverVars, IInv, TypeOK
  <2>2. \A w2 \in writes : w2 \in writes' \/ w2 = w
    BY <1>4 DEF SwapGoesOn, WriteSucceeds, WriteFails, WriteExpires, EndWrite
  <2>3. \/ w.applied /\ UNCHANGED reactions
        \/ w.msg \in excused'
        \/ w.msg \in timers'
    BY <1>4 DEF SwapGoesOn, WriteSucceeds, WriteFails, WriteExpires, DelayRollback
  <2>4. \A x \in Msgs : Reconciled(x) => Reconciled(x)' \/ x \in excused'
    <3> SUFFICES ASSUME NEW x \in Msgs, Reconciled(x), x \notin excused', x \notin timers'
                 PROVE  Reconciled(x)'
      BY DEF Reconciled
    <3>1. EffectiveWrite(x) => EffectiveWrite(x)'
      BY <2>1, <2>2, <2>3, SameWrites
    <3> QED
      BY <2>1, <2>3, <3>1, SameEvents, SameRefreshes, Untouched
  <2>5. rows' = rows /\ rows \subseteq Msgs
    BY <2>1, RowsAreMsgs DEF rows, IInv
  <2> QED
    BY <1>4, <2>1, <2>4, <2>5, SameEvents DEF IInv, ReconciledInv, StaleIsRepeated
<1> QED
  BY <1>2, <1>3, <1>4

LEMMA RefreshReconciles ==
    ASSUME IInv, NEW m \in Msgs,
           ServerAnswersRefresh(m) \/ RefreshFails(m) \/ RollbackTimerFires(m)
    PROVE  ReconciledInv' /\ StaleIsRepeated'
<1> USE DEF IInv
<1>1. /\ UNCHANGED <<order, reactions, writes, destroyed, server, events>>
      /\ excused \subseteq excused'
  BY DEF ServerAnswersRefresh, RefreshFails, RollbackTimerFires, mutableVars, serverVars
<1>2. timers \subseteq timers' \cup {m} /\ (timers \subseteq timers' \/ RollbackTimerFires(m))
  BY DEF ServerAnswersRefresh, RefreshFails, RollbackTimerFires, mutableVars
<1>3. CASE ServerAnswersRefresh(m)
  <2>1. \A x : FreshRefresh(x) => FreshRefresh(x)'
    BY <1>1, <1>3 DEF ServerAnswersRefresh, mutableVars, FreshRefresh
  <2>2. StaleIsRepeated'
    BY <1>1, <1>3, SameEvents DEF ServerAnswersRefresh, mutableVars, StaleIsRepeated
  <2>3. UNCHANGED <<timers, excused>>
    BY <1>3 DEF ServerAnswersRefresh, mutableVars
  <2> QED
    BY <1>1, <2>1, <2>2, <2>3, SameEvents, SameWrites, Untouched DEF ReconciledInv, rows
<1>4. CASE RefreshFails(m)
  <2>1. RefreshEnds(m) /\ m \in excused' /\ UNCHANGED timers
    BY <1>4 DEF RefreshFails
  <2>2. /\ \A x : x # m /\ FreshRefresh(x) => FreshRefresh(x)'
        /\ \A a \in answers' : a \in answers /\ a.msg # m
        /\ pending' = pending \ {m}
    BY <1>1, <2>1, RefreshEndsAlone
  <2>3. StaleIsRepeated'
    BY <1>1, <2>1, <2>2, SameEvents DEF StaleIsRepeated
  <2> QED
    BY <1>1, <2>1, <2>2, <2>3, SameEvents, SameWrites, Untouched DEF ReconciledInv, rows
<1>5. CASE RollbackTimerFires(m)
  <2>1. Refresh(m) /\ timers' = timers \ {m} /\ UNCHANGED <<answers, excused>>
    BY <1>5 DEF RollbackTimerFires, serverVars
  <2>2. /\ FreshRefresh(m)'
        /\ \A x : FreshRefresh(x) => FreshRefresh(x)'
        /\ pending \subseteq pending'
    BY <1>1, <2>1, RefreshIsFresh
  <2>3. StaleIsRepeated'
    BY <1>1, <2>1, <2>2, SameEvents DEF StaleIsRepeated
  <2>4. \A x \in Msgs : Reconciled(x) => Reconciled(x)'
    <3> TAKE x \in Msgs
    <3>1. CASE x = m
      BY <2>2, <3>1 DEF Reconciled
    <3>2. CASE x # m
      BY <1>1, <2>1, <2>2, <3>2, SameEvents, SameWrites, Untouched
    <3> QED
      BY <3>1, <3>2
  <2>5. rows' = rows /\ rows \subseteq Msgs
    BY <1>1, RowsAreMsgs DEF rows
  <2> QED
    BY <1>1, <2>1, <2>3, <2>4, <2>5 DEF ReconciledInv
<1> QED
  BY <1>3, <1>4, <1>5

LEMMA AnswerReconciles ==
    ASSUME IInv, NEW a \in answers, RefreshResolves(a)
    PROVE  ReconciledInv' /\ StaleIsRepeated'
<1> DEFINE m == a.msg
<1> USE DEF IInv
<1>1. m \in Msgs
  BY DEF TypeOK
<1>2. /\ UNCHANGED <<order, writes, timers, destroyed, server, events>>
      /\ RefreshEnds(m)
      /\ excused \ {m} \subseteq excused'
      /\ a.pairs # server[m] => UNCHANGED excused
  BY DEF RefreshResolves, budgets
<1>3. /\ \A x : x # m /\ FreshRefresh(x) => FreshRefresh(x)'
      /\ m \in pending => FreshRefresh(m)'
      /\ \A b \in answers' : b \in answers /\ b.msg # m
      /\ pending' = pending \ {m}
  BY <1>1, <1>2, RefreshEndsAlone
<1>4. StaleIsRepeated'
  BY <1>2, <1>3, SameEvents DEF StaleIsRepeated
<1>5. \A x \in Msgs : x # m => reactions'[x] = reactions[x]
  BY DEF RefreshResolves, TypeOK
<1>6. ASSUME ~destroyed, m \in rows, m \notin excused'
      PROVE  Reconciled(m)'
  <2>1. CASE a.pairs = server[m]
    <3>1. reactions'[m] = Aggregate(server[m])
      BY <1>1, <1>6, <2>1 DEF RefreshResolves, Wanted, TypeOK
    <3> QED
      BY <1>2, <3>1 DEF Reconciled, ShowsServer
  <2>2. CASE a.pairs # server[m]
    <3>1. m \in pending \/ EventPending(m)
      BY <1>2, <1>6, <2>2 DEF StaleIsRepeated
    <3> QED
      BY <1>2, <1>3, <3>1, SameEvents DEF Reconciled
  <2> QED
    BY <2>1, <2>2
<1>7. ASSUME NEW x \in Msgs, x # m, Reconciled(x)
      PROVE  Reconciled(x)'
  BY <1>2, <1>3, <1>5, <1>7, SameEvents, SameWrites, Untouched
<1>8. rows' = rows /\ rows \subseteq Msgs
  BY <1>2, RowsAreMsgs DEF rows
<1> HIDE DEF m
<1> QED
  BY <1>2, <1>4, <1>6, <1>7, <1>8 DEF ReconciledInv

\* An event is handled, or lost with the stream.
LEMMA EventReconciles ==
    ASSUME IInv, HandleReaction \/ EventIsLost
    PROVE  ReconciledInv' /\ StaleIsRepeated'
<1> SUFFICES ASSUME NEW m, m = Head(events).msg
             PROVE  ReconciledInv' /\ StaleIsRepeated'
  OBVIOUS
<1> USE DEF IInv
<1>1. /\ events # <<>> /\ events' = Tail(events)
      /\ UNCHANGED <<order, writes, timers, destroyed, server, answers>>
      /\ excused \subseteq excused'
  BY DEF HandleReaction, EventIsLost, mutableVars
<1>2. m \in Msgs
  <2>1. Head(events) \in Events
    BY <1>1 DEF TypeOK
  <2> QED
    BY <2>1 DEF Events
<1>3. \/ Refresh(m) /\ \A x \in Msgs : x # m => reactions'[x] = reactions[x]
      \/ m \in excused' /\ UNCHANGED <<reactions, fetching, pending>>
  BY DEF HandleReaction, EventIsLost, mutableVars, TypeOK
<1>4. \A x : x # m /\ EventPending(x) => EventPending(x)'
  BY <1>1, NextEvent
<1>5. /\ FreshRefresh(m)' \/ m \in excused'
      /\ \A x \in Msgs : FreshRefresh(x) => FreshRefresh(x)'
      /\ pending \subseteq pending'
      /\ m \in fetching => m \in pending' \/ m \in excused'
  BY <1>1, <1>2, <1>3, RefreshIsFresh, SameRefreshes
<1>6. \A x \in Msgs : x # m => reactions'[x] = reactions[x]
  BY <1>3
<1>7. \A b \in answers : b.msg \in fetching
  BY DEF TypeOK
<1>8. StaleIsRepeated'
  BY <1>1, <1>4, <1>5, <1>7 DEF StaleIsRepeated
<1>9. \A x \in Msgs : Reconciled(x) => Reconciled(x)' \/ x \in excused'
  <2> TAKE x \in Msgs
  <2>1. CASE x = m
    BY <1>5, <2>1 DEF Reconciled
  <2>2. CASE x # m
    BY <1>1, <1>4, <1>5, <1>6, <2>2, SameWrites, Untouched
  <2> QED
    BY <2>1, <2>2
<1>10. rows' = rows /\ rows \subseteq Msgs
  BY <1>1, RowsAreMsgs DEF rows
<1> QED
  BY <1>1, <1>8, <1>9, <1>10 DEF ReconciledInv

LEMMA ArrivalReconciles ==
    ASSUME IInv, NEW m \in Msgs, NEW pinned \in BOOLEAN, NewMessage(m, pinned)
    PROVE  ReconciledInv' /\ StaleIsRepeated'
<1> USE DEF IInv
<1>1. /\ UNCHANGED <<writes, timers, destroyed, server, answers, events, excused>>
      /\ Refresh(m)
  BY DEF NewMessage, serverVars
<1>2. \A x \in rows' : x # m => x \in rows /\ reactions'[x] = reactions[x]
  BY Eviction
<1>3. /\ FreshRefresh(m)'
      /\ \A x : FreshRefresh(x) => FreshRefresh(x)'
      /\ pending \subseteq pending'
  BY <1>1, RefreshIsFresh
<1>4. StaleIsRepeated'
  BY <1>1, <1>3, SameEvents DEF StaleIsRepeated
<1>5. ASSUME NEW x \in rows' \ excused', ~destroyed
      PROVE  Reconciled(x)'
  <2>1. CASE x = m
    BY <1>3, <2>1 DEF Reconciled
  <2>2. CASE x # m
    BY <1>1, <1>2, <1>3, <1>5, <2>2, SameEvents, SameWrites, Untouched DEF ReconciledInv
  <2> QED
    BY <2>1, <2>2
<1> QED
  BY <1>1, <1>4, <1>5 DEF ReconciledInv

LEMMA ReconciledStep ==
    ASSUME IInv, [Next]_vars
    PROVE  ReconciledInv' /\ StaleIsRepeated'
<1>1. ASSUME NEW m \in Msgs, NEW user \in Users, NEW e \in Emojis, NEW op \in {"add", "remove"},
             OtherReacts(m, user, e, op)
      PROVE  ReconciledInv' /\ StaleIsRepeated'
  BY <1>1, ServerReconciles DEF OtherReacts, mutableVars
<1>2. CASE Destroy
  BY <1>2 DEF Destroy, ReconciledInv, StaleIsRepeated
<1>3. CASE UNCHANGED vars
  BY <1>3 DEF vars, mutableVars, serverVars, IInv, ReconciledInv, Reconciled, ShowsServer,
              EventPending, FreshRefresh, EffectiveWrite, StaleIsRepeated, rows
<1> QED
  BY <1>1, <1>2, <1>3, SelectReconciles, WriteReconciles, RefreshReconciles, AnswerReconciles,
     EventReconciles, ArrivalReconciles DEF Next
-----------------------------------------------------------------------------
(* The theorems *)

LEMMA InitInv == Init => IInv
<1> SUFFICES ASSUME Init PROVE IInv
  OBVIOUS
<1>1. DistinctRows
  BY ReactionsAssumption DEF Init, DistinctRows
<1>2. writes = {} => LockCoversWrites /\ OneWriteAtATime
  BY DEF LockCoversWrites, OneWriteAtATime
<1>3. ChipsInv
  BY NoReactionsOK DEF Init, ChipsInv
<1>4. ReconciledInv /\ StaleIsRepeated
  BY DEF Init, ReconciledInv, Reconciled, FreshRefresh, StaleIsRepeated
<1> QED
  BY <1>1, <1>2, <1>3, <1>4, InitType DEF Init, IInv

LEMMA NextInv == IInv /\ [Next]_vars => IInv'
<1> SUFFICES ASSUME IInv, [Next]_vars PROVE IInv'
  OBVIOUS
<1>1. TypeOK'
  BY NextType DEF IInv
<1>2. DistinctRows'
  BY RowsStep DEF IInv
<1>3. LockCoversWrites' /\ OneWriteAtATime'
  BY LockStep DEF IInv
<1>4. ChipsInv'
  BY ChipsStep DEF IInv
<1>5. ReconciledInv' /\ StaleIsRepeated'
  BY ReconciledStep
<1> QED
  BY <1>1, <1>2, <1>3, <1>4, <1>5 DEF IInv

\* The invariant behind the theorems below.
THEOREM Invariant == Safety => []IInv
BY InitInv, NextInv, PTL DEF Safety

\* The list's state has its types: a note to refresh again only ever stands on
\* a refresh in flight, and only such a refresh has an answer
\* (#scheduleReactionRefresh).
THEOREM TypeCorrect == Safety => []TypeOK
<1>1. IInv => TypeOK
  BY DEF IInv
<1> QED
  BY <1>1, Invariant, PTL

\* Of the clicks on one message at most one has a server call outstanding: the
\* lock of #selectReaction covers the whole of its routed operation.
THEOREM OneWrite == Safety => []OneWriteAtATime
<1>1. IInv => OneWriteAtATime
  BY DEF IInv
<1> QED
  BY <1>1, Invariant, PTL

\* No chip counts more users than it lists, and a chip is there exactly when it
\* lists someone: #handleReaction, the #optimistic... updates, the rollback of
\* #handleWriteFailure and the refresh agree.
THEOREM Chips == Safety => []ChipsMatch
<1>1. IInv => ChipsMatch
  BY DEF IInv, ChipsInv, ChipsOK, ChipsMatch
<1> QED
  BY <1>1, Invariant, PTL

\* A message with nothing under way shows what the server holds, unless it is
\* excused: whatever changes at the server is announced, an event asks for a
\* refresh, and a refresh overtaken by a change is repeated.
THEOREM Settled == Safety => []SettledOnServer
<1>1. IInv => SettledOnServer
  <2> SUFFICES ASSUME IInv, ~destroyed, NEW m \in rows \ excused, Quiet(m)
               PROVE  ShowsServer(m)
    BY DEF SettledOnServer
  <2>1. Reconciled(m)
    BY DEF IInv, ReconciledInv
  <2>2. ~EventPending(m) /\ ~EffectiveWrite(m) /\ ~FreshRefresh(m) /\ m \notin timers
    BY DEF Quiet, EventPending, EffectiveWrite, FreshRefresh
  <2> QED
    BY <2>1, <2>2 DEF Reconciled
<1> QED
  BY <1>1, Invariant, PTL

\* After destroy() nothing writes #reactions but the rollback of a failed write:
\* the stream is left, and refreshes and timers look at #signal.
THEOREM Torndown == Safety => QuietAfterDestroy
<1> DEFINE P == destroyed /\ reactions' # reactions =>
                  \E w \in writes : reactions' = [reactions EXCEPT ![w.msg] = w.preSnapshot]
<1>1. [Next]_vars => [P]_vars
  <2> SUFFICES ASSUME Next, destroyed, reactions' # reactions
               PROVE  \E w \in writes : reactions' = [reactions EXCEPT ![w.msg] = w.preSnapshot]
    OBVIOUS
  <2>1. PICK w \in writes : \/ ServerAppliesWrite(w) \/ SwapGoesOn(w) \/ WriteSucceeds(w)
                            \/ WriteFails(w) \/ WriteExpires(w)
    BY DEF Next, OtherReacts, ServerAnswersRefresh, RefreshFails, RollbackTimerFires,
           SelectReaction, NewMessage, RefreshResolves, Wanted, EventIsLost, HandleReaction,
           Destroy, mutableVars
  <2>2. WriteFails(w)
    BY <2>1 DEF ServerAppliesWrite, SwapGoesOn, WriteSucceeds, WriteExpires
  <2> QED
    BY <2>2 DEF WriteFails
<1> HIDE DEF P
<1>2. [][Next]_vars => [][P]_vars
  BY <1>1, PTL
<1> QED
  BY <1>2 DEF Safety, QuietAfterDestroy, P
=============================================================================
