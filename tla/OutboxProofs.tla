---------------------------- MODULE OutboxProofs ----------------------------
(***************************************************************************)
(* Proofs about Outbox, for any messages, limits and numbers of reloads    *)
(* and faults: nothing that was stored is lost, nothing comes back, and no *)
(* text is sent before its turn.                                           *)
(***************************************************************************)
EXTENDS Outbox, SharedLemmas

Safety == Init /\ [][Next]_vars

-----------------------------------------------------------------------------
(* What the store's contents depend on *)

\* Only attachment messages are ever marked, dismissed or evicted, and the
\* flush's snapshot, however stale, has the ids and flags of entries.
OnlyAttachmentsFail ==
    /\ \A i \in DOMAIN store : IsFailed(store[i]) => store[i].id \in Attachments
    /\ \A i \in DOMAIN flush.todo :
            flush.todo[i].pendingAttachments => flush.todo[i].id \in Attachments
    /\ dismissed # User => dismissed \in abandoned \cap Attachments

\* The flush has an entry in hand, and deletes it for a reason.
FlushHasReason ==
    /\ flush.stage \in {"marking", "sending", "deleting"} => flush.todo # <<>>
    /\ flush.stage = "marking" => flush.todo[1].pendingAttachments
    /\ flush.stage = "deleting" => flush.todo[1].id \in server \cup refused

\* Before its enqueue transaction commits a message was never stored.
NotYetStored(m) ==
    \/ pc[m] \in {"idle", "sealing", "enqueueing", "placing"}
    \/ m \in Attachments /\ pc[m] = "queued"

\* A send deletes its entry for a reason, and each kind of message goes through
\* stages of its own.
SendHasReason ==
    \A m \in Messages :
        /\ pc[m] = "deleting" => m \in server
        /\ pc[m] = "scrapping" => m \in refused \cup (abandoned \cap Attachments)
        /\ pc[m] \in {"sealing", "enqueueing"} => m \in Texts
        /\ pc[m] \in {"placing", "uploading", "patching"} => m \in Attachments
        /\ m \in persisted => ~NotYetStored(m)

-----------------------------------------------------------------------------
(* What the order of the sends depends on *)

InLine(m) == \E k \in DOMAIN line : line[k] = m
InChain(m) == \E k \in DOMAIN chain : chain[k] = m
InQueue(m) == \E k \in DOMAIN idb : idb[k] = m

Before == {"idle", "sealing"}
Sending == {"placing", "uploading", "patching", "sending", "deleting", "scrapping"}

NoRepeats ==
    /\ \A i, j \in DOMAIN line : line[i] = line[j] => i = j
    /\ \A i, j \in DOMAIN chain : chain[i] = chain[j] => i = j

\* Who is in the line, in the chain and in the transaction queue.
Placed ==
    /\ \A k \in DOMAIN line : pc[line[k]] \notin Before
    /\ \A m \in Messages : pc[m] \in Settled \cup Before \/ InLine(m)
    /\ \A k \in DOMAIN chain : pc[chain[k]] \in Sending \cup {"queued"}
    /\ \A k \in DOMAIN chain : pc[chain[k]] \in Sending => k = 1
    /\ \A m \in Messages : pc[m] \in Sending \cup {"queued"} => InChain(m)
    /\ \A m \in Messages : pc[m] = "enqueueing" => InQueue(m)
    /\ \A k \in DOMAIN idb : idb[k] \in Messages => InLine(idb[k])

\* Enqueue transactions are requested in the order of the line.
QueueInOrder ==
    \A p, q \in DOMAIN idb, a, b \in DOMAIN line :
        /\ p < q /\ idb[p] = line[a] /\ idb[q] = line[b]
        /\ pc[line[a]] = "enqueueing" /\ pc[line[b]] = "enqueueing"
        => a < b

\* A text enters the chain behind everything before it in the line.
ChainInOrder ==
    \A a, b \in DOMAIN line, q \in DOMAIN chain :
        a < b /\ chain[q] = line[b] /\ line[b] \in Texts /\ pc[line[a]] \notin Settled
            => \E p \in DOMAIN chain : p < q /\ chain[p] = line[a]

StoreInv == OnlyAttachmentsFail /\ FlushHasReason /\ SendHasReason
OrderInv == NoRepeats /\ Placed /\ QueueInOrder /\ ChainInOrder
IInv == TypeOK /\ StoreInv /\ OrderInv

-----------------------------------------------------------------------------
(* Initially *)

LEMMA InitInv == Init => IInv
<1> SUFFICES ASSUME Init PROVE IInv
  OBVIOUS
<1> USE DEF Init
<1>1. TypeOK
  <2>1. pc \in [Messages -> Stage]
    BY DEF Stage, Settled
  <2>2. flush \in [stage : FlushStage, todo : Seq(Entry)]
    BY DEF NoFlush, FlushStage
  <2> QED
    BY <2>1, <2>2, RetriesAssumption DEF TypeOK, RetriesAssumption
<1>2. StoreInv
  BY DEF StoreInv, OnlyAttachmentsFail, FlushHasReason, SendHasReason, NotYetStored, NoFlush
<1>3. OrderInv
  BY DEF OrderInv, NoRepeats, Placed, QueueInOrder, ChainInOrder, Before, Sending, Settled
<1> QED
  BY <1>1, <1>2, <1>3 DEF IInv

\* An actor is of one kind.
LEMMA Actors ==
    /\ \A m \in Messages : m # Flush /\ m # User
    /\ \A m \in Texts : m \notin Attachments
    /\ Flush # User
BY ActorsAssumption DEF ActorsAssumption, Messages

-----------------------------------------------------------------------------
(* The store's operations *)

LEMMA WithoutEntries ==
    ASSUME TypeOK, NEW ids
    PROVE  /\ Without(ids) \in Seq(Entry)
           /\ \A i \in DOMAIN Without(ids) :
                \E j \in DOMAIN store : Without(ids)[i] = store[j] /\ store[j].id \notin ids
           /\ \A j \in DOMAIN store :
                store[j].id \notin ids => \E i \in DOMAIN Without(ids) : Without(ids)[i] = store[j]
<1> DEFINE keep == {i \in DOMAIN store : store[i].id \notin ids}
<1>1. store \in Seq(Entry) /\ keep \subseteq DOMAIN store
  BY DEF TypeOK
<1> HIDE DEF keep
<1>2. /\ Kept(store, keep) \in Seq(Entry)
      /\ \A i \in DOMAIN Kept(store, keep) : \E j \in keep : Kept(store, keep)[i] = store[j]
      /\ \A j \in keep : \E i \in DOMAIN Kept(store, keep) : Kept(store, keep)[i] = store[j]
  BY <1>1, KeptElements
<1>3. Without(ids) = Kept(store, keep)
  BY DEF Without, keep
<1>4. \A j : j \in keep <=> j \in DOMAIN store /\ store[j].id \notin ids
  BY DEF keep
<1> QED
  BY <1>2, <1>3, <1>4

LEMMA SnapshotEntries ==
    ASSUME TypeOK,
           NEW todo, todo = Kept(store, {i \in DOMAIN store : ~store[i].sendFailed})
    PROVE  /\ todo \in Seq(Entry)
           /\ \A i \in DOMAIN todo : \E j \in DOMAIN store : todo[i] = store[j]
<1> DEFINE keep == {i \in DOMAIN store : ~store[i].sendFailed}
<1>1. store \in Seq(Entry) /\ keep \subseteq DOMAIN store
  BY DEF TypeOK
<1>2. todo = Kept(store, keep)
  OBVIOUS
<1> HIDE DEF keep
<1>3. /\ Kept(store, keep) \in Seq(Entry)
      /\ \A i \in DOMAIN Kept(store, keep) : \E j \in keep : Kept(store, keep)[i] = store[j]
  BY <1>1, KeptElements
<1> QED
  BY <1>1, <1>2, <1>3

\* A patched entry is the entry with its fields set.
LEMMA UploadedEntries ==
    ASSUME TypeOK, NEW m
    PROVE  /\ Uploaded(m) \in Seq(Entry) /\ DOMAIN Uploaded(m) = DOMAIN store
           /\ \A i \in DOMAIN store :
                /\ Uploaded(m)[i].id = store[i].id
                /\ IsFailed(Uploaded(m)[i]) => IsFailed(store[i])
<1>1. store \in [1..Len(store) -> Entry] /\ Len(store) \in Nat /\ DOMAIN store = 1..Len(store)
  BY DEF TypeOK
<1>2. ASSUME NEW e \in Entry
      PROVE  /\ [e EXCEPT !.pendingAttachments = FALSE] \in Entry
             /\ [e EXCEPT !.pendingAttachments = FALSE].id = e.id
             /\ IsFailed([e EXCEPT !.pendingAttachments = FALSE]) => IsFailed(e)
  BY DEF Entry, IsFailed
<1>3. Uploaded(m) \in [1..Len(store) -> Entry]
  BY <1>1, <1>2 DEF Uploaded
<1> QED
  BY <1>1, <1>2, <1>3 DEF Uploaded

LEMMA MarkedEntries ==
    ASSUME TypeOK, NEW m
    PROVE  /\ MarkedFailed(m) \in Seq(Entry) /\ DOMAIN MarkedFailed(m) = DOMAIN store
           /\ \A i \in DOMAIN store :
                /\ MarkedFailed(m)[i].id = store[i].id
                /\ IsFailed(MarkedFailed(m)[i]) => IsFailed(store[i]) \/ store[i].id = m
<1>1. /\ store \in [1..Len(store) -> Entry] /\ Len(store) \in Nat /\ DOMAIN store = 1..Len(store)
      /\ clock \in Nat
  BY DEF TypeOK
<1>2. ASSUME NEW e \in Entry
      PROVE  /\ [e EXCEPT !.sendFailed = TRUE, !.at = clock] \in Entry
             /\ [e EXCEPT !.sendFailed = TRUE, !.at = clock].id = e.id
  BY <1>1 DEF Entry
<1>3. MarkedFailed(m) \in [1..Len(store) -> Entry]
  BY <1>1, <1>2 DEF MarkedFailed
<1>4. ASSUME NEW i \in DOMAIN store
      PROVE  /\ MarkedFailed(m)[i].id = store[i].id
             /\ MarkedFailed(m)[i] = store[i] \/ store[i].id = m
  BY <1>1, <1>2 DEF MarkedFailed
<1> QED
  BY <1>1, <1>3, <1>4

LEMMA EnqueuedEntries ==
    ASSUME TypeOK, NEW m \in Messages
    PROVE  /\ Enqueued(m) \in Seq(Entry)
           /\ \A i \in DOMAIN store : i \in DOMAIN Enqueued(m) /\ Enqueued(m)[i] = store[i]
           /\ \A i \in DOMAIN Enqueued(m) :
                \/ i \in DOMAIN store /\ Enqueued(m)[i] = store[i]
                \/ /\ Enqueued(m)[i].id = m
                   /\ IsFailed(Enqueued(m)[i]) => m \in Attachments
           /\ \E i \in DOMAIN Enqueued(m) : Enqueued(m)[i].id = m
<1> DEFINE e == [id |-> m, pendingAttachments |-> m \in Attachments,
                 sendFailed |-> FALSE, at |-> IF m \in Attachments THEN clock ELSE 0]
<1>1. store \in Seq(Entry) /\ clock \in Nat
  BY DEF TypeOK
<1>2. (m \in Attachments) \in BOOLEAN /\ (IF m \in Attachments THEN clock ELSE 0) \in Nat
  BY <1>1
<1>3. e \in Entry /\ e.id = m /\ (IsFailed(e) => m \in Attachments)
  BY <1>2 DEF Entry, IsFailed
<1>4. Enqueued(m) = Append(store, e)
  BY DEF Enqueued
<1> HIDE DEF e
<1>5. /\ Append(store, e) \in Seq(Entry)
      /\ DOMAIN Append(store, e) = 1..(Len(store) + 1) /\ DOMAIN store = 1..Len(store)
      /\ Len(store) \in Nat
      /\ \A i \in 1..Len(store) : Append(store, e)[i] = store[i]
      /\ Append(store, e)[Len(store) + 1] = e
  BY <1>1, <1>3, Appended
<1>6. \A i \in DOMAIN Append(store, e) : i \in DOMAIN store \/ i = Len(store) + 1
  BY <1>5
<1>7. Len(store) + 1 \in DOMAIN Append(store, e)
  BY <1>5
<1> QED
  BY <1>3, <1>4, <1>5, <1>6, <1>7

-----------------------------------------------------------------------------
(* Types *)

Actor == Messages \cup {Flush, User}

LEMMA FlushTypes ==
    ASSUME TypeOK, NEW todo \in Seq(Entry), NEW rest \in Seq(Actor), FlushGoesOn(todo, rest)
    PROVE  /\ flush' \in [stage : FlushStage, todo : Seq(Entry)]
           /\ idb' \in Seq(Actor)
           /\ idb' = rest \/ idb' = Append(rest, Flush)
           /\ flush'.stage = "pruning" \/ (flush'.todo = todo /\ todo # <<>>)
           /\ flush'.stage # "deleting"
           /\ flush'.stage = "marking" => todo[1].pendingAttachments
           /\ flush'.todo = todo
<1>1. Flush \in Actor
  BY DEF Actor
<1>2. Append(rest, Flush) \in Seq(Actor)
  BY <1>1
<1>3. idb' = rest \/ idb' = Append(rest, Flush)
  BY DEF FlushGoesOn
<1>4. PICK stage \in {"pruning", "marking", "sending"} :
        /\ flush' = [stage |-> stage, todo |-> todo]
        /\ stage = "pruning" \/ todo # <<>>
        /\ stage = "marking" => todo[1].pendingAttachments
  BY DEF FlushGoesOn
<1>5. flush' \in [stage : FlushStage, todo : Seq(Entry)]
  BY <1>4 DEF FlushStage
<1> QED
  BY <1>2, <1>3, <1>4, <1>5

\* A send that is under way is at the head of the chain.
LEMMA SendingHeadsChain ==
    ASSUME TypeOK, Placed, NEW m \in Messages, pc[m] \in Sending
    PROVE  /\ chain # <<>> /\ Head(chain) = m /\ chain[1] = m /\ Tail(chain) \in Seq(Messages)
           /\ DOMAIN chain = 1..Len(chain) /\ Len(chain) \in Nat \ {0}
<1>1. chain \in Seq(Messages)
  BY DEF TypeOK
<1>2. PICK k \in DOMAIN chain : chain[k] = m
  BY DEF Placed, InChain
<1>3. k = 1
  BY <1>2 DEF Placed
<1> QED
  BY <1>1, <1>2, <1>3

LEMMA GoesTypes ==
    ASSUME TypeOK, NEW m \in Messages, NEW stage \in Stage, Goes(m, stage)
    PROVE  /\ pc' \in [Messages -> Stage]
           /\ pc'[m] = stage
           /\ \A n \in Messages : n # m => pc'[n] = pc[n]
BY DEF Goes, TypeOK

LEMMA RequestTypes ==
    ASSUME TypeOK, NEW a \in Actor, Request(a)
    PROVE  idb' \in Seq(Actor)
BY DEF Request, TypeOK, Actor

LEMMA FaultTypes ==
    ASSUME TypeOK, Fault
    PROVE  faults' \in 0..MaxFaults
BY RetriesAssumption DEF RetriesAssumption, Fault, TypeOK

\* The steps of a send that are not transactions.
LEMMA SendTypes ==
    ASSUME IInv, NEW m \in Messages,
           \/ CallText(m) \/ CallAttachment(m) \/ SendStep(m) \/ ServerAccepts(m)
           \/ ServerRefuses(m) \/ SendFails(m) \/ Dismiss(m)
    PROVE  TypeOK'
<1>0. /\ TypeOK /\ Placed /\ m \in Actor /\ User \in Actor
      /\ {"sealing", "enqueueing", "queued", "sending", "placing", "patching", "scrapping",
          "deleting", "gaveUp"} \subseteq Stage
  BY DEF IInv, OrderInv, Actor, Stage, Transacting, Settled
<1>a. Append(line, m) \in Seq(Messages) /\ Append(chain, m) \in Seq(Messages)
  BY <1>0 DEF TypeOK
<1>b. 0 \in 0..(MAX_RETRIES - 1)
  BY RetriesAssumption DEF RetriesAssumption
<1> USE DEF Actor
<1>1. CASE CallText(m)
  <2>1. pc' \in [Messages -> Stage]
    BY <1>0, <1>1, GoesTypes DEF CallText
  <2> QED
    BY <1>0, <1>1, <2>1 DEF TypeOK, CallText, historyVars
<1>2. CASE CallAttachment(m)
  <2>1. pc' \in [Messages -> Stage]
    BY <1>0, <1>2, GoesTypes DEF CallAttachment
  <2> QED
    BY <1>0, <1>a, <1>2, <2>1 DEF TypeOK, CallAttachment, historyVars
<1>3. CASE SealSettles(m)
  <2>1. pc' \in [Messages -> Stage] /\ idb' \in Seq(Actor)
    BY <1>0, <1>3, GoesTypes, RequestTypes DEF SealSettles
  <2> QED
    BY <1>0, <1>a, <1>3, <2>1 DEF TypeOK, SealSettles
<1>4. CASE StartSend(m)
  <2>1. pc' \in [Messages -> Stage] /\ idb' \in Seq(Actor)
    BY <1>0, <1>4, GoesTypes, RequestTypes DEF StartSend, TypeOK
  <2> QED
    BY <1>0, <1>b, <1>4, <2>1 DEF TypeOK, StartSend, historyVars
<1>5. CASE UploadSettles(m)
  <2>1. pc' \in [Messages -> Stage] /\ idb' \in Seq(Actor)
    BY <1>0, <1>5, GoesTypes, RequestTypes DEF UploadSettles
  <2>2. faults' \in 0..MaxFaults /\ abandoned' \subseteq Messages
    BY <1>0, <1>5, FaultTypes DEF UploadSettles, TypeOK
  <2> QED
    BY <1>0, <1>5, <2>1, <2>2 DEF TypeOK, UploadSettles
<1>6. CASE SendSucceeds(m)
  <2>1. pc' \in [Messages -> Stage] /\ idb' \in Seq(Actor)
    BY <1>0, <1>6, GoesTypes, RequestTypes DEF SendSucceeds
  <2> QED
    BY <1>0, <1>6, <2>1 DEF TypeOK, SendSucceeds, historyVars
<1>7. CASE SendRefused(m)
  <2>1. pc' \in [Messages -> Stage] /\ idb' \in Seq(Actor)
    BY <1>0, <1>7, GoesTypes, RequestTypes DEF SendRefused
  <2> QED
    BY <1>0, <1>7, <2>1 DEF TypeOK, SendRefused, historyVars
<1>8. CASE ServerAccepts(m)
  BY <1>0, <1>8 DEF TypeOK, ServerAccepts, historyVars, sendVars
<1>9. CASE ServerRefuses(m)
  BY <1>0, <1>9 DEF TypeOK, ServerRefuses, historyVars, sendVars
<1>10. CASE SendFails(m)
  <2>1. faults' \in 0..MaxFaults
    BY <1>0, <1>10, FaultTypes DEF SendFails
  <2>2. Tail(chain) \in Seq(Messages)
    BY <1>0, <1>10, SendingHeadsChain DEF SendFails, Sending
  <2>3. pc' \in [Messages -> Stage]
    BY <1>0, <1>10, GoesTypes DEF SendFails, TypeOK
  <2>4. chain' \in Seq(Messages)
    BY <1>0, <1>10, <2>2 DEF SendFails, TypeOK
  <2>5. attempt' \in 0..(MAX_RETRIES - 1)
    BY <1>0, <1>b, <1>10, RetriesAssumption DEF SendFails, TypeOK, RetriesAssumption
  <2> QED
    BY <1>0, <1>10, <2>1, <2>3, <2>4, <2>5 DEF TypeOK, SendFails, historyVars
<1>11. CASE Dismiss(m)
  <2>1. idb' \in Seq(Actor)
    BY <1>0, <1>11, RequestTypes DEF Dismiss
  <2> QED
    BY <1>0, <1>11, <2>1 DEF TypeOK, Dismiss, sendVars
<1> QED
  BY <1>1, <1>2, <1>3, <1>4, <1>5, <1>6, <1>7, <1>8, <1>9, <1>10, <1>11 DEF SendStep

LEMMA FlushStepTypes ==
    ASSUME IInv, FlushCalled \/ FlushScrubs \/ FlushSkips
    PROVE  TypeOK'
<1>0. TypeOK /\ FlushHasReason /\ Flush \in Actor
  BY DEF IInv, StoreInv, Actor
<1>1. CASE FlushCalled
  <2>1. idb' \in Seq(Actor) /\ <<>> \in Seq(Entry)
    BY <1>0, <1>1, RequestTypes DEF FlushCalled
  <2> QED
    BY <1>0, <1>1, <2>1 DEF TypeOK, FlushCalled, sendVars, historyVars, FlushStage, Actor
<1>2. CASE FlushScrubs
  <2>1. idb' \in Seq(Actor)
    BY <1>0, <1>2, RequestTypes DEF FlushScrubs
  <2>2. flush' \in [stage : FlushStage, todo : Seq(Entry)]
    BY <1>0, <1>2 DEF FlushScrubs, FlushStage, TypeOK
  <2> QED
    BY <1>0, <1>2, <2>1, <2>2 DEF TypeOK, FlushScrubs, sendVars, historyVars, Actor
<1>3. CASE FlushSkips
  <2>1. Tail(flush.todo) \in Seq(Entry) /\ idb \in Seq(Actor)
    BY <1>0, <1>3 DEF FlushSkips, FlushSends, FlushHasReason, TypeOK, Actor
  <2>2. flush' \in [stage : FlushStage, todo : Seq(Entry)] /\ idb' \in Seq(Actor)
    BY <1>0, <1>3, <2>1, FlushTypes DEF FlushSkips
  <2>3. faults' \in 0..MaxFaults
    BY <1>0, <1>3, FaultTypes DEF FlushSkips
  <2>4. stumbled' \subseteq Messages
    <3>1. flush.todo \in Seq(Entry) /\ flush.todo # <<>>
      BY <1>0, <1>3 DEF FlushSkips, FlushSends, FlushHasReason, TypeOK
    <3>2. flush.todo[1] \in Entry
      BY <3>1, TailOf
    <3>3. flush.todo[1].id \in Messages
      BY <3>2 DEF Entry
    <3> QED
      BY <1>0, <1>3, <3>3 DEF FlushSkips, TypeOK
  <2> QED
    BY <1>0, <1>3, <2>2, <2>3, <2>4 DEF TypeOK, FlushSkips, sendVars, Actor
<1> QED
  BY <1>1, <1>2, <1>3

\* A transaction of a message's send, and what it is about.
LEMMA SendTransactionTypes ==
    ASSUME IInv, NEW m \in Messages, NEW commits \in BOOLEAN, SendTransaction(m, commits),
           faults' \in 0..MaxFaults
    PROVE  TypeOK'
<1>0. /\ TypeOK /\ Placed /\ idb \in Seq(Actor) /\ idb # <<>> /\ store \in Seq(Entry)
      /\ {"uploading", "queued", "sending", "succeeded", "failed"} \subseteq Stage
  BY DEF IInv, OrderInv, Actor, Stage, Transacting, Settled, SendTransaction, TypeOK
<1>1. idb' \in Seq(Actor)
  BY <1>0, TailOf DEF SendTransaction
<1>2. CASE Enqueues(m, commits)
  <2>1. store' \in Seq(Entry) /\ persisted' \subseteq Messages
    BY <1>0, <1>2, EnqueuedEntries DEF Enqueues, TypeOK
  <2>2. pc' \in [Messages -> Stage] /\ clock' \in Nat
    BY <1>0, <1>2, GoesTypes DEF Enqueues, TypeOK
  <2>3. chain' \in Seq(Messages)
    <3>1. chain \in Seq(Messages) /\ Append(chain, m) \in Seq(Messages)
      BY <1>0 DEF TypeOK
    <3> QED
      BY <1>2, <3>1 DEF Enqueues
  <2> QED
    BY <1>0, <1>1, <1>2, <2>1, <2>2, <2>3 DEF TypeOK, SendTransaction, Enqueues, Actor
<1>3. CASE Patches(m, commits)
  <2>1. store' \in Seq(Entry)
    BY <1>0, <1>3, UploadedEntries DEF Patches
  <2>2. pc' \in [Messages -> Stage]
    BY <1>0, <1>3, GoesTypes DEF Patches
  <2> QED
    BY <1>0, <1>1, <1>3, <2>1, <2>2 DEF TypeOK, SendTransaction, Patches, Actor
<1>4. CASE Deletes(m, commits)
  <2>1. store' \in Seq(Entry)
    BY <1>0, <1>4, WithoutEntries DEF Deletes, Dequeued
  <2>2. pc' \in [Messages -> Stage]
    BY <1>0, <1>4, GoesTypes DEF Deletes
  <2>3. chain' \in Seq(Messages)
    BY <1>0, <1>4, SendingHeadsChain DEF Deletes, Sending
  <2>4. attempt' \in 0..(MAX_RETRIES - 1)
    BY <1>4, RetriesAssumption DEF RetriesAssumption, Deletes
  <2> QED
    BY <1>0, <1>1, <1>4, <2>1, <2>2, <2>3, <2>4 DEF TypeOK, SendTransaction, Deletes, Actor
<1> QED
  BY <1>2, <1>3, <1>4 DEF SendTransaction

LEMMA FlushTransactionTypes ==
    ASSUME IInv, NEW commits \in BOOLEAN, FlushTransaction(commits), faults' \in 0..MaxFaults
    PROVE  TypeOK'
<1>0. /\ TypeOK /\ FlushHasReason /\ idb \in Seq(Actor) /\ idb # <<>> /\ store \in Seq(Entry)
      /\ flush.todo \in Seq(Entry) /\ clock \in Nat
  BY DEF IInv, StoreInv, Actor, FlushTransaction, TypeOK
<1>1. Tail(idb) \in Seq(Actor)
  BY <1>0, TailOf
<1>2. flush.stage \in {"marking", "deleting"} => Tail(flush.todo) \in Seq(Entry)
  BY <1>0, TailOf DEF FlushHasReason
<1>3. CASE FlushReads(commits)
  <2>1. <<>> \in Seq(Entry)
    OBVIOUS
  <2>2. PICK todo \in Seq(Entry) : FlushGoesOn(todo, Tail(idb))
    BY <1>0, <1>3, <2>1, SnapshotEntries DEF FlushReads
  <2>3. flush' \in [stage : FlushStage, todo : Seq(Entry)] /\ idb' \in Seq(Actor)
    BY <1>0, <1>1, <2>2, FlushTypes
  <2> QED
    BY <1>0, <1>3, <2>3 DEF TypeOK, FlushTransaction, FlushReads, Actor, sendVars
<1>4. CASE FlushMarks(commits)
  <2>1. flush' \in [stage : FlushStage, todo : Seq(Entry)] /\ idb' \in Seq(Actor)
    BY <1>0, <1>1, <1>2, <1>4, FlushTypes DEF FlushMarks
  <2>2. store' \in Seq(Entry)
    BY <1>0, <1>4, MarkedEntries DEF FlushMarks
  <2> QED
    BY <1>0, <1>4, <2>1, <2>2 DEF TypeOK, FlushTransaction, FlushMarks, Actor, sendVars
<1>5. CASE FlushDeletes(commits)
  <2>1. flush' \in [stage : FlushStage, todo : Seq(Entry)] /\ idb' \in Seq(Actor)
    BY <1>0, <1>1, <1>2, <1>5, FlushTypes DEF FlushDeletes
  <2>2. store' \in Seq(Entry)
    BY <1>0, <1>5, WithoutEntries DEF FlushDeletes, Dequeued
  <2> QED
    BY <1>0, <1>5, <2>1, <2>2 DEF TypeOK, FlushTransaction, FlushDeletes, Actor, sendVars
<1>6. CASE FlushPrunes(commits)
  <2>1. store' \in Seq(Entry) /\ <<>> \in Seq(Entry)
    BY <1>0, <1>6, WithoutEntries DEF FlushPrunes
  <2>2. Evicted \subseteq Messages
    <3>1. \A i \in DOMAIN store : store[i] \in Entry
      BY <1>0
    <3>2. \A e \in Entry : e.id \in Messages
      BY DEF Entry
    <3> QED
      BY <3>1, <3>2 DEF Evicted, Failed
  <2> QED
    BY <1>0, <1>1, <1>6, <2>1, <2>2
       DEF TypeOK, FlushTransaction, FlushPrunes, Actor, sendVars, NoFlush, FlushStage
<1> QED
  BY <1>3, <1>4, <1>5, <1>6 DEF FlushTransaction

LEMMA UserTransactionTypes ==
    ASSUME IInv, NEW commits \in BOOLEAN, UserTransaction(commits), faults' \in 0..MaxFaults
    PROVE  TypeOK'
<1>0. TypeOK /\ idb \in Seq(Actor) /\ idb # <<>> /\ store \in Seq(Entry)
  BY DEF IInv, Actor, UserTransaction, TypeOK
<1>1. idb' \in Seq(Actor)
  BY <1>0, TailOf DEF UserTransaction
<1>2. store' \in Seq(Entry)
  BY <1>0, WithoutEntries DEF UserTransaction, Dequeued
<1> QED
  BY <1>0, <1>1, <1>2 DEF TypeOK, UserTransaction, sendVars, historyVars, Actor

LEMMA TransactionTypes ==
    ASSUME IInv, NEW commits \in BOOLEAN, Transaction(commits), faults' \in 0..MaxFaults
    PROVE  TypeOK'
BY SendTransactionTypes, FlushTransactionTypes, UserTransactionTypes DEF Transaction

LEMMA ReloadTypes == ASSUME IInv, Reload PROVE TypeOK'
<1>0. TypeOK
  BY DEF IInv
<1>1. pc' \in [Messages -> Stage]
  BY <1>0 DEF Reload, TypeOK, Stage, Settled
<1>2. reloads' \in 0..MaxReloads
  BY <1>0, RetriesAssumption DEF RetriesAssumption, Reload, TypeOK
<1>3. 0 \in 0..(MAX_RETRIES - 1)
  BY RetriesAssumption DEF RetriesAssumption
<1>4. flush' \in [stage : FlushStage, todo : Seq(Entry)]
  BY DEF Reload, NoFlush, FlushStage
<1>5. idb' \in Seq(Actor) /\ chain' \in Seq(Messages)
  BY DEF Reload
<1> QED
  BY <1>0, <1>1, <1>2, <1>3, <1>4, <1>5 DEF TypeOK, Reload, historyVars, Actor

LEMMA NextTypes == ASSUME IInv, [Next]_vars PROVE TypeOK'
<1>1. CASE Next
  <2>1. CASE Commits
    <3>1. faults' \in 0..MaxFaults
      BY <2>1 DEF Commits, IInv, TypeOK
    <3> QED
      BY <2>1, <3>1, TransactionTypes DEF Commits
  <2>2. CASE StorageFails
    <3>1. faults' \in 0..MaxFaults
      BY <2>2, FaultTypes DEF StorageFails, IInv
    <3> QED
      BY <2>2, <3>1, TransactionTypes DEF StorageFails
  <2> QED
    BY <1>1, <2>1, <2>2, SendTypes, FlushStepTypes, ReloadTypes DEF Next
<1>2. CASE UNCHANGED vars
  BY <1>2 DEF IInv, TypeOK, vars, sendVars, historyVars
<1> QED
  BY <1>1, <1>2

-----------------------------------------------------------------------------
(* What is removed was disposed of *)

LEMMA StageOfOne ==
    ASSUME TypeOK, SendHasReason, NEW m \in Messages, NEW stage \in Stage, Goes(m, stage),
           server \subseteq server', refused \subseteq refused', abandoned \subseteq abandoned',
           persisted' \subseteq persisted \cup {m},
           stage = "deleting" => m \in server',
           stage = "scrapping" => m \in refused' \cup (abandoned' \cap Attachments),
           stage \in {"sealing", "enqueueing"} => m \in Texts,
           stage \in {"placing", "uploading", "patching"} => m \in Attachments,
           m \in persisted' => /\ stage \notin {"idle", "sealing", "enqueueing", "placing"}
                               /\ ~(m \in Attachments /\ stage = "queued")
    PROVE  SendHasReason'
<1>1. /\ pc'[m] = stage
      /\ \A n \in Messages : n # m => pc'[n] = pc[n]
  BY GoesTypes
<1> SUFFICES ASSUME NEW n \in Messages
             PROVE  /\ pc'[n] = "deleting" => n \in server'
                    /\ pc'[n] = "scrapping" => n \in refused' \cup (abandoned' \cap Attachments)
                    /\ pc'[n] \in {"sealing", "enqueueing"} => n \in Texts
                    /\ pc'[n] \in {"placing", "uploading", "patching"} => n \in Attachments
                    /\ n \in persisted' => ~NotYetStored(n)'
  BY DEF SendHasReason
<1>2. CASE n = m
  BY <1>1, <1>2 DEF NotYetStored
<1>3. CASE n # m
  BY <1>1, <1>3 DEF NotYetStored, SendHasReason
<1> QED
  BY <1>2, <1>3

LEMMA SendReasons ==
    ASSUME IInv, NEW m \in Messages,
           \/ CallText(m) \/ CallAttachment(m) \/ SendStep(m) \/ ServerAccepts(m)
           \/ ServerRefuses(m) \/ SendFails(m) \/ Dismiss(m)
    PROVE  StoreInv'
<1>0. /\ TypeOK /\ SendHasReason /\ FlushHasReason /\ OnlyAttachmentsFail
      /\ {"sealing", "enqueueing", "queued", "sending", "placing", "patching", "scrapping",
          "deleting", "gaveUp"} \subseteq Stage
      /\ m \in Texts \/ m \in Attachments
  BY DEF IInv, StoreInv, Stage, Transacting, Settled, Messages
<1>1. OnlyAttachmentsFail'
  <2>1. CASE Dismiss(m)
    <3>1. m \in Attachments
      BY <1>0, <2>1 DEF Dismiss, Failed, OnlyAttachmentsFail
    <3> QED
      BY <1>0, <2>1, <3>1 DEF Dismiss, OnlyAttachmentsFail, IsFailed
  <2>2. CASE ~Dismiss(m)
    <3>1. UNCHANGED <<store, flush, dismissed>> /\ abandoned \subseteq abandoned'
      BY <2>2 DEF CallText, CallAttachment, SendStep, SealSettles, StartSend, UploadSettles,
                  SendSucceeds, SendRefused, ServerAccepts, ServerRefuses, SendFails, historyVars
    <3> QED
      BY <1>0, <3>1 DEF OnlyAttachmentsFail, IsFailed
  <2> QED
    BY <2>1, <2>2
<1>2. FlushHasReason'
  <2>1. UNCHANGED flush /\ server \subseteq server' /\ refused \subseteq refused'
    BY DEF CallText, CallAttachment, SendStep, SealSettles, StartSend, UploadSettles,
           SendSucceeds, SendRefused, ServerAccepts, ServerRefuses, SendFails, Dismiss
  <2> QED
    BY <1>0, <2>1 DEF FlushHasReason
<1>3. SendHasReason'
  <2>1. CASE CallText(m)
    BY <1>0, <2>1, StageOfOne DEF CallText, historyVars, SendHasReason, NotYetStored
  <2>2. CASE CallAttachment(m)
    BY <1>0, <2>2, StageOfOne, Actors DEF CallAttachment, SendHasReason, NotYetStored
  <2>3. CASE SealSettles(m)
    BY <1>0, <2>3, StageOfOne DEF SealSettles, SendHasReason, NotYetStored
  <2>4. CASE StartSend(m)
    <3>1. CASE m \in Texts
      BY <1>0, <2>4, <3>1, StageOfOne, Actors DEF StartSend, historyVars, SendHasReason, NotYetStored
    <3>2. CASE m \in Attachments
      BY <1>0, <2>4, <3>2, StageOfOne, Actors DEF StartSend, historyVars, SendHasReason, NotYetStored
    <3> QED
      BY <1>0, <3>1, <3>2
  <2>5. CASE UploadSettles(m)
    <3>1. m \in Attachments
      BY <1>0, <2>5 DEF UploadSettles, SendHasReason
    <3>2. CASE Goes(m, "patching") /\ UNCHANGED abandoned
      BY <1>0, <2>5, <3>1, <3>2, StageOfOne DEF UploadSettles, SendHasReason, NotYetStored
    <3>3. CASE Goes(m, "scrapping") /\ abandoned' = abandoned \cup {m}
      BY <1>0, <2>5, <3>1, <3>3, StageOfOne DEF UploadSettles, SendHasReason, NotYetStored
    <3> QED
      BY <2>5, <3>2, <3>3 DEF UploadSettles
  <2>6. CASE SendSucceeds(m)
    BY <1>0, <2>6, StageOfOne DEF SendSucceeds, historyVars, SendHasReason, NotYetStored
  <2>7. CASE SendRefused(m)
    BY <1>0, <2>7, StageOfOne DEF SendRefused, historyVars, SendHasReason, NotYetStored
  <2>8. CASE ServerAccepts(m) \/ ServerRefuses(m) \/ Dismiss(m)
    <3>1. /\ UNCHANGED <<pc, persisted>> /\ server \subseteq server' /\ refused \subseteq refused'
          /\ abandoned \subseteq abandoned'
      BY <2>8 DEF ServerAccepts, ServerRefuses, Dismiss, sendVars, historyVars
    <3> QED
      BY <1>0, <3>1 DEF SendHasReason, NotYetStored
  <2>9. CASE SendFails(m)
    <3>1. CASE UNCHANGED pc
      BY <1>0, <2>9, <3>1 DEF SendFails, historyVars, SendHasReason, NotYetStored
    <3>2. CASE Goes(m, "gaveUp")
      BY <1>0, <2>9, <3>2, StageOfOne DEF SendFails, historyVars, SendHasReason, NotYetStored
    <3> QED
      BY <2>9, <3>1, <3>2 DEF SendFails
  <2> QED
    BY <2>1, <2>2, <2>3, <2>4, <2>5, <2>6, <2>7, <2>8, <2>9 DEF SendStep
<1> QED
  BY <1>1, <1>2, <1>3 DEF StoreInv

\* The flush's snapshot only gets shorter, and never has a text to mark.
LEMMA FlushReasons ==
    ASSUME IInv, NEW todo \in Seq(Entry), NEW rest \in Seq(Actor), FlushGoesOn(todo, rest),
           \A i \in DOMAIN todo : todo[i].pendingAttachments => todo[i].id \in Attachments
    PROVE  /\ FlushHasReason'
           /\ \A i \in DOMAIN flush'.todo :
                 flush'.todo[i].pendingAttachments => flush'.todo[i].id \in Attachments
<1>1. /\ flush'.stage = "pruning" \/ (flush'.todo = todo /\ todo # <<>>)
      /\ flush'.stage # "deleting"
      /\ flush'.stage = "marking" => todo[1].pendingAttachments
      /\ flush'.todo = todo
  BY FlushTypes DEF IInv
<1> QED
  BY <1>1 DEF FlushHasReason

LEMMA RestOfSnapshot ==
    ASSUME IInv, flush.todo # <<>>
    PROVE  /\ Tail(flush.todo) \in Seq(Entry)
           /\ \A i \in DOMAIN Tail(flush.todo) :
                 Tail(flush.todo)[i].pendingAttachments => Tail(flush.todo)[i].id \in Attachments
<1>1. flush.todo \in Seq(Entry)
  BY DEF IInv, TypeOK
<1>2. \A i \in DOMAIN Tail(flush.todo) : i + 1 \in DOMAIN flush.todo
                                          /\ Tail(flush.todo)[i] = flush.todo[i + 1]
  BY <1>1, TailOf
<1> QED
  BY <1>1, <1>2, TailOf DEF IInv, StoreInv, OnlyAttachmentsFail

LEMMA FlushStepReasons ==
    ASSUME IInv, FlushCalled \/ FlushScrubs \/ FlushSkips
    PROVE  StoreInv'
<1>0. /\ TypeOK /\ SendHasReason /\ FlushHasReason /\ OnlyAttachmentsFail
      /\ UNCHANGED <<store, pc, dismissed, server, refused, persisted, abandoned>>
      /\ idb \in Seq(Actor)
  BY DEF IInv, StoreInv, FlushCalled, FlushScrubs, FlushSkips, sendVars, historyVars, TypeOK, Actor
<1>1. SendHasReason'
  BY <1>0 DEF SendHasReason, NotYetStored
<1>2. FlushHasReason' /\ \A i \in DOMAIN flush'.todo :
                            flush'.todo[i].pendingAttachments => flush'.todo[i].id \in Attachments
  <2>1. CASE FlushCalled
    BY <2>1 DEF FlushCalled, FlushHasReason
  <2>2. CASE FlushScrubs
    BY <1>0, <2>2 DEF FlushScrubs, FlushSends, FlushHasReason, OnlyAttachmentsFail, TypeOK
  <2>3. CASE FlushSkips
    BY <1>0, <2>3, RestOfSnapshot, FlushReasons DEF FlushSkips, FlushSends, FlushHasReason
  <2> QED
    BY <2>1, <2>2, <2>3
<1>3. OnlyAttachmentsFail'
  BY <1>0, <1>2 DEF OnlyAttachmentsFail, IsFailed
<1> QED
  BY <1>1, <1>2, <1>3 DEF StoreInv

LEMMA SendTransactionReasons ==
    ASSUME IInv, NEW m \in Messages, NEW commits \in BOOLEAN, SendTransaction(m, commits)
    PROVE  StoreInv'
<1>0. /\ TypeOK /\ SendHasReason /\ FlushHasReason /\ OnlyAttachmentsFail
      /\ UNCHANGED <<flush, dismissed, server, refused>>
      /\ {"uploading", "queued", "sending", "succeeded", "failed"} \subseteq Stage
      /\ m \in Texts \/ m \in Attachments
  BY DEF IInv, StoreInv, SendTransaction, Stage, Transacting, Settled, Messages
<1>1. FlushHasReason'
  BY <1>0 DEF FlushHasReason
<1>2. UNCHANGED abandoned
  BY DEF SendTransaction, Enqueues, Patches, Deletes
<1>3. SendHasReason'
  <2>1. CASE Enqueues(m, commits)
    <3>1. CASE pc[m] = "placing"
      BY <1>0, <1>2, <2>1, <3>1, StageOfOne DEF Enqueues, SendHasReason
    <3>2. CASE pc[m] = "enqueueing"
      BY <1>0, <1>2, <2>1, <3>2, StageOfOne, Actors DEF Enqueues, SendHasReason
    <3> QED
      BY <2>1, <3>1, <3>2 DEF Enqueues
  <2>2. CASE Patches(m, commits)
    BY <1>0, <1>2, <2>2, StageOfOne DEF Patches, SendHasReason
  <2>3. CASE Deletes(m, commits)
    BY <1>0, <1>2, <2>3, StageOfOne DEF Deletes, SendHasReason
  <2> QED
    BY <2>1, <2>2, <2>3 DEF SendTransaction
<1>4. \A i \in DOMAIN store' : IsFailed(store'[i]) => store'[i].id \in Attachments
  <2>0. CASE store' = store
    BY <1>0, <2>0 DEF OnlyAttachmentsFail
  <2>1. CASE store' = Enqueued(m)
    BY <1>0, <2>1, EnqueuedEntries DEF OnlyAttachmentsFail
  <2>2. CASE store' = Uploaded(m)
    BY <1>0, <2>2, UploadedEntries DEF OnlyAttachmentsFail
  <2>3. CASE store' = Dequeued(m)
    BY <1>0, <2>3, WithoutEntries DEF OnlyAttachmentsFail, Dequeued
  <2> QED
    BY <2>0, <2>1, <2>2, <2>3 DEF SendTransaction, Enqueues, Patches, Deletes
<1>5. OnlyAttachmentsFail'
  BY <1>0, <1>2, <1>4 DEF OnlyAttachmentsFail, IsFailed
<1> QED
  BY <1>1, <1>3, <1>5 DEF StoreInv

LEMMA FlushTransactionReasons ==
    ASSUME IInv, NEW commits \in BOOLEAN, FlushTransaction(commits)
    PROVE  StoreInv'
<1>0. /\ TypeOK /\ SendHasReason /\ FlushHasReason /\ OnlyAttachmentsFail
      /\ UNCHANGED <<pc, dismissed, server, refused, persisted>> /\ abandoned \subseteq abandoned'
      /\ Tail(idb) \in Seq(Actor)
  <2>1. idb \in Seq(Actor) /\ idb # <<>>
    BY DEF IInv, Actor, FlushTransaction, TypeOK
  <2>2. abandoned \subseteq abandoned'
    BY DEF FlushTransaction, FlushReads, FlushMarks, FlushDeletes, FlushPrunes
  <2> QED
    BY <2>1, <2>2, TailOf DEF IInv, StoreInv, FlushTransaction, sendVars
<1>1. SendHasReason'
  BY <1>0 DEF SendHasReason, NotYetStored
<1>2. CASE FlushReads(commits)
  <2>1. PICK todo \in Seq(Entry) : /\ FlushGoesOn(todo, Tail(idb))
                                   /\ \A i \in DOMAIN todo : \E j \in DOMAIN store : todo[i] = store[j]
    <3>1. <<>> \in Seq(Entry) /\ \A i \in DOMAIN <<>> : FALSE
      OBVIOUS
    <3>2. CASE commits
      BY <1>0, <1>2, <3>2, SnapshotEntries DEF FlushReads
    <3>3. CASE ~commits
      BY <1>0, <1>2, <3>1, <3>3 DEF FlushReads
    <3> QED
      BY <3>2, <3>3
  <2>2. \A i \in DOMAIN todo : todo[i].pendingAttachments => todo[i].id \in Attachments
    BY <1>0, <2>1 DEF OnlyAttachmentsFail, IsFailed
  <2>3. FlushHasReason' /\ \A i \in DOMAIN flush'.todo :
                              flush'.todo[i].pendingAttachments => flush'.todo[i].id \in Attachments
    BY <1>0, <2>1, <2>2, FlushReasons
  <2>4. UNCHANGED store
    BY <1>2 DEF FlushReads
  <2> QED
    BY <1>0, <1>1, <2>3, <2>4 DEF StoreInv, OnlyAttachmentsFail, IsFailed
<1>3. CASE FlushMarks(commits)
  <2>1. flush.todo # <<>> /\ flush.todo[1].id \in Attachments
    BY <1>0, <1>3 DEF FlushMarks, FlushHasReason, OnlyAttachmentsFail, TypeOK
  <2>2. FlushHasReason' /\ \A i \in DOMAIN flush'.todo :
                              flush'.todo[i].pendingAttachments => flush'.todo[i].id \in Attachments
    BY <1>0, <1>3, <2>1, RestOfSnapshot, FlushReasons DEF FlushMarks
  <2>3. \A i \in DOMAIN store' : IsFailed(store'[i]) => store'[i].id \in Attachments
    BY <1>0, <1>3, <2>1, MarkedEntries DEF FlushMarks, OnlyAttachmentsFail
  <2> QED
    BY <1>0, <1>1, <2>2, <2>3 DEF StoreInv, OnlyAttachmentsFail, IsFailed
<1>4. CASE FlushDeletes(commits)
  <2>1. FlushHasReason' /\ \A i \in DOMAIN flush'.todo :
                              flush'.todo[i].pendingAttachments => flush'.todo[i].id \in Attachments
    BY <1>0, <1>4, RestOfSnapshot, FlushReasons DEF FlushDeletes, FlushHasReason
  <2>2. \A i \in DOMAIN store' : IsFailed(store'[i]) => store'[i].id \in Attachments
    BY <1>0, <1>4, WithoutEntries DEF FlushDeletes, OnlyAttachmentsFail, Dequeued
  <2> QED
    BY <1>0, <1>1, <2>1, <2>2 DEF StoreInv, OnlyAttachmentsFail, IsFailed
<1>5. CASE FlushPrunes(commits)
  <2>1. \A i \in DOMAIN store' : IsFailed(store'[i]) => store'[i].id \in Attachments
    BY <1>0, <1>5, WithoutEntries DEF FlushPrunes, OnlyAttachmentsFail
  <2>2. flush' = [stage |-> "idle", todo |-> <<>>]
    BY <1>5 DEF FlushPrunes, NoFlush
  <2> QED
    BY <1>0, <1>1, <2>1, <2>2 DEF StoreInv, OnlyAttachmentsFail, FlushHasReason, IsFailed
<1> QED
  BY <1>2, <1>3, <1>4, <1>5 DEF FlushTransaction

LEMMA UserTransactionReasons ==
    ASSUME IInv, NEW commits \in BOOLEAN, UserTransaction(commits)
    PROVE  StoreInv'
<1>0. /\ TypeOK /\ SendHasReason /\ FlushHasReason /\ OnlyAttachmentsFail /\ dismissed' = User
      /\ UNCHANGED <<pc, flush, server, refused, persisted, abandoned>>
  BY DEF IInv, StoreInv, UserTransaction, sendVars, historyVars
<1>1. \A i \in DOMAIN store' : IsFailed(store'[i]) => store'[i].id \in Attachments
  BY <1>0, WithoutEntries DEF UserTransaction, OnlyAttachmentsFail, Dequeued
<1> QED
  BY <1>0, <1>1 DEF StoreInv, OnlyAttachmentsFail, FlushHasReason, SendHasReason, NotYetStored,
                    IsFailed

LEMMA ReloadReasons == ASSUME IInv, Reload PROVE StoreInv'
<1>0. /\ TypeOK /\ SendHasReason /\ OnlyAttachmentsFail /\ dismissed' = User
      /\ flush' = [stage |-> "idle", todo |-> <<>>]
      /\ UNCHANGED <<store, server, refused, persisted, abandoned>>
      /\ \A m \in Messages : pc'[m] = pc[m] \/ pc'[m] = "lost"
  BY DEF IInv, StoreInv, Reload, historyVars, NoFlush
<1> QED
  BY <1>0 DEF StoreInv, OnlyAttachmentsFail, FlushHasReason, SendHasReason, NotYetStored, IsFailed

LEMMA NextReasons == ASSUME IInv, [Next]_vars PROVE StoreInv'
<1>1. CASE Next
  <2>1. ASSUME NEW commits \in BOOLEAN, Transaction(commits) PROVE StoreInv'
    BY <2>1, SendTransactionReasons, FlushTransactionReasons, UserTransactionReasons DEF Transaction
  <2> QED
    BY <1>1, <2>1, SendReasons, FlushStepReasons, ReloadReasons DEF Next, Commits, StorageFails
<1>2. CASE UNCHANGED vars
  BY <1>2 DEF IInv, StoreInv, OnlyAttachmentsFail, FlushHasReason, SendHasReason, NotYetStored,
              IsFailed, vars, sendVars, historyVars
<1> QED
  BY <1>1, <1>2

-----------------------------------------------------------------------------
(* The order of the sends *)

\* A step in which nobody enters or leaves the line or the chain.
SamePlaces ==
    /\ UNCHANGED <<line, chain>>
    /\ pc' \in [Messages -> Stage]
    /\ \A m \in Messages :
        \/ pc'[m] = pc[m]
        \/ pc[m] \in Before /\ pc'[m] \in Before
        \/ pc[m] \in Sending /\ pc'[m] \in Sending
        \/ pc[m] = "queued" /\ pc'[m] \in Sending /\ Head(chain) = m

\* What waits to be enqueued stays in the transaction queue, in its order.
SameQueue ==
    /\ \A m \in Messages : pc[m] = "enqueueing" /\ pc'[m] = "enqueueing" /\ InQueue(m) => InQueue(m)'
    /\ \A k \in DOMAIN idb' : idb'[k] \in Messages => InLine(idb'[k])
    /\ \A p, q \in DOMAIN idb' :
        /\ p < q /\ idb'[p] \in Messages /\ idb'[q] \in Messages
        /\ pc'[idb'[p]] = "enqueueing" /\ pc'[idb'[q]] = "enqueueing"
        => \E i, j \in DOMAIN idb : i < j /\ idb[i] = idb'[p] /\ idb[j] = idb'[q]

LEMMA SamePlacesKeepOrder ==
    ASSUME TypeOK, OrderInv, SamePlaces, SameQueue
    PROVE  OrderInv'
<1>0. /\ line \in Seq(Messages) /\ chain \in Seq(Messages)
      /\ line' = line /\ chain' = chain
  BY DEF TypeOK, SamePlaces
<1>a. \A k \in DOMAIN line : line[k] \in Messages
  BY <1>0
<1>b. \A k \in DOMAIN chain : chain[k] \in Messages
  BY <1>0
<1>1. NoRepeats'
  BY <1>0 DEF NoRepeats, OrderInv
<1>2. Placed'
  <2>1. \A k \in DOMAIN line' : pc'[line'[k]] \notin Before
    BY <1>0, <1>a DEF OrderInv, Placed, SamePlaces, Before, Sending
  <2>2. \A m \in Messages : pc'[m] \in Settled \cup Before \/ InLine(m)'
    BY <1>0 DEF OrderInv, Placed, SamePlaces, Before, Sending, InLine, Settled
  <2>3. \A k \in DOMAIN chain' : pc'[chain'[k]] \in Sending \cup {"queued"}
    BY <1>0, <1>b DEF OrderInv, Placed, SamePlaces, Before, Sending
  <2>4. \A k \in DOMAIN chain' : pc'[chain'[k]] \in Sending => k = 1
    <3> SUFFICES ASSUME NEW k \in DOMAIN chain, pc'[chain[k]] \in Sending PROVE k = 1
      BY <1>0
    <3>1. CASE pc[chain[k]] = "queued"
      <4>1. Head(chain) = chain[k]
        BY <1>b, <3>1 DEF SamePlaces, Before, Sending
      <4>2. 1 \in DOMAIN chain /\ Head(chain) = chain[1]
        BY <1>0
      <4> QED
        BY <4>1, <4>2 DEF OrderInv, NoRepeats
    <3>2. CASE pc[chain[k]] \in Sending
      BY <3>2 DEF OrderInv, Placed
    <3> QED
      BY <3>1, <3>2 DEF OrderInv, Placed
  <2>5. \A m \in Messages : pc'[m] \in Sending \cup {"queued"} => InChain(m)'
    BY <1>0 DEF OrderInv, Placed, SamePlaces, Before, Sending, InChain
  <2>6. \A m \in Messages : pc'[m] = "enqueueing" => InQueue(m)'
    BY DEF OrderInv, Placed, SamePlaces, SameQueue, Before, Sending
  <2>7. \A k \in DOMAIN idb' : idb'[k] \in Messages => \E j \in DOMAIN line' : line'[j] = idb'[k]
    BY <1>0 DEF SameQueue, InLine
  <2> QED
    BY <2>1, <2>2, <2>3, <2>4, <2>5, <2>6, <2>7 DEF Placed, InLine
<1>3. QueueInOrder'
  <2> SUFFICES ASSUME NEW p \in DOMAIN idb', NEW q \in DOMAIN idb', NEW a \in DOMAIN line,
                      NEW b \in DOMAIN line, p < q, idb'[p] = line[a], idb'[q] = line[b],
                      pc'[line[a]] = "enqueueing", pc'[line[b]] = "enqueueing"
               PROVE  a < b
    BY <1>0 DEF QueueInOrder
  <2>1. PICK i, j \in DOMAIN idb : i < j /\ idb[i] = idb'[p] /\ idb[j] = idb'[q]
    BY <1>a DEF SameQueue
  <2>2. pc[line[a]] = "enqueueing" /\ pc[line[b]] = "enqueueing"
    BY <1>a DEF SamePlaces, Before, Sending
  <2> QED
    BY <2>1, <2>2 DEF OrderInv, QueueInOrder
<1>4. ChainInOrder'
  <2> SUFFICES ASSUME NEW a \in DOMAIN line, NEW b \in DOMAIN line, NEW q \in DOMAIN chain,
                      a < b, chain[q] = line[b], line[b] \in Texts, pc'[line[a]] \notin Settled
               PROVE  \E p \in DOMAIN chain : p < q /\ chain[p] = line[a]
    BY <1>0 DEF ChainInOrder
  <2>1. pc[line[a]] \notin Settled
    BY <1>a DEF SamePlaces, Before, Sending, Settled
  <2> QED
    BY <2>1 DEF OrderInv, ChainInOrder
<1> QED
  BY <1>1, <1>2, <1>3, <1>4 DEF OrderInv

\* The transaction queue: a request by somebody who has nothing to enqueue, and
\* a transaction that enqueues nothing.
LEMMA QueueGrows ==
    ASSUME TypeOK, OrderInv, UNCHANGED line, NEW a \in Actor,
           a \in Messages => InLine(a) /\ pc'[a] # "enqueueing",
           idb' = idb \/ idb' = Append(idb, a)
    PROVE  \/ \E m \in Messages : pc'[m] = "enqueueing" /\ pc[m] # "enqueueing"
           \/ SameQueue
<1> SUFFICES ASSUME ~\E m \in Messages : pc'[m] = "enqueueing" /\ pc[m] # "enqueueing"
             PROVE  SameQueue
  OBVIOUS
<1>1. /\ idb \in Seq(Actor)
      /\ \A k \in DOMAIN idb : idb[k] \in Messages => InLine(idb[k])
  BY DEF TypeOK, Actor, OrderInv, Placed
<1>2. CASE idb' = idb
  BY <1>1, <1>2 DEF SameQueue, InQueue
<1>3. CASE idb' = Append(idb, a)
  <2>1. /\ DOMAIN idb' = 1..(Len(idb) + 1) /\ DOMAIN idb = 1..Len(idb) /\ Len(idb) \in Nat
        /\ \A i \in 1..Len(idb) : idb'[i] = idb[i]
        /\ idb'[Len(idb) + 1] = a
    BY <1>1, <1>3, Appended
  <2>2. \A k \in DOMAIN idb' : k \in DOMAIN idb \/ k = Len(idb) + 1
    BY <2>1
  <2>3. \A m \in Messages : InQueue(m) => InQueue(m)'
    BY <2>1 DEF InQueue
  <2>4. \A k \in DOMAIN idb' : idb'[k] \in Messages => InLine(idb'[k])
    BY <1>1, <2>1, <2>2
  <2>5. ASSUME NEW p \in DOMAIN idb', NEW q \in DOMAIN idb',
               p < q, idb'[p] \in Messages, idb'[q] \in Messages,
               pc'[idb'[p]] = "enqueueing", pc'[idb'[q]] = "enqueueing"
        PROVE  \E i, j \in DOMAIN idb : i < j /\ idb[i] = idb'[p] /\ idb[j] = idb'[q]
    <3>1. p \in DOMAIN idb /\ q \in DOMAIN idb
      BY <2>1, <2>2, <2>5
    <3> QED
      BY <2>1, <2>5, <3>1
  <2> QED
    BY <2>3, <2>4, <2>5 DEF SameQueue
<1> QED
  BY <1>2, <1>3

LEMMA QueueShrinks ==
    ASSUME TypeOK, OrderInv, UNCHANGED line, idb # <<>>,
           idb' = Tail(idb) \/ idb' = Append(Tail(idb), Flush),
           Head(idb) \in Messages => pc'[Head(idb)] # "enqueueing",
           ~\E m \in Messages : pc'[m] = "enqueueing" /\ pc[m] # "enqueueing"
    PROVE  SameQueue
<1>1. /\ idb \in Seq(Actor) /\ Flush \in Actor /\ Flush \notin Messages
      /\ \A k \in DOMAIN idb : idb[k] \in Messages => InLine(idb[k])
  BY Actors DEF TypeOK, Actor, OrderInv, Placed
<1>2. /\ Tail(idb) \in Seq(Actor)
      /\ DOMAIN Tail(idb) = 1..(Len(idb) - 1) /\ DOMAIN idb = 1..Len(idb) /\ Len(idb) \in Nat \ {0}
      /\ \A i \in 1..(Len(idb) - 1) : Tail(idb)[i] = idb[i + 1]
      /\ Head(idb) = idb[1]
  BY <1>1, TailOf
<1> DEFINE n == Len(idb) - 1
<1>3. /\ n \in Nat
      /\ \A k \in DOMAIN idb' : k \in 1..n \/ (k = n + 1 /\ idb'[k] = Flush)
      /\ \A k \in 1..n : k \in DOMAIN idb' /\ k + 1 \in DOMAIN idb /\ idb'[k] = idb[k + 1]
  <2>1. CASE idb' = Tail(idb)
    BY <1>2, <2>1
  <2>2. CASE idb' = Append(Tail(idb), Flush)
    <3>1. Len(Tail(idb)) = n
      BY <1>2
    <3>2. /\ DOMAIN Append(Tail(idb), Flush) = 1..(n + 1)
          /\ \A i \in 1..n : Append(Tail(idb), Flush)[i] = Tail(idb)[i]
          /\ Append(Tail(idb), Flush)[n + 1] = Flush
      BY <1>1, <1>2, <3>1, Appended
    <3> QED
      BY <1>2, <2>2, <3>2
  <2> QED
    BY <2>1, <2>2
<1>4. ASSUME NEW m \in Messages, pc[m] = "enqueueing", pc'[m] = "enqueueing", InQueue(m)
      PROVE  InQueue(m)'
  <2>1. PICK k \in DOMAIN idb : idb[k] = m
    BY <1>4 DEF InQueue
  <2>2. k # 1
    BY <1>2, <1>4, <2>1
  <2>3. k - 1 \in 1..n /\ (k - 1) + 1 = k
    BY <1>2, <2>1, <2>2
  <2>4. k - 1 \in DOMAIN idb' /\ idb'[k - 1] = m
    BY <1>3, <2>1, <2>3
  <2> QED
    BY <2>4 DEF InQueue
<1>5. \A k \in DOMAIN idb' : idb'[k] \in Messages => InLine(idb'[k])
  BY <1>1, <1>3
<1>6. ASSUME NEW p \in DOMAIN idb', NEW q \in DOMAIN idb',
             p < q, idb'[p] \in Messages, idb'[q] \in Messages
      PROVE  \E i, j \in DOMAIN idb : i < j /\ idb[i] = idb'[p] /\ idb[j] = idb'[q]
  <2>1. p \in 1..n /\ q \in 1..n
    BY <1>1, <1>3, <1>6
  <2>2. p + 1 < q + 1
    BY <1>6, <2>1
  <2> QED
    BY <1>3, <2>1, <2>2
<1> QED
  BY <1>4, <1>5, <1>6 DEF SameQueue

\* Enqueueing begins: a text is the last of the line and of the queue.
LEMMA SealKeepsOrder ==
    ASSUME TypeOK, OrderInv, NEW m \in Messages, SealSettles(m)
    PROVE  OrderInv'
<1>0. /\ line \in Seq(Messages) /\ chain \in Seq(Messages) /\ idb \in Seq(Actor)
      /\ chain' = chain /\ m \in Actor /\ line' = Append(line, m) /\ idb' = Append(idb, m)
      /\ pc[m] = "sealing" /\ "enqueueing" \in Stage
  BY DEF TypeOK, SealSettles, Actor, Request, Stage, Transacting
<1>1. pc'[m] = "enqueueing" /\ \A n \in Messages : n # m => pc'[n] = pc[n]
  BY <1>0, GoesTypes DEF SealSettles
<1> DEFINE n == Len(line)
           z == Len(idb)
<1>2. /\ n \in Nat /\ DOMAIN line' = 1..(n + 1) /\ DOMAIN line = 1..n
      /\ \A i \in 1..n : line'[i] = line[i] /\ line[i] \in Messages
      /\ line'[n + 1] = m
  BY <1>0, Appended
<1>3. /\ z \in Nat /\ DOMAIN idb' = 1..(z + 1) /\ DOMAIN idb = 1..z
      /\ \A i \in 1..z : idb'[i] = idb[i]
      /\ idb'[z + 1] = m
  BY <1>0, Appended
<1> HIDE DEF n, z
<1>4. /\ \A i \in 1..n : line[i] # m
      /\ \A i \in 1..z : idb[i] # m
      /\ \A i \in DOMAIN chain : chain[i] # m
  <2>1. \A i \in 1..n : line[i] # m
    BY <1>0, <1>2 DEF OrderInv, Placed, Before
  <2>2. ~InLine(m)
    BY <1>2, <2>1 DEF InLine
  <2>3. \A i \in 1..z : idb[i] # m
    BY <1>3, <2>2 DEF OrderInv, Placed
  <2>4. \A i \in DOMAIN chain : chain[i] # m
    BY <1>0 DEF OrderInv, Placed, Sending
  <2> QED
    BY <2>1, <2>3, <2>4
<1>a. /\ \A k \in DOMAIN line' : k \in 1..n \/ k = n + 1
      /\ \A k \in DOMAIN idb' : k \in 1..z \/ k = z + 1
      /\ n + 1 \in DOMAIN line' /\ z + 1 \in DOMAIN idb'
      /\ \A k \in 1..n : k \in DOMAIN line' /\ k < n + 1
      /\ \A k \in 1..z : k \in DOMAIN idb' /\ k < z + 1
  BY <1>2, <1>3
<1>b. \A k \in DOMAIN chain : chain[k] \in Messages
  BY <1>0
<1>5. NoRepeats'
  <2>1. \A i, j \in DOMAIN line' : line'[i] = line'[j] => i = j
    BY <1>2, <1>4, <1>a DEF OrderInv, NoRepeats
  <2> QED
    BY <1>0, <2>1 DEF OrderInv, NoRepeats
<1>6. Placed'
  <2>1. \A k \in DOMAIN line' : pc'[line'[k]] \notin Before
    BY <1>1, <1>2, <1>a DEF OrderInv, Placed, Before
  <2>2. \A x \in Messages : InLine(x) => InLine(x)'
    BY <1>2, <1>a DEF InLine
  <2>3. InLine(m)' /\ InQueue(m)'
    BY <1>2, <1>3, <1>a DEF InLine, InQueue
  <2>4. \A x \in Messages : pc'[x] \in Settled \cup Before \/ InLine(x)'
    BY <1>1, <2>2, <2>3 DEF OrderInv, Placed
  <2>5. \A k \in DOMAIN chain' : pc'[chain'[k]] = pc[chain[k]]
    BY <1>0, <1>1, <1>4, <1>b
  <2>6. \A x \in Messages : pc'[x] \in Sending \cup {"queued"} => InChain(x)'
    BY <1>0, <1>1 DEF OrderInv, Placed, InChain, Sending
  <2>7. \A x \in Messages : InQueue(x) => InQueue(x)'
    BY <1>3, <1>a DEF InQueue
  <2>8. \A x \in Messages : pc'[x] = "enqueueing" => InQueue(x)'
    BY <1>1, <2>3, <2>7 DEF OrderInv, Placed
  <2>9. \A k \in DOMAIN idb' : idb'[k] \in Messages => \E j \in DOMAIN line' : line'[j] = idb'[k]
    <3>1. \A k \in 1..z : idb[k] \in Messages => \E j \in 1..n : line[j] = idb[k]
      BY <1>2, <1>3 DEF OrderInv, Placed, InLine
    <3>2. \A k \in 1..z : idb'[k] \in Messages => \E j \in 1..n : line'[j] = idb'[k]
      BY <1>2, <1>3, <3>1
    <3> QED
      BY <1>2, <1>3, <1>a, <3>2
  <2> QED
    BY <1>0, <2>1, <2>4, <2>5, <2>6, <2>8, <2>9 DEF OrderInv, Placed, InLine
<1>7. QueueInOrder'
  <2> SUFFICES ASSUME NEW p \in DOMAIN idb', NEW q \in DOMAIN idb', NEW a \in DOMAIN line',
                      NEW b \in DOMAIN line', p < q, idb'[p] = line'[a], idb'[q] = line'[b],
                      pc'[line'[a]] = "enqueueing", pc'[line'[b]] = "enqueueing"
               PROVE  a < b
    BY DEF QueueInOrder
  <2>1. p \in 1..z
    BY <1>3, <1>a
  <2>2. a \in 1..n
    BY <1>2, <1>3, <1>4, <1>a, <2>1
  <2>3. CASE b = n + 1
    BY <1>a, <2>2, <2>3
  <2>4. CASE b \in 1..n
    <3>1. q \in 1..z
      BY <1>2, <1>3, <1>4, <1>a, <2>4
    <3>2. pc[line[a]] = "enqueueing" /\ pc[line[b]] = "enqueueing"
      BY <1>1, <1>2, <1>4, <2>2, <2>4
    <3> QED
      BY <1>2, <1>3, <2>1, <2>2, <2>4, <3>1, <3>2 DEF OrderInv, QueueInOrder
  <2> QED
    BY <1>a, <2>3, <2>4
<1>8. ChainInOrder'
  <2> SUFFICES ASSUME NEW a \in DOMAIN line', NEW b \in DOMAIN line', NEW q \in DOMAIN chain,
                      a < b, chain[q] = line'[b], line'[b] \in Texts, pc'[line'[a]] \notin Settled
               PROVE  \E p \in DOMAIN chain : p < q /\ chain[p] = line'[a]
    BY <1>0 DEF ChainInOrder
  <2>1. b \in 1..n
    BY <1>2, <1>4, <1>a
  <2>2. a \in 1..n
    BY <1>2, <1>a, <2>1
  <2>3. pc[line[a]] \notin Settled
    BY <1>1, <1>2, <1>4, <2>2
  <2> QED
    BY <1>2, <2>1, <2>2, <2>3 DEF OrderInv, ChainInOrder
<1> QED
  BY <1>5, <1>6, <1>7, <1>8 DEF OrderInv

\* An attachment enters the line and the chain at once.
LEMMA CallKeepsOrder ==
    ASSUME TypeOK, OrderInv, NEW m \in Messages, CallAttachment(m)
    PROVE  OrderInv'
<1>0. /\ line \in Seq(Messages) /\ chain \in Seq(Messages) /\ idb \in Seq(Actor)
      /\ idb' = idb /\ line' = Append(line, m) /\ chain' = Append(chain, m)
      /\ pc[m] = "idle" /\ "queued" \in Stage /\ m \notin Texts
  BY Actors DEF TypeOK, CallAttachment, Actor, Stage
<1>1. pc'[m] = "queued" /\ \A n \in Messages : n # m => pc'[n] = pc[n]
  BY <1>0, GoesTypes DEF CallAttachment
<1> DEFINE n == Len(line)
           z == Len(chain)
<1>2. /\ n \in Nat /\ DOMAIN line' = 1..(n + 1) /\ DOMAIN line = 1..n
      /\ \A i \in 1..n : line'[i] = line[i] /\ line[i] \in Messages
      /\ line'[n + 1] = m
  BY <1>0, Appended
<1>3. /\ z \in Nat /\ DOMAIN chain' = 1..(z + 1) /\ DOMAIN chain = 1..z
      /\ \A i \in 1..z : chain'[i] = chain[i] /\ chain[i] \in Messages
      /\ chain'[z + 1] = m
  BY <1>0, Appended
<1> HIDE DEF n, z
<1>4. /\ \A i \in 1..n : line[i] # m
      /\ \A i \in 1..z : chain[i] # m
      /\ \A i \in DOMAIN idb : idb[i] # m
  <2>1. \A i \in 1..n : line[i] # m
    BY <1>0, <1>2 DEF OrderInv, Placed, Before
  <2>2. ~InLine(m)
    BY <1>2, <2>1 DEF InLine
  <2>3. \A i \in DOMAIN idb : idb[i] # m
    BY <2>2 DEF OrderInv, Placed
  <2>4. \A i \in 1..z : chain[i] # m
    BY <1>0, <1>3 DEF OrderInv, Placed, Sending
  <2> QED
    BY <2>1, <2>3, <2>4
<1>a. /\ \A k \in DOMAIN line' : k \in 1..n \/ k = n + 1
      /\ \A k \in DOMAIN chain' : k \in 1..z \/ k = z + 1
      /\ n + 1 \in DOMAIN line' /\ z + 1 \in DOMAIN chain'
      /\ \A k \in 1..n : k \in DOMAIN line' /\ k < n + 1
      /\ \A k \in 1..z : k \in DOMAIN chain' /\ k < z + 1
  BY <1>2, <1>3
<1>5. NoRepeats'
  <2>1. \A i, j \in DOMAIN line' : line'[i] = line'[j] => i = j
    BY <1>2, <1>4, <1>a DEF OrderInv, NoRepeats
  <2>2. \A i, j \in DOMAIN chain' : chain'[i] = chain'[j] => i = j
    BY <1>3, <1>4, <1>a DEF OrderInv, NoRepeats
  <2> QED
    BY <2>1, <2>2 DEF NoRepeats
<1>6. Placed'
  <2>1. \A k \in DOMAIN line' : pc'[line'[k]] \notin Before
    BY <1>1, <1>2, <1>a DEF OrderInv, Placed, Before
  <2>2. \A x \in Messages : InLine(x) => InLine(x)'
    BY <1>2, <1>a DEF InLine
  <2>3. InLine(m)' /\ InChain(m)'
    BY <1>2, <1>3, <1>a DEF InLine, InChain
  <2>4. \A x \in Messages : pc'[x] \in Settled \cup Before \/ InLine(x)'
    BY <1>1, <2>2, <2>3 DEF OrderInv, Placed
  <2>5. \A k \in 1..z : pc'[chain'[k]] = pc[chain[k]]
    BY <1>1, <1>3, <1>4
  <2>6. \A k \in DOMAIN chain' : pc'[chain'[k]] \in Sending \cup {"queued"}
    BY <1>1, <1>3, <1>a, <2>5 DEF OrderInv, Placed
  <2>7. \A k \in DOMAIN chain' : pc'[chain'[k]] \in Sending => k = 1
    BY <1>1, <1>3, <1>a, <2>5 DEF OrderInv, Placed, Sending
  <2>8. \A x \in Messages : InChain(x) => InChain(x)'
    BY <1>3, <1>a DEF InChain
  <2>9. \A x \in Messages : pc'[x] \in Sending \cup {"queued"} => InChain(x)'
    BY <1>1, <2>3, <2>8 DEF OrderInv, Placed
  <2>10. \A x \in Messages : pc'[x] = "enqueueing" => InQueue(x)'
    BY <1>0, <1>1 DEF OrderInv, Placed, InQueue
  <2>11. \A k \in DOMAIN idb' : idb'[k] \in Messages => \E j \in DOMAIN line' : line'[j] = idb'[k]
    <3>1. \A k \in DOMAIN idb : idb[k] \in Messages => \E j \in 1..n : line[j] = idb[k]
      BY <1>2 DEF OrderInv, Placed, InLine
    <3>2. SUFFICES ASSUME NEW k \in DOMAIN idb, idb[k] \in Messages
                   PROVE  \E j \in DOMAIN line' : line'[j] = idb[k]
      BY <1>0
    <3>3. PICK j \in 1..n : line[j] = idb[k]
      BY <3>1, <3>2
    <3>4. j \in DOMAIN line' /\ line'[j] = line[j]
      BY <1>2, <1>a, <3>3
    <3> QED
      BY <3>3, <3>4
  <2> QED
    BY <2>1, <2>4, <2>6, <2>7, <2>9, <2>10, <2>11 DEF Placed, InLine
<1>c. idb' = idb
  BY <1>0
<1>7. QueueInOrder'
  <2> SUFFICES ASSUME NEW p \in DOMAIN idb, NEW q \in DOMAIN idb, NEW a \in DOMAIN line',
                      NEW b \in DOMAIN line', p < q, idb[p] = line'[a], idb[q] = line'[b],
                      pc'[line'[a]] = "enqueueing", pc'[line'[b]] = "enqueueing"
               PROVE  a < b
    BY <1>c DEF QueueInOrder
  <2>1. a \in 1..n /\ b \in 1..n
    BY <1>2, <1>4, <1>a
  <2>2. pc[line[a]] = "enqueueing" /\ pc[line[b]] = "enqueueing"
    BY <1>1, <1>2, <1>4, <2>1
  <2> QED
    BY <1>2, <2>1, <2>2 DEF OrderInv, QueueInOrder
<1>8. ChainInOrder'
  <2> SUFFICES ASSUME NEW a \in DOMAIN line', NEW b \in DOMAIN line', NEW q \in DOMAIN chain',
                      a < b, chain'[q] = line'[b], line'[b] \in Texts, pc'[line'[a]] \notin Settled
               PROVE  \E p \in DOMAIN chain' : p < q /\ chain'[p] = line'[a]
    BY DEF ChainInOrder
  <2>1. b \in 1..n /\ q \in 1..z
    BY <1>0, <1>2, <1>3, <1>a
  <2>2. a \in 1..n
    BY <1>2, <1>a, <2>1
  <2>3. pc[line[a]] \notin Settled
    BY <1>1, <1>2, <1>4, <2>2
  <2>4. PICK p \in 1..z : p < q /\ chain[p] = line[a]
    BY <1>2, <1>3, <2>1, <2>2, <2>3 DEF OrderInv, ChainInOrder
  <2> QED
    BY <1>2, <1>3, <1>a, <2>2, <2>4
<1> QED
  BY <1>5, <1>6, <1>7, <1>8 DEF OrderInv

\* A text leaves the head of the queue and enters the chain: whatever stands
\* before it in the line has left the queue, so it is in the chain or settled.
LEMMA EnqueueKeepsOrder ==
    ASSUME TypeOK, OrderInv, SendHasReason, NEW m \in Messages, NEW commits \in BOOLEAN,
           SendTransaction(m, commits), Enqueues(m, commits), pc[m] = "enqueueing"
    PROVE  OrderInv'
<1>0. /\ line \in Seq(Messages) /\ chain \in Seq(Messages) /\ idb \in Seq(Actor) /\ idb # <<>>
      /\ line' = line /\ chain' = Append(chain, m) /\ idb' = Tail(idb) /\ Head(idb) = m
      /\ "queued" \in Stage
  BY DEF TypeOK, SendTransaction, Enqueues, Actor, Stage
<1>1. pc'[m] = "queued" /\ \A x \in Messages : x # m => pc'[x] = pc[x]
  BY <1>0, GoesTypes DEF Enqueues
<1> DEFINE z == Len(chain)
<1>2. /\ z \in Nat /\ DOMAIN chain' = 1..(z + 1) /\ DOMAIN chain = 1..z
      /\ \A i \in 1..z : chain'[i] = chain[i] /\ chain[i] \in Messages
      /\ chain'[z + 1] = m
  BY <1>0, Appended
<1> HIDE DEF z
<1>3. DOMAIN idb = 1..Len(idb) /\ Len(idb) \in Nat \ {0} /\ idb[1] = m
  BY <1>0
<1>a. /\ \A k \in DOMAIN chain' : k \in 1..z \/ k = z + 1
      /\ z + 1 \in DOMAIN chain'
      /\ \A k \in 1..z : k \in DOMAIN chain' /\ k < z + 1
  BY <1>2
<1>b. \A k \in DOMAIN line : line[k] \in Messages
  BY <1>0
<1>c. line' = line
  BY <1>0
<1>4. SameQueue
  BY <1>0, <1>1, QueueShrinks
<1>5. \A i \in 1..z : chain[i] # m
  BY <1>2 DEF OrderInv, Placed, Sending
<1>6. NoRepeats'
  <2>1. \A i, j \in DOMAIN chain' : chain'[i] = chain'[j] => i = j
    BY <1>2, <1>5, <1>a DEF OrderInv, NoRepeats
  <2> QED
    BY <1>0, <2>1 DEF OrderInv, NoRepeats
<1>7. Placed'
  <2>1. \A k \in DOMAIN line' : pc'[line'[k]] \notin Before
    BY <1>0, <1>1, <1>b DEF OrderInv, Placed, Before
  <2>2. \A x \in Messages : pc'[x] \in Settled \cup Before \/ InLine(x)'
    BY <1>0, <1>1 DEF OrderInv, Placed, InLine, Before, Settled
  <2>3. \A k \in 1..z : pc'[chain'[k]] = pc[chain[k]]
    BY <1>1, <1>2, <1>5
  <2>4. \A k \in DOMAIN chain' : pc'[chain'[k]] \in Sending \cup {"queued"}
    BY <1>1, <1>2, <1>a, <2>3 DEF OrderInv, Placed
  <2>5. \A k \in DOMAIN chain' : pc'[chain'[k]] \in Sending => k = 1
    BY <1>1, <1>2, <1>a, <2>3 DEF OrderInv, Placed, Sending
  <2>6. \A x \in Messages : (InChain(x) => InChain(x)') /\ InChain(m)'
    BY <1>2, <1>a DEF InChain
  <2>7. \A x \in Messages : pc'[x] \in Sending \cup {"queued"} => InChain(x)'
    BY <1>1, <2>6 DEF OrderInv, Placed
  <2>8. \A x \in Messages : pc'[x] = "enqueueing" => InQueue(x)'
    BY <1>1, <1>4 DEF OrderInv, Placed, SameQueue
  <2>9. \A k \in DOMAIN idb' : idb'[k] \in Messages => \E j \in DOMAIN line' : line'[j] = idb'[k]
    BY <1>0, <1>4 DEF SameQueue, InLine
  <2> QED
    BY <2>1, <2>2, <2>4, <2>5, <2>7, <2>8, <2>9 DEF Placed, InLine
<1>8. QueueInOrder'
  <2> SUFFICES ASSUME NEW p \in DOMAIN idb', NEW q \in DOMAIN idb', NEW a \in DOMAIN line,
                      NEW b \in DOMAIN line, p < q, idb'[p] = line[a], idb'[q] = line[b],
                      pc'[line[a]] = "enqueueing", pc'[line[b]] = "enqueueing"
               PROVE  a < b
    BY <1>c DEF QueueInOrder
  <2>1. PICK i, j \in DOMAIN idb : i < j /\ idb[i] = idb'[p] /\ idb[j] = idb'[q]
    BY <1>4, <1>b DEF SameQueue
  <2>2. pc[line[a]] = "enqueueing" /\ pc[line[b]] = "enqueueing"
    BY <1>1, <1>b
  <2> QED
    BY <2>1, <2>2 DEF OrderInv, QueueInOrder
<1>9. ChainInOrder'
  <2> SUFFICES ASSUME NEW a \in DOMAIN line, NEW b \in DOMAIN line, NEW q \in DOMAIN chain',
                      a < b, chain'[q] = line[b], line[b] \in Texts, pc'[line[a]] \notin Settled
               PROVE  \E p \in DOMAIN chain' : p < q /\ chain'[p] = line[a]
    BY <1>0 DEF ChainInOrder
  <2>1. line[a] # line[b] /\ a \in Nat /\ b \in Nat
    BY <1>0 DEF OrderInv, NoRepeats
  <2>2. CASE q = z + 1
    <3>1. line[b] = m /\ line[a] # m /\ pc'[line[a]] = pc[line[a]]
      BY <1>1, <1>2, <1>b, <2>1, <2>2
    <3>2. pc[line[a]] # "enqueueing"
      <4> SUFFICES ASSUME pc[line[a]] = "enqueueing" PROVE FALSE
        OBVIOUS
      <4>1. PICK k \in DOMAIN idb : idb[k] = line[a]
        BY <1>b DEF OrderInv, Placed, InQueue
      <4>2. 1 \in DOMAIN idb /\ 1 < k
        BY <1>3, <3>1, <4>1
      <4>3. b < a
        BY <1>3, <3>1, <4>1, <4>2 DEF OrderInv, QueueInOrder
      <4> QED
        BY <2>1, <4>3
    <3>3. pc[line[a]] \in Sending \cup {"queued"}
      <4>1. pc[line[a]] \in Stage /\ pc[line[a]] \notin Before /\ pc[line[a]] \notin Settled
        BY <1>b, <3>1 DEF OrderInv, Placed, TypeOK
      <4> QED
        BY <3>2, <4>1 DEF Stage, Transacting, Settled, Before, Sending
    <3>4. PICK p \in 1..z : chain[p] = line[a]
      BY <1>2, <1>b, <3>3 DEF OrderInv, Placed, InChain
    <3> QED
      BY <1>2, <1>a, <2>2, <3>4
  <2>3. CASE q \in 1..z
    <3>1. line[b] # m
      BY <1>2, <1>5, <2>3
    <3>2. pc[line[a]] \notin Settled
      BY <1>1, <1>b DEF Settled
    <3>3. PICK p \in 1..z : p < q /\ chain[p] = line[a]
      BY <1>2, <2>3, <3>2 DEF OrderInv, ChainInOrder
    <3> QED
      BY <1>2, <1>a, <3>3
  <2> QED
    BY <1>a, <2>2, <2>3
<1> QED
  BY <1>6, <1>7, <1>8, <1>9 DEF OrderInv

\* The head of the chain settles: the others move up.
LEMMA SettlingKeepsOrder ==
    ASSUME TypeOK, OrderInv, NEW m \in Messages, pc[m] \in Sending, UNCHANGED line,
           chain' = Tail(chain), pc' \in [Messages -> Stage], pc'[m] \in Settled,
           \A x \in Messages : x # m => pc'[x] = pc[x],
           SameQueue
    PROVE  OrderInv'
<1>0. /\ line \in Seq(Messages) /\ chain \in Seq(Messages)
      /\ chain # <<>> /\ chain[1] = m /\ line' = line
  BY SendingHeadsChain DEF TypeOK, OrderInv
<1> DEFINE z == Len(chain) - 1
<1>1. /\ z \in Nat /\ DOMAIN chain' = 1..z
      /\ \A i \in 1..z : i + 1 \in DOMAIN chain /\ chain'[i] = chain[i + 1]
                         /\ chain[i + 1] \in Messages /\ i + 1 # 1
      /\ \A i \in DOMAIN chain : i = 1 \/ (i - 1 \in 1..z /\ i - 1 + 1 = i)
      /\ 1 \in DOMAIN chain
  BY <1>0, TailOf
<1> HIDE DEF z
<1>2. \A i \in 1..z : chain'[i] # m /\ pc'[chain'[i]] = pc[chain[i + 1]]
  BY <1>0, <1>1 DEF OrderInv, NoRepeats
<1>b. \A k \in DOMAIN line : line[k] \in Messages
  BY <1>0
<1>3. NoRepeats'
  <2>1. \A i, j \in DOMAIN chain' : chain'[i] = chain'[j] => i = j
    <3> SUFFICES ASSUME NEW i \in 1..z, NEW j \in 1..z, chain'[i] = chain'[j] PROVE i = j
      BY <1>1
    <3>1. i + 1 = j + 1
      BY <1>1 DEF OrderInv, NoRepeats
    <3> QED
      BY <3>1
  <2> QED
    BY <1>0, <2>1 DEF OrderInv, NoRepeats
<1>4. Placed'
  <2>1. \A k \in DOMAIN line' : pc'[line'[k]] \notin Before
    <3>1. \A k \in DOMAIN line : pc'[line[k]] = pc[line[k]] \/ pc'[line[k]] \in Settled
      BY <1>b
    <3> QED
      BY <1>0, <3>1 DEF OrderInv, Placed, Before, Settled
  <2>2. \A x \in Messages : pc'[x] \in Settled \cup Before \/ InLine(x)'
    BY <1>0 DEF OrderInv, Placed, InLine
  <2>a. \A k \in DOMAIN chain' : /\ pc'[chain'[k]] = pc[chain[k + 1]]
                                 /\ pc[chain[k + 1]] \in Sending \cup {"queued"}
                                 /\ pc[chain[k + 1]] \notin Sending
    BY <1>1, <1>2 DEF OrderInv, Placed
  <2>3. \A k \in DOMAIN chain' : pc'[chain'[k]] \in Sending \cup {"queued"}
    BY <2>a
  <2>4. \A k \in DOMAIN chain' : pc'[chain'[k]] \in Sending => k = 1
    BY <2>a
  <2>5. ASSUME NEW x \in Messages, pc'[x] \in Sending \cup {"queued"} PROVE InChain(x)'
    <3>1. x # m /\ pc'[x] = pc[x]
      BY <2>5 DEF Settled, Sending
    <3>2. PICK i \in DOMAIN chain : chain[i] = x
      BY <2>5, <3>1 DEF OrderInv, Placed, InChain
    <3>3. i - 1 \in DOMAIN chain' /\ chain'[i - 1] = x
      BY <1>0, <1>1, <3>1, <3>2
    <3> QED
      BY <3>3 DEF InChain
  <2>6. \A x \in Messages : pc'[x] = "enqueueing" => InQueue(x)'
    BY DEF OrderInv, Placed, SameQueue, Settled
  <2>7. \A k \in DOMAIN idb' : idb'[k] \in Messages => \E j \in DOMAIN line' : line'[j] = idb'[k]
    BY <1>0 DEF SameQueue, InLine
  <2> QED
    BY <2>1, <2>2, <2>3, <2>4, <2>5, <2>6, <2>7 DEF Placed, InLine
<1>5. QueueInOrder'
  <2> SUFFICES ASSUME NEW p \in DOMAIN idb', NEW q \in DOMAIN idb', NEW a \in DOMAIN line,
                      NEW b \in DOMAIN line, p < q, idb'[p] = line[a], idb'[q] = line[b],
                      pc'[line[a]] = "enqueueing", pc'[line[b]] = "enqueueing"
               PROVE  a < b
    BY <1>0 DEF QueueInOrder
  <2>1. PICK i, j \in DOMAIN idb : i < j /\ idb[i] = idb'[p] /\ idb[j] = idb'[q]
    BY <1>b DEF SameQueue
  <2>2. pc[line[a]] = "enqueueing" /\ pc[line[b]] = "enqueueing"
    BY <1>b DEF Settled
  <2> QED
    BY <2>1, <2>2 DEF OrderInv, QueueInOrder
<1>6. ChainInOrder'
  <2>a. line' = line
    BY <1>0
  <2> SUFFICES ASSUME NEW a \in DOMAIN line, NEW b \in DOMAIN line, NEW q \in DOMAIN chain',
                      a < b, chain'[q] = line[b], line[b] \in Texts, pc'[line[a]] \notin Settled
               PROVE  \E p \in DOMAIN chain' : p < q /\ chain'[p] = line[a]
    BY <2>a DEF ChainInOrder
  <2>1. pc'[line[a]] = pc[line[a]] /\ line[a] # m
    BY <1>b
  <2>2. PICK i \in DOMAIN chain : i < q + 1 /\ chain[i] = line[a]
    BY <1>1, <2>1 DEF OrderInv, ChainInOrder
  <2>3. i - 1 \in 1..z /\ i - 1 + 1 = i
    BY <1>0, <1>1, <2>1, <2>2
  <2>4. i - 1 < q
    BY <1>1, <2>2, <2>3
  <2> QED
    BY <1>1, <2>2, <2>3, <2>4
<1> QED
  BY <1>3, <1>4, <1>5, <1>6 DEF OrderInv

LEMMA ReloadKeepsOrder ==
    ASSUME TypeOK, OrderInv, Reload
    PROVE  OrderInv'
<1>0. /\ line' = line /\ chain' = <<>> /\ idb' = <<>> /\ line \in Seq(Messages)
      /\ \A m \in Messages : pc'[m] = IF pc[m] \in Settled \cup {"idle"} THEN pc[m] ELSE "lost"
  BY DEF Reload, historyVars, TypeOK
<1>1. \A m \in Messages : pc'[m] \in Settled \cup {"idle"} /\ (pc'[m] = "idle" => pc[m] = "idle")
  BY <1>0 DEF Settled
<1>2. DOMAIN chain' = {} /\ DOMAIN idb' = {}
  BY <1>0
<1>3. \A k \in DOMAIN line : line[k] \in Messages
  BY <1>0
<1>4. NoRepeats' /\ QueueInOrder' /\ ChainInOrder'
  BY <1>0, <1>2 DEF OrderInv, NoRepeats, QueueInOrder, ChainInOrder
<1>5. Placed'
  BY <1>0, <1>1, <1>2, <1>3 DEF OrderInv, Placed, Before, Settled, Sending
<1> QED
  BY <1>4, <1>5 DEF OrderInv

-----------------------------------------------------------------------------
(* Which step is which *)

LEMMA SendOrder ==
    ASSUME IInv, NEW m \in Messages,
           \/ CallText(m) \/ CallAttachment(m) \/ SendStep(m) \/ ServerAccepts(m)
           \/ ServerRefuses(m) \/ SendFails(m) \/ Dismiss(m)
    PROVE  OrderInv'
<1>0. /\ TypeOK /\ OrderInv /\ Placed /\ TypeOK' /\ m \in Actor /\ User \in Actor
      /\ {"sealing", "sending", "placing", "patching", "scrapping", "deleting", "gaveUp"}
            \subseteq Stage
      /\ User \notin Messages
  BY SendTypes, Actors DEF IInv, OrderInv, Stage, Transacting, Settled, Actor
<1>t. pc' \in [Messages -> Stage]
  BY <1>0 DEF TypeOK
<1>1. CASE CallText(m)
  <2>1. pc[m] = "idle" /\ Goes(m, "sealing") /\ UNCHANGED <<line, chain, idb>>
    BY <1>1 DEF CallText, historyVars
  <2>2. pc'[m] = "sealing" /\ \A n \in Messages : n # m => pc'[n] = pc[n]
    BY <1>0, <2>1, GoesTypes
  <2>3. SamePlaces
    BY <1>t, <2>1, <2>2 DEF SamePlaces, Before
  <2>4. SameQueue
    BY <1>0, <2>1, <2>2, QueueGrows
  <2> QED
    BY <1>0, <2>3, <2>4, SamePlacesKeepOrder
<1>2. CASE CallAttachment(m)
  BY <1>0, <1>2, CallKeepsOrder
<1>3. CASE SealSettles(m)
  BY <1>0, <1>3, SealKeepsOrder
<1>4. ASSUME NEW stage \in {"sending", "placing", "patching", "scrapping", "deleting"},
             pc[m] \in Sending \/ (pc[m] = "queued" /\ Head(chain) = m),
             Goes(m, stage), UNCHANGED <<line, chain>>, idb' = idb \/ Request(m)
      PROVE  OrderInv'
  <2>1. pc'[m] = stage /\ \A n \in Messages : n # m => pc'[n] = pc[n]
    BY <1>0, <1>4, GoesTypes
  <2>2. SamePlaces
    BY <1>t, <1>4, <2>1 DEF SamePlaces, Sending
  <2>3. InLine(m)
    BY <1>0, <1>4 DEF OrderInv, Placed, Sending, Settled, Before
  <2>4. SameQueue
    BY <1>0, <1>4, <2>1, <2>3, QueueGrows DEF Request
  <2> QED
    BY <1>0, <2>2, <2>4, SamePlacesKeepOrder
<1>5. CASE StartSend(m)
  BY <1>4, <1>5 DEF StartSend, historyVars
<1>6. CASE UploadSettles(m)
  BY <1>4, <1>6 DEF UploadSettles, Sending
<1>7. CASE SendSucceeds(m)
  BY <1>4, <1>7 DEF SendSucceeds, historyVars, Sending
<1>8. CASE SendRefused(m)
  BY <1>4, <1>8 DEF SendRefused, historyVars, Sending
<1>9. ASSUME UNCHANGED <<line, chain, pc>>, idb' = idb \/ Request(User)
      PROVE  OrderInv'
  <2>1. SamePlaces
    BY <1>t, <1>9 DEF SamePlaces
  <2>2. SameQueue
    BY <1>0, <1>9, QueueGrows DEF Request
  <2> QED
    BY <1>0, <2>1, <2>2, SamePlacesKeepOrder
<1>10. CASE ServerAccepts(m) \/ ServerRefuses(m) \/ Dismiss(m)
  BY <1>9, <1>10 DEF ServerAccepts, ServerRefuses, Dismiss, historyVars, sendVars
<1>11. CASE SendFails(m)
  <2>1. UNCHANGED <<line, idb>> /\ pc[m] = "sending"
    BY <1>11 DEF SendFails, historyVars
  <2>2. CASE UNCHANGED <<pc, chain>>
    BY <1>9, <2>1, <2>2
  <2>3. CASE Goes(m, "gaveUp") /\ chain' = Tail(chain)
    <3>1. pc'[m] = "gaveUp" /\ \A n \in Messages : n # m => pc'[n] = pc[n]
      BY <1>0, <2>3, GoesTypes
    <3>2. SameQueue
      BY <1>0, <2>1, <3>1, QueueGrows
    <3> QED
      BY <1>0, <1>t, <2>1, <2>3, <3>1, <3>2, SettlingKeepsOrder DEF Sending, Settled
  <2> QED
    BY <1>11, <2>2, <2>3 DEF SendFails
<1> QED
  BY <1>1, <1>2, <1>3, <1>5, <1>6, <1>7, <1>8, <1>10, <1>11 DEF SendStep

\* A step that only touches the transaction queue, and nobody's enqueueing.
LEMMA BackgroundOrder ==
    ASSUME IInv, UNCHANGED <<line, chain, pc>>,
           \/ idb' = idb \/ Request(Flush)
           \/ /\ idb # <<>> /\ Head(idb) \in {Flush, User}
              /\ idb' = Tail(idb) \/ idb' = Append(Tail(idb), Flush)
    PROVE  OrderInv'
<1>0. /\ TypeOK /\ OrderInv /\ Flush \in Actor /\ Flush \notin Messages /\ User \notin Messages
      /\ pc' \in [Messages -> Stage]
  BY Actors DEF IInv, Actor, TypeOK
<1>1. SamePlaces
  BY <1>0 DEF SamePlaces
<1>2. SameQueue
  <2>1. CASE idb' = idb \/ Request(Flush)
    BY <1>0, <2>1, QueueGrows DEF Request
  <2>2. CASE ~(idb' = idb \/ Request(Flush))
    BY <1>0, <2>2, QueueShrinks
  <2> QED
    BY <2>1, <2>2
<1> QED
  BY <1>0, <1>1, <1>2, SamePlacesKeepOrder

LEMMA SendTransactionOrder ==
    ASSUME IInv, NEW m \in Messages, NEW commits \in BOOLEAN, SendTransaction(m, commits)
    PROVE  OrderInv'
<1>0. /\ TypeOK /\ OrderInv /\ SendHasReason /\ m \in Actor /\ idb # <<>> /\ Head(idb) = m
      /\ idb' = Tail(idb) /\ UNCHANGED line
      /\ {"uploading", "sending", "succeeded", "failed"} \subseteq Stage
  BY DEF IInv, StoreInv, Stage, Transacting, Settled, Actor, SendTransaction
<1>1. ASSUME NEW stage \in {"uploading", "sending"}, pc[m] \in Sending, Goes(m, stage), UNCHANGED chain
      PROVE  OrderInv'
  <2>1. pc' \in [Messages -> Stage] /\ pc'[m] = stage /\ \A n \in Messages : n # m => pc'[n] = pc[n]
    BY <1>0, <1>1, GoesTypes
  <2>2. SamePlaces
    BY <1>0, <1>1, <2>1 DEF SamePlaces, Sending
  <2>3. SameQueue
    BY <1>0, <2>1, QueueShrinks
  <2> QED
    BY <1>0, <2>2, <2>3, SamePlacesKeepOrder
<1>2. CASE Enqueues(m, commits)
  <2>1. CASE pc[m] = "placing"
    BY <1>1, <1>2, <2>1 DEF Enqueues, Sending
  <2>2. CASE pc[m] = "enqueueing"
    BY <1>0, <1>2, <2>2, EnqueueKeepsOrder
  <2> QED
    BY <1>2, <2>1, <2>2 DEF Enqueues
<1>3. CASE Patches(m, commits)
  BY <1>1, <1>3 DEF Patches, Sending
<1>4. CASE Deletes(m, commits)
  <2>1. PICK stage \in {"succeeded", "failed"} : Goes(m, stage)
    BY <1>4 DEF Deletes
  <2>2. pc' \in [Messages -> Stage] /\ pc'[m] = stage /\ \A n \in Messages : n # m => pc'[n] = pc[n]
    BY <1>0, <2>1, GoesTypes
  <2>3. SameQueue
    BY <1>0, <2>2, QueueShrinks
  <2> QED
    BY <1>0, <1>4, <2>2, <2>3, SettlingKeepsOrder DEF Deletes, Sending, Settled
<1> QED
  BY <1>2, <1>3, <1>4 DEF SendTransaction

LEMMA NextOrder == ASSUME IInv, [Next]_vars PROVE OrderInv'
<1>1. ASSUME NEW commits \in BOOLEAN, Transaction(commits) PROVE OrderInv'
  <2>1. CASE FlushTransaction(commits)
    <3>1. /\ UNCHANGED <<line, chain, pc>> /\ idb # <<>> /\ Head(idb) \in {Flush, User}
      BY <2>1 DEF FlushTransaction, sendVars
    <3>2. idb' = Tail(idb) \/ idb' = Append(Tail(idb), Flush)
      BY <2>1 DEF FlushTransaction, FlushReads, FlushMarks, FlushDeletes, FlushPrunes, FlushGoesOn
    <3> QED
      BY <3>1, <3>2, BackgroundOrder
  <2>2. CASE UserTransaction(commits)
    BY <2>2, BackgroundOrder DEF UserTransaction, sendVars, historyVars
  <2> QED
    BY <1>1, <2>1, <2>2, SendTransactionOrder DEF Transaction
<1>2. CASE FlushCalled \/ FlushScrubs
  BY <1>2, BackgroundOrder DEF FlushCalled, FlushScrubs, sendVars, historyVars
<1>3. CASE FlushSkips
  <2>1. UNCHANGED <<line, chain, pc>> /\ (idb' = idb \/ Request(Flush))
    BY <1>3 DEF FlushSkips, FlushGoesOn, Request, sendVars, historyVars
  <2> QED
    BY <2>1, BackgroundOrder
<1>4. CASE UNCHANGED vars
  BY <1>4, BackgroundOrder DEF vars, sendVars, historyVars
<1>5. CASE Reload
  BY <1>5, ReloadKeepsOrder DEF IInv
<1> QED
  BY <1>1, <1>2, <1>3, <1>4, <1>5, SendOrder DEF Next, Commits, StorageFails

-----------------------------------------------------------------------------
(* Theorems *)

LEMMA Invariant == Safety => []IInv
<1>1. IInv /\ [Next]_vars => IInv'
  BY NextTypes, NextReasons, NextOrder DEF IInv
<1> QED
  BY <1>1, InitInv, PTL DEF Safety

\* The outbox's state has its types through every interleaving; in particular
\* a settling send is at the head of its chain and the flush has an entry in hand.
THEOREM OutboxTypeCorrect == Safety => []TypeOK
<1>1. IInv => TypeOK
  BY DEF IInv
<1> QED
  BY <1>1, Invariant, PTL

-----------------------------------------------------------------------------
(* Nothing is lost *)

\* An entry that a step takes out of the store was disposed of.
LEMMA EntriesStay ==
    ASSUME IInv, [Next]_vars, NEW m \in Messages, Stored(m), ~Stored(m)'
    PROVE  m \in server \cup refused \/ m \in abandoned' \cap Attachments
<1>0. TypeOK /\ StoreInv /\ OnlyAttachmentsFail /\ FlushHasReason /\ SendHasReason
  BY DEF IInv, StoreInv
<1>1. store' # store
  BY DEF Stored
<1>2. ASSUME NEW n, store' = Dequeued(n) PROVE m = n
  <2>1. store' = Without({n})
    BY <1>2 DEF Dequeued
  <2> QED
    BY <1>0, <2>1, WithoutEntries DEF Stored
<1>3. ASSUME NEW n \in Messages, NEW commits \in BOOLEAN, SendTransaction(n, commits)
      PROVE  m \in server \cup refused \/ m \in abandoned' \cap Attachments
  <2>1. CASE Enqueues(n, commits)
    <3>1. store' = Enqueued(n)
      BY <1>1, <2>1 DEF Enqueues
    <3> QED
      BY <1>0, <3>1, EnqueuedEntries DEF Stored
  <2>2. CASE Patches(n, commits)
    <3>1. store' = Uploaded(n)
      BY <1>1, <2>2 DEF Patches
    <3> QED
      BY <1>0, <3>1, UploadedEntries DEF Stored
  <2>3. CASE Deletes(n, commits)
    <3>1. store' = Dequeued(n)
      BY <1>1, <2>3 DEF Deletes
    <3>2. m = n
      BY <1>2, <3>1
    <3> QED
      BY <1>0, <2>3, <3>2 DEF Deletes, SendHasReason
  <2> QED
    BY <1>3, <2>1, <2>2, <2>3 DEF SendTransaction
<1>4. ASSUME NEW commits \in BOOLEAN, FlushTransaction(commits)
      PROVE  m \in server \cup refused \/ m \in abandoned' \cap Attachments
  <2>1. CASE FlushReads(commits)
    BY <1>1, <2>1 DEF FlushReads
  <2>2. CASE FlushMarks(commits)
    <3>1. store' = MarkedFailed(flush.todo[1].id)
      BY <1>1, <2>2 DEF FlushMarks
    <3> QED
      BY <1>0, <2>2, <3>1, MarkedEntries DEF FlushMarks, FlushHasReason, Stored
  <2>3. CASE FlushDeletes(commits)
    <3>1. store' = Dequeued(flush.todo[1].id)
      BY <1>1, <2>3 DEF FlushDeletes
    <3>2. m = flush.todo[1].id
      BY <1>2, <3>1
    <3> QED
      BY <1>0, <2>3, <3>2 DEF FlushDeletes, FlushHasReason
  <2>4. CASE FlushPrunes(commits)
    <3>1. store' = Without(Evicted) /\ abandoned' = abandoned \cup Evicted
      BY <1>1, <2>4 DEF FlushPrunes
    <3>2. m \in Evicted
      BY <1>0, <3>1, WithoutEntries DEF Stored
    <3>3. m \in Attachments
      BY <1>0, <3>2 DEF Evicted, Failed, OnlyAttachmentsFail
    <3> QED
      BY <3>1, <3>2, <3>3
  <2> QED
    BY <1>4, <2>1, <2>2, <2>3, <2>4 DEF FlushTransaction
<1>5. ASSUME NEW commits \in BOOLEAN, UserTransaction(commits)
      PROVE  m \in abandoned' \cap Attachments
  <2>1. store' = Dequeued(dismissed)
    BY <1>1, <1>5 DEF UserTransaction
  <2>2. m = dismissed
    BY <1>2, <2>1
  <2>3. m # User /\ abandoned' = abandoned
    BY <1>5, Actors DEF UserTransaction, historyVars
  <2> QED
    BY <1>0, <2>2, <2>3 DEF OnlyAttachmentsFail
<1>6. PICK commits \in BOOLEAN : Transaction(commits)
  BY <1>1 DEF Next, CallText, CallAttachment, SendStep, SealSettles, StartSend, UploadSettles,
         SendSucceeds, SendRefused, ServerAccepts, ServerRefuses, SendFails, Dismiss, FlushCalled,
         FlushScrubs, FlushSkips, Commits, StorageFails, Reload, vars
<1> QED
  BY <1>3, <1>4, <1>5, <1>6 DEF Transaction

\* The histories and the server's answers only grow.
LEMMA HistoriesGrow ==
    ASSUME [Next]_vars
    PROVE  server \subseteq server' /\ refused \subseteq refused' /\ abandoned \subseteq abandoned'
<1>1. ASSUME NEW commits \in BOOLEAN, Transaction(commits)
      PROVE  server' = server /\ refused' = refused /\ abandoned \subseteq abandoned'
  <2>1. ASSUME NEW m \in Messages, SendTransaction(m, commits)
        PROVE  server' = server /\ refused' = refused /\ abandoned \subseteq abandoned'
    BY <2>1 DEF SendTransaction, Enqueues, Patches, Deletes
  <2>2. CASE FlushTransaction(commits)
    BY <2>2 DEF FlushTransaction, FlushReads, FlushMarks, FlushDeletes, FlushPrunes
  <2>3. CASE UserTransaction(commits)
    BY <2>3 DEF UserTransaction, historyVars
  <2> QED
    BY <1>1, <2>1, <2>2, <2>3 DEF Transaction
<1>2. CASE Commits \/ StorageFails
  BY <1>1, <1>2 DEF Commits, StorageFails
<1>3. ASSUME NEW m \in Messages, CallText(m) \/ CallAttachment(m) \/ SendStep(m) \/ ServerAccepts(m)
                                  \/ ServerRefuses(m) \/ SendFails(m) \/ Dismiss(m)
      PROVE  server \subseteq server' /\ refused \subseteq refused' /\ abandoned \subseteq abandoned'
  BY <1>3 DEF CallText, CallAttachment, SendStep, SealSettles, StartSend, UploadSettles,
         SendSucceeds, SendRefused, ServerAccepts, ServerRefuses, SendFails, Dismiss, historyVars
<1>4. CASE FlushCalled \/ FlushScrubs \/ FlushSkips \/ Reload \/ UNCHANGED vars
  BY <1>4 DEF FlushCalled, FlushScrubs, FlushSkips, Reload, vars, historyVars
<1> QED
  BY <1>2, <1>3, <1>4 DEF Next

\* Only the commit of its enqueue makes a message persisted, and puts it there.
LEMMA PersistedByEnqueue ==
    ASSUME TypeOK, [Next]_vars, NEW m \in Messages,
           (m \in persisted' /\ m \notin persisted) \/ (Stored(m)' /\ ~Stored(m))
    PROVE  NotYetStored(m) /\ Stored(m)'
<1>1. ASSUME NEW ids, store' = Without(ids), Stored(m)' PROVE Stored(m)
  BY <1>1, WithoutEntries DEF Stored
<1>2. store' # store \/ persisted' # persisted
  BY DEF Stored
<1>3. PICK commits \in BOOLEAN : Transaction(commits)
  BY <1>2 DEF Next, CallText, CallAttachment, SendStep, SealSettles, StartSend, UploadSettles,
         SendSucceeds, SendRefused, ServerAccepts, ServerRefuses, SendFails, Dismiss, FlushCalled,
         FlushScrubs, FlushSkips, Commits, StorageFails, Reload, vars, historyVars
<1>4. ~FlushTransaction(commits)
  <2> SUFFICES ASSUME FlushTransaction(commits) PROVE FALSE
    OBVIOUS
  <2>1. persisted' = persisted /\ Stored(m)' /\ ~Stored(m)
    BY DEF FlushTransaction
  <2>2. store' # store
    BY <2>1 DEF Stored
  <2>3. CASE FlushReads(commits)
    BY <2>2, <2>3 DEF FlushReads
  <2>4. CASE FlushMarks(commits)
    <3>1. store' = MarkedFailed(flush.todo[1].id)
      BY <2>2, <2>4 DEF FlushMarks
    <3> QED
      BY <2>1, <3>1, MarkedEntries DEF Stored
  <2>5. CASE FlushDeletes(commits)
    <3>1. store' = Without({flush.todo[1].id})
      BY <2>2, <2>5 DEF FlushDeletes, Dequeued
    <3> QED
      BY <1>1, <2>1, <3>1
  <2>6. CASE FlushPrunes(commits)
    <3>1. store' = Without(Evicted)
      BY <2>2, <2>6 DEF FlushPrunes
    <3> QED
      BY <1>1, <2>1, <3>1
  <2> QED
    BY <2>3, <2>4, <2>5, <2>6 DEF FlushTransaction
<1>5. ~UserTransaction(commits)
  <2> SUFFICES ASSUME UserTransaction(commits) PROVE FALSE
    OBVIOUS
  <2>1. persisted' = persisted /\ Stored(m)' /\ ~Stored(m)
    BY DEF UserTransaction, historyVars
  <2>2. store' # store
    BY <2>1 DEF Stored
  <2>3. store' = Without({dismissed})
    BY <2>2 DEF UserTransaction, Dequeued
  <2> QED
    BY <1>1, <2>1, <2>3
<1>6. PICK n \in Messages : SendTransaction(n, commits)
  BY <1>3, <1>4, <1>5 DEF Transaction
<1>7. ~Patches(n, commits)
  <2> SUFFICES ASSUME Patches(n, commits) PROVE FALSE
    OBVIOUS
  <2>1. persisted' = persisted /\ Stored(m)' /\ ~Stored(m)
    BY DEF Patches
  <2>2. store' # store
    BY <2>1 DEF Stored
  <2>3. store' = Uploaded(n)
    BY <2>2 DEF Patches
  <2> QED
    BY <2>1, <2>3 DEF Uploaded, Stored
<1>8. ~Deletes(n, commits)
  <2> SUFFICES ASSUME Deletes(n, commits) PROVE FALSE
    OBVIOUS
  <2>1. persisted' = persisted /\ Stored(m)' /\ ~Stored(m)
    BY DEF Deletes
  <2>2. store' # store
    BY <2>1 DEF Stored
  <2>3. store' = Without({n})
    BY <2>2 DEF Deletes, Dequeued
  <2> QED
    BY <1>1, <2>1, <2>3
<1>9. Enqueues(n, commits)
  BY <1>6, <1>7, <1>8 DEF SendTransaction
<1>10. store' = Enqueued(n) /\ persisted' = persisted \cup {n}
  BY <1>2, <1>9 DEF Enqueues
<1>11. /\ \A i \in DOMAIN store' :
            (i \in DOMAIN store /\ store'[i] = store[i]) \/ store'[i].id = n
       /\ \E i \in DOMAIN store' : store'[i].id = n
  BY <1>10, EnqueuedEntries
<1>12. m = n
  BY <1>10, <1>11 DEF Stored
<1> QED
  BY <1>9, <1>11, <1>12 DEF Enqueues, NotYetStored, Stored

\* Whatever was once stored is still there, or the server has accepted or
\* refused it, or it is an attachment that was given up: across reloads, retries,
\* stale snapshots and evictions.
THEOREM NothingIsLost == Safety => []NothingLost
<1>1. Init => NothingLost
  BY DEF Init, NothingLost
<1>2. IInv /\ NothingLost /\ [Next]_vars => NothingLost'
  <2> SUFFICES ASSUME IInv, NothingLost, [Next]_vars, NEW m \in persisted', ~Stored(m)'
               PROVE  m \in server' \cup refused' \/ m \in abandoned' \cap Attachments
    BY DEF NothingLost
  <2>0. TypeOK /\ TypeOK'
    BY NextTypes DEF IInv
  <2>1. m \in Messages
    BY <2>0 DEF TypeOK
  <2>2. m \in persisted
    BY <2>0, <2>1, PersistedByEnqueue
  <2>3. CASE Stored(m)
    BY <2>1, <2>3, EntriesStay, HistoriesGrow
  <2>4. CASE ~Stored(m)
    BY <2>2, <2>4, HistoriesGrow DEF NothingLost
  <2> QED
    BY <2>3, <2>4
<1> QED
  BY <1>1, <1>2, Invariant, PTL DEF Safety

\* An entry that was delivered, dismissed or evicted never comes back.
THEOREM NothingComesBack == Safety => NoResurrection
<1>1. IInv /\ [Next]_vars =>
        [\A m \in Messages : m \in persisted /\ ~Stored(m) => ~Stored(m)']_vars
  <2> SUFFICES ASSUME IInv, [Next]_vars, NEW m \in Messages, m \in persisted, ~Stored(m), Stored(m)'
               PROVE  FALSE
    OBVIOUS
  <2> QED
    BY PersistedByEnqueue DEF IInv, StoreInv, SendHasReason
<1> QED
  BY <1>1, Invariant, PTL DEF Safety, NoResurrection

-----------------------------------------------------------------------------
(* Nobody overtakes *)

Entering == {"idle", "sealing", "enqueueing"}

\* What was stored is in the line, in the store's and the flush's order.
IdsInv ==
    /\ \A m \in persisted : InLine(m)
    /\ \A p \in DOMAIN store : store[p].id \in persisted
    /\ \A q \in DOMAIN flush.todo : flush.todo[q].id \in persisted
    /\ \A m \in stumbled : ~NotYetStored(m)

\* A text that is past its enqueue transaction was stored, unless that failed.
EnteredInv ==
    \A m \in Texts : pc[m] \in Entering \cup {"lost"} \/ m \in persisted \cup stumbled

\* Texts are stored in the order of the line, but for failed enqueues and for
\* what an earlier page lost.
EnqueuedInTurn ==
    \A a, b \in DOMAIN line :
        a < b /\ line[a] \in Texts /\ line[b] \in Texts /\ line[b] \in persisted =>
            line[a] \in persisted \cup stumbled \/ pc[line[a]] = "lost"

StoredInTurn ==
    \A p, q \in DOMAIN store, a, b \in DOMAIN line :
        /\ p < q /\ store[p].id = line[a] /\ store[q].id = line[b]
        /\ line[a] \in Texts /\ line[b] \in Texts
        => a < b

\* A text that the flush has in hand comes behind those before it in the line.
Passed(m) == pc[m] \in Settled \/ Reached(m) \/ m \in stumbled

FlushInTurn ==
    \A q \in DOMAIN flush.todo, a, b \in DOMAIN line :
        a < b /\ flush.todo[q].id = line[b] /\ line[a] \in Texts /\ line[b] \in Texts =>
            Passed(line[a]) \/ \E p \in DOMAIN flush.todo : p < q /\ flush.todo[p].id = line[a]

TurnInv == IdsInv /\ EnteredInv /\ EnqueuedInTurn /\ StoredInTurn /\ FlushInTurn

\* The message whose enqueue transaction is at the head of the queue.
Enqueuing(m) ==
    idb # <<>> /\ Head(idb) = m /\ m \in Messages /\ pc[m] \in {"enqueueing", "placing"}

LEMMA InitTurns == Init => TurnInv
<1> SUFFICES ASSUME Init PROVE TurnInv
  OBVIOUS
<1>1. /\ store = <<>> /\ line = <<>> /\ flush.todo = <<>> /\ persisted = {} /\ stumbled = {}
      /\ pc \in [Messages -> {"idle", "lost"}]
  BY DEF Init, NoFlush
<1>2. IdsInv /\ EnqueuedInTurn /\ StoredInTurn /\ FlushInTurn
  BY <1>1 DEF IdsInv, EnqueuedInTurn, StoredInTurn, FlushInTurn
<1>3. EnteredInv
  BY <1>1 DEF EnteredInv, Entering, Messages
<1> QED
  BY <1>2, <1>3 DEF TurnInv

-----------------------------------------------------------------------------
(* What a step does to the stages, the line and the histories *)

LEMMA StagesMove ==
    ASSUME IInv, [Next]_vars, NEW m \in Messages
    PROVE  /\ pc[m] \in Settled => pc'[m] = pc[m]
           /\ NotYetStored(m)' => NotYetStored(m)
           /\ m \in Texts /\ pc[m] \in Entering /\ pc'[m] \notin Entering \cup {"lost"} =>
                m \in persisted' \cup stumbled'
<1> DEFINE Goal == /\ pc[m] \in Settled => pc'[m] = pc[m]
                   /\ NotYetStored(m)' => NotYetStored(m)
                   /\ m \in Texts /\ pc[m] \in Entering /\ pc'[m] \notin Entering \cup {"lost"} =>
                        m \in persisted' \cup stumbled'
<1>0. /\ TypeOK /\ SendHasReason
      /\ {"sealing", "queued", "enqueueing", "placing", "uploading", "patching", "sending", "deleting",
          "scrapping", "gaveUp", "succeeded", "failed"} \subseteq Stage
  BY DEF IInv, StoreInv, Stage, Settled, Transacting
<1>1. ASSUME pc' = pc PROVE Goal
  BY <1>1 DEF NotYetStored
<1>2. ASSUME NEW n \in Messages, NEW stage \in Stage, Goes(n, stage), pc[n] \notin Settled,
             stage \in {"idle", "sealing", "enqueueing", "placing"} => NotYetStored(n),
             n \in Attachments /\ stage = "queued" => NotYetStored(n),
             n \in Texts /\ pc[n] \in Entering /\ stage \notin Entering =>
                n \in persisted' \cup stumbled'
      PROVE  Goal
  <2>1. pc'[n] = stage /\ \A k \in Messages : k # n => pc'[k] = pc[k]
    BY <1>0, <1>2, GoesTypes
  <2>2. CASE m = n
    BY <1>2, <2>1, <2>2 DEF NotYetStored
  <2>3. CASE m # n
    <3>1. pc'[m] = pc[m]
      BY <2>1, <2>3
    <3> QED
      BY <3>1 DEF NotYetStored
  <2> QED
    BY <2>2, <2>3
<1> USE DEF Settled, Entering, NotYetStored
<1>3. ASSUME NEW n \in Messages,
             \/ CallText(n) \/ CallAttachment(n) \/ SendStep(n) \/ ServerAccepts(n)
             \/ ServerRefuses(n) \/ SendFails(n) \/ Dismiss(n)
      PROVE  Goal
  <2>0. n \in Texts => n \notin Attachments
    BY Actors
  <2> HIDE DEF Goal
  <2>1. CASE CallText(n)
    BY <1>0, <1>2, <2>1 DEF CallText
  <2>2. CASE CallAttachment(n)
    BY <1>0, <1>2, <2>0, <2>2 DEF CallAttachment
  <2>3. CASE SealSettles(n)
    BY <1>0, <1>2, <2>3 DEF SealSettles
  <2>4. CASE StartSend(n)
    BY <1>0, <1>2, <2>4 DEF StartSend
  <2>5. CASE UploadSettles(n)
    BY <1>0, <1>2, <2>5 DEF UploadSettles
  <2>6. CASE SendSucceeds(n)
    BY <1>0, <1>2, <2>6 DEF SendSucceeds
  <2>7. CASE SendRefused(n)
    BY <1>0, <1>2, <2>7 DEF SendRefused
  <2>8. CASE ServerAccepts(n) \/ ServerRefuses(n) \/ Dismiss(n)
    BY <1>1, <2>8 DEF ServerAccepts, ServerRefuses, Dismiss, sendVars
  <2>9. CASE SendFails(n)
    <3>1. CASE pc' = pc
      BY <1>1, <3>1
    <3>2. CASE pc' # pc
      BY <1>0, <1>2, <2>9, <3>2 DEF SendFails
    <3> QED
      BY <3>1, <3>2
  <2> QED
    BY <1>3, <2>1, <2>2, <2>3, <2>4, <2>5, <2>6, <2>7, <2>8, <2>9 DEF SendStep
<1>4. ASSUME NEW n \in Messages, NEW commits \in BOOLEAN, SendTransaction(n, commits)
      PROVE  Goal
  <2>0. n \in Texts => n \notin Attachments
    BY Actors
  <2> HIDE DEF Goal
  <2>1. CASE Enqueues(n, commits)
    <3>1. n \in persisted' \cup stumbled'
      BY <2>1 DEF Enqueues
    <3>2. CASE pc[n] = "placing"
      BY <1>0, <1>2, <2>1, <3>1, <3>2 DEF Enqueues
    <3>3. CASE pc[n] = "enqueueing"
      <4>1. n \notin Attachments
        BY <1>0, <2>0, <3>3 DEF SendHasReason
      <4> QED
        BY <1>0, <1>2, <2>1, <3>1, <3>3, <4>1 DEF Enqueues
    <3> QED
      BY <2>1, <3>2, <3>3 DEF Enqueues
  <2>2. CASE Patches(n, commits)
    BY <1>0, <1>2, <2>2 DEF Patches
  <2>3. CASE Deletes(n, commits)
    BY <1>0, <1>2, <2>3 DEF Deletes
  <2> QED
    BY <1>4, <2>1, <2>2, <2>3 DEF SendTransaction
<1>5. ASSUME NEW commits \in BOOLEAN, Transaction(commits) PROVE Goal
  BY <1>1, <1>4, <1>5 DEF Transaction, FlushTransaction, UserTransaction, sendVars
<1>6. CASE Reload
  <2>1. pc'[m] = IF pc[m] \in Settled \cup {"idle"} THEN pc[m] ELSE "lost"
    BY <1>6 DEF Reload
  <2> QED
    BY <2>1
<1>7. CASE FlushCalled \/ FlushScrubs \/ FlushSkips \/ UNCHANGED vars
  BY <1>1, <1>7 DEF FlushCalled, FlushScrubs, FlushSkips, vars, sendVars
<1> QED
  BY <1>3, <1>5, <1>6, <1>7 DEF Next, Commits, StorageFails

\* A step enqueues a message, adds a new one to the line, or does neither.
LEMMA LineMoves ==
    ASSUME IInv, [Next]_vars
    PROVE  \/ \E m \in Messages : /\ line' = Append(line, m) /\ NotYetStored(m)
                                  /\ UNCHANGED <<store, persisted, stumbled, flush>>
           \/ \E m \in Messages :
                /\ Enqueuing(m)
                /\ \/ persisted' = persisted \cup {m} /\ store' = Enqueued(m) /\ stumbled' = stumbled
                   \/ stumbled' = stumbled \cup {m} /\ UNCHANGED <<persisted, store>>
                /\ ~NotYetStored(m)'
                /\ UNCHANGED <<line, flush>>
           \/ UNCHANGED <<line, persisted, stumbled>>
           \/ FlushSkips
<1>0. TypeOK /\ SendHasReason
  BY DEF IInv, StoreInv
<1>1. ASSUME NEW m \in Messages, CallAttachment(m) \/ SealSettles(m)
      PROVE  /\ line' = Append(line, m) /\ NotYetStored(m)
             /\ UNCHANGED <<store, persisted, stumbled, flush>>
  BY <1>1 DEF CallAttachment, SealSettles, NotYetStored
<1>2. ASSUME NEW m \in Messages,
             \/ CallText(m) \/ StartSend(m) \/ UploadSettles(m) \/ SendSucceeds(m) \/ SendRefused(m)
             \/ ServerAccepts(m) \/ ServerRefuses(m) \/ SendFails(m) \/ Dismiss(m)
      PROVE  UNCHANGED <<line, persisted, stumbled>>
  BY <1>2 DEF CallText, StartSend, UploadSettles, SendSucceeds, SendRefused, ServerAccepts,
         ServerRefuses, SendFails, Dismiss, historyVars
<1>3. ASSUME NEW m \in Messages, NEW commits \in BOOLEAN, SendTransaction(m, commits),
             Enqueues(m, commits)
      PROVE  /\ Enqueuing(m)
             /\ \/ persisted' = persisted \cup {m} /\ store' = Enqueued(m) /\ stumbled' = stumbled
                \/ stumbled' = stumbled \cup {m} /\ UNCHANGED <<persisted, store>>
             /\ ~NotYetStored(m)'
             /\ UNCHANGED <<line, flush>>
  <2>1. Enqueuing(m) /\ UNCHANGED <<line, flush>>
    BY <1>3 DEF SendTransaction, Enqueues, Enqueuing
  <2>2. \/ persisted' = persisted \cup {m} /\ store' = Enqueued(m) /\ stumbled' = stumbled
        \/ stumbled' = stumbled \cup {m} /\ UNCHANGED <<persisted, store>>
    BY <1>3 DEF Enqueues
  <2>3. {"uploading", "queued"} \subseteq Stage
    BY DEF Stage
  <2>4. CASE pc[m] = "placing"
    <3>1. pc'[m] = "uploading"
      BY <1>0, <1>3, <2>3, <2>4, GoesTypes DEF Enqueues
    <3> QED
      BY <2>1, <2>2, <3>1 DEF NotYetStored
  <2>5. CASE pc[m] = "enqueueing"
    <3>1. pc'[m] = "queued"
      BY <1>0, <1>3, <2>3, <2>5, GoesTypes DEF Enqueues
    <3>2. m \notin Attachments
      BY <1>0, <2>5, Actors DEF SendHasReason
    <3> QED
      BY <2>1, <2>2, <3>1, <3>2 DEF NotYetStored
  <2> QED
    BY <2>1, <2>4, <2>5 DEF Enqueuing
<1>4. ASSUME NEW m \in Messages, NEW commits \in BOOLEAN, SendTransaction(m, commits),
             ~Enqueues(m, commits)
      PROVE  UNCHANGED <<line, persisted, stumbled>>
  BY <1>4 DEF SendTransaction, Patches, Deletes
<1>5. ASSUME NEW commits \in BOOLEAN, FlushTransaction(commits) \/ UserTransaction(commits)
      PROVE  UNCHANGED <<line, persisted, stumbled>>
  BY <1>5 DEF FlushTransaction, UserTransaction, historyVars
<1>6. CASE FlushCalled \/ FlushScrubs \/ Reload \/ UNCHANGED vars
  BY <1>6 DEF FlushCalled, FlushScrubs, Reload, vars, historyVars
<1> QED
  BY <1>1, <1>2, <1>3, <1>4, <1>5, <1>6 DEF Next, SendStep, Commits, StorageFails, Transaction

\* The entries a step leaves in the store are entries of it, in its order.
SubStore ==
    /\ \A i \in DOMAIN store' : \E p \in DOMAIN store : store'[i].id = store[p].id
    /\ \A i, j \in DOMAIN store' : i < j =>
         \E p, q \in DOMAIN store :
            p < q /\ store'[i].id = store[p].id /\ store'[j].id = store[q].id

LEMMA StoreMoves ==
    ASSUME IInv, [Next]_vars
    PROVE  \/ SubStore
           \/ \E m \in Messages : /\ Enqueuing(m) /\ store' = Enqueued(m)
                                  /\ persisted' = persisted \cup {m} /\ UNCHANGED <<line, stumbled>>
<1>0. TypeOK
  BY DEF IInv
<1>1. ASSUME store' = store PROVE SubStore
  BY <1>1 DEF SubStore
<1>2. ASSUME NEW ids, store' = Without(ids) PROVE SubStore
  <2> DEFINE keep == {i \in DOMAIN store : store[i].id \notin ids}
  <2>1. store \in Seq(Entry) /\ keep \subseteq DOMAIN store /\ store' = Kept(store, keep)
    BY <1>0, <1>2 DEF TypeOK, Without
  <2> HIDE DEF keep
  <2>2. \A i \in DOMAIN store' : \E p \in keep : store'[i] = store[p]
    BY <2>1, KeptElements
  <2>3. \A i, j \in DOMAIN store' : i < j =>
            \E p, q \in keep : p < q /\ store'[i] = store[p] /\ store'[j] = store[q]
    BY <2>1, KeptInOrder
  <2>4. \A i \in DOMAIN store' : \E p \in DOMAIN store : store'[i].id = store[p].id
    BY <2>1, <2>2
  <2>5. ASSUME NEW i \in DOMAIN store', NEW j \in DOMAIN store', i < j
        PROVE  \E p, q \in DOMAIN store :
                    p < q /\ store'[i].id = store[p].id /\ store'[j].id = store[q].id
    <3>1. PICK p \in keep, q \in keep : p < q /\ store'[i] = store[p] /\ store'[j] = store[q]
      BY <2>3, <2>5
    <3> QED
      BY <2>1, <3>1
  <2> QED
    BY <2>4, <2>5 DEF SubStore
<1>3. ASSUME DOMAIN store' = DOMAIN store, \A i \in DOMAIN store : store'[i].id = store[i].id
      PROVE  SubStore
  BY <1>3 DEF SubStore
<1>4. ASSUME NEW m \in Messages, NEW commits \in BOOLEAN, SendTransaction(m, commits), ~SubStore
      PROVE  /\ Enqueuing(m) /\ store' = Enqueued(m)
             /\ persisted' = persisted \cup {m} /\ UNCHANGED <<line, stumbled>>
  <2>1. CASE Enqueues(m, commits)
    BY <1>1, <1>4, <2>1 DEF SendTransaction, Enqueues, Enqueuing
  <2>2. CASE Patches(m, commits)
    BY <1>0, <1>1, <1>3, <1>4, <2>2, UploadedEntries DEF Patches
  <2>3. CASE Deletes(m, commits)
    BY <1>1, <1>2, <1>4, <2>3 DEF Deletes, Dequeued
  <2> QED
    BY <1>4, <2>1, <2>2, <2>3 DEF SendTransaction
<1>5. ASSUME NEW commits \in BOOLEAN, FlushTransaction(commits) PROVE SubStore
  <2>1. CASE FlushReads(commits)
    BY <1>1, <2>1 DEF FlushReads
  <2>2. CASE FlushMarks(commits)
    BY <1>0, <1>1, <1>3, <2>2, MarkedEntries DEF FlushMarks
  <2>3. CASE FlushDeletes(commits)
    BY <1>1, <1>2, <2>3 DEF FlushDeletes, Dequeued
  <2>4. CASE FlushPrunes(commits)
    BY <1>1, <1>2, <2>4 DEF FlushPrunes
  <2> QED
    BY <1>5, <2>1, <2>2, <2>3, <2>4 DEF FlushTransaction
<1>6. ASSUME NEW commits \in BOOLEAN, UserTransaction(commits) PROVE SubStore
  BY <1>1, <1>2, <1>6 DEF UserTransaction, Dequeued
<1>7. ASSUME ~\E commits \in BOOLEAN : Transaction(commits) PROVE store' = store
  BY <1>7 DEF Next, CallText, CallAttachment, SendStep, SealSettles, StartSend, UploadSettles,
         SendSucceeds, SendRefused, ServerAccepts, ServerRefuses, SendFails, Dismiss, FlushCalled,
         FlushScrubs, FlushSkips, Commits, StorageFails, Reload, vars
<1> QED
  BY <1>1, <1>4, <1>5, <1>6, <1>7 DEF Transaction

\* What the flush has in hand is what it had, a snapshot of the store, or the
\* rest of it behind an entry that it is done with.
Snapshot == Kept(store, {i \in DOMAIN store : ~store[i].sendFailed})

LEMMA TodoMoves ==
    ASSUME IInv, [Next]_vars
    PROVE  \/ flush'.todo = flush.todo
           \/ flush'.todo = <<>>
           \/ /\ flush'.todo = Snapshot
              /\ UNCHANGED <<line, pc, persisted, stumbled, store, server, refused>>
           \/ /\ flush.todo # <<>> /\ flush'.todo = Tail(flush.todo)
              /\ flush.todo[1].id \in server \cup refused \cup stumbled' \cup Attachments
<1>0. TypeOK /\ FlushHasReason /\ OnlyAttachmentsFail /\ flush.todo \in Seq(Entry)
  BY DEF IInv, StoreInv, TypeOK
<1>1. ASSUME NEW todo, NEW rest, FlushGoesOn(todo, rest) PROVE flush'.todo = todo
  BY <1>1 DEF FlushGoesOn
<1>2. ASSUME NEW m \in Messages,
             \/ CallText(m) \/ CallAttachment(m) \/ SendStep(m) \/ ServerAccepts(m)
             \/ ServerRefuses(m) \/ SendFails(m) \/ Dismiss(m)
      PROVE  flush' = flush
  BY <1>2 DEF CallText, CallAttachment, SendStep, SealSettles, StartSend, UploadSettles,
         SendSucceeds, SendRefused, ServerAccepts, ServerRefuses, SendFails, Dismiss
<1>3. ASSUME NEW commits \in BOOLEAN, FlushReads(commits), FlushTransaction(commits)
      PROVE  \/ flush'.todo = <<>>
             \/ /\ flush'.todo = Snapshot
                /\ UNCHANGED <<line, pc, persisted, stumbled, store, server, refused>>
  <2>1. flush'.todo = IF commits THEN Snapshot ELSE <<>>
    BY <1>1, <1>3 DEF FlushReads, Snapshot
  <2> QED
    BY <1>3, <2>1 DEF FlushReads, FlushTransaction, sendVars
<1>4. ASSUME NEW commits \in BOOLEAN, FlushMarks(commits)
      PROVE  flush.todo # <<>> /\ flush'.todo = Tail(flush.todo) /\ flush.todo[1].id \in Attachments
  <2>1. flush.todo # <<>> /\ flush.todo[1].pendingAttachments
    BY <1>0, <1>4 DEF FlushMarks, FlushHasReason
  <2>2. 1 \in DOMAIN flush.todo
    BY <1>0, <2>1, TailOf
  <2> QED
    BY <1>0, <1>1, <1>4, <2>1, <2>2 DEF FlushMarks, OnlyAttachmentsFail
<1>5. ASSUME NEW commits \in BOOLEAN, FlushDeletes(commits)
      PROVE  /\ flush.todo # <<>> /\ flush'.todo = Tail(flush.todo)
             /\ flush.todo[1].id \in server \cup refused
  BY <1>0, <1>1, <1>5 DEF FlushDeletes, FlushHasReason
<1>6. ASSUME NEW commits \in BOOLEAN, FlushPrunes(commits) PROVE flush'.todo = <<>>
  BY <1>6 DEF FlushPrunes, NoFlush
<1>7. CASE FlushSkips
  <2>1. flush.todo # <<>> /\ flush.todo[1].id \in stumbled'
    BY <1>0, <1>7 DEF FlushSkips, FlushSends, FlushHasReason
  <2>2. flush'.todo = Tail(flush.todo)
    BY <1>1, <1>7 DEF FlushSkips
  <2> QED
    BY <2>1, <2>2
<1>8. CASE FlushCalled \/ FlushScrubs \/ Reload \/ UNCHANGED vars
  BY <1>0, <1>8 DEF FlushCalled, FlushScrubs, Reload, NoFlush, vars, TypeOK
<1>9. ASSUME NEW commits \in BOOLEAN, NEW m \in Messages,
             SendTransaction(m, commits) \/ UserTransaction(commits)
      PROVE  flush' = flush
  BY <1>9 DEF SendTransaction, UserTransaction
<1>10. ASSUME NEW commits \in BOOLEAN, UserTransaction(commits) PROVE flush' = flush
  BY <1>10 DEF UserTransaction
<1>11. ASSUME NEW commits \in BOOLEAN, Transaction(commits)
       PROVE  \/ flush'.todo = flush.todo
              \/ flush'.todo = <<>>
              \/ /\ flush'.todo = Snapshot
                 /\ UNCHANGED <<line, pc, persisted, stumbled, store, server, refused>>
              \/ /\ flush.todo # <<>> /\ flush'.todo = Tail(flush.todo)
                 /\ flush.todo[1].id \in server \cup refused \cup stumbled' \cup Attachments
  BY <1>3, <1>4, <1>5, <1>6, <1>9, <1>10, <1>11 DEF Transaction, FlushTransaction
<1> QED
  BY <1>2, <1>7, <1>8, <1>11 DEF Next, Commits, StorageFails

-----------------------------------------------------------------------------
(* The order of the texts is kept *)

LEMMA LineGrows ==
    ASSUME IInv, IdsInv, [Next]_vars
    PROVE  /\ persisted \subseteq persisted' /\ stumbled \subseteq stumbled'
           /\ \A k \in DOMAIN line : /\ k \in DOMAIN line' /\ line'[k] = line[k]
                                     /\ line[k] \in Messages /\ k \in Nat
           /\ \A k \in DOMAIN line' :
                \/ k \in DOMAIN line
                \/ /\ NotYetStored(line'[k]) /\ line'[k] \in Messages
                   /\ UNCHANGED <<store, persisted, stumbled, flush>>
                   /\ \A j \in DOMAIN line' : j <= k
<1>0. line \in Seq(Messages)
  BY DEF IInv, TypeOK
<1>1. \A k \in DOMAIN line : line[k] \in Messages /\ k \in Nat
  BY <1>0
<1>2. ASSUME NEW m \in Messages, line' = Append(line, m), NotYetStored(m),
             UNCHANGED <<store, persisted, stumbled, flush>>
      PROVE  /\ \A k \in DOMAIN line : k \in DOMAIN line' /\ line'[k] = line[k]
             /\ \A k \in DOMAIN line' :
                  k \in DOMAIN line \/ (line'[k] = m /\ \A j \in DOMAIN line' : j <= k)
  <2>1. /\ DOMAIN line' = 1..(Len(line) + 1) /\ DOMAIN line = 1..Len(line) /\ Len(line) \in Nat
        /\ \A i \in 1..Len(line) : line'[i] = line[i]
        /\ line'[Len(line) + 1] = m
    BY <1>0, <1>2, Appended
  <2>2. ASSUME NEW k \in DOMAIN line', k \notin DOMAIN line PROVE k = Len(line) + 1
    BY <2>1, <2>2
  <2> QED
    BY <2>1, <2>2
<1>3. CASE line' = line /\ persisted \subseteq persisted' /\ stumbled \subseteq stumbled'
  BY <1>1, <1>3
<1>4. CASE FlushSkips
  BY <1>3, <1>4 DEF FlushSkips, sendVars
<1> QED
  BY <1>1, <1>2, <1>3, <1>4, LineMoves

\* What has been stored is an old member of the line.
LEMMA OldInLine ==
    ASSUME IInv, IdsInv, [Next]_vars, NEW k \in DOMAIN line',
           line'[k] \in persisted' \/ (line'[k] \in persisted)
    PROVE  k \in DOMAIN line /\ line'[k] = line[k]
<1>1. ASSUME NotYetStored(line'[k]), line'[k] \in Messages, UNCHANGED persisted PROVE FALSE
  BY <1>1 DEF IInv, StoreInv, SendHasReason
<1> QED
  BY <1>1, LineGrows

LEMMA IdsStep == ASSUME IInv, IdsInv, [Next]_vars PROVE IdsInv'
<1>0. /\ TypeOK /\ TypeOK' /\ Placed /\ SendHasReason /\ FlushHasReason /\ store \in Seq(Entry)
      /\ flush.todo \in Seq(Entry)
  BY NextTypes DEF IInv, OrderInv, StoreInv, TypeOK
<1>1. \A m \in persisted' : InLine(m)'
  <2> SUFFICES ASSUME NEW m \in persisted' PROVE InLine(m)'
    OBVIOUS
  <2>1. InLine(m)
    <3>1. CASE m \in persisted
      BY <3>1 DEF IdsInv
    <3>2. CASE m \notin persisted
      <4>1. Enqueuing(m)
        BY <3>2, LineMoves DEF FlushSkips
      <4> QED
        BY <1>0, <4>1 DEF Enqueuing, Placed, Settled, Before
    <3> QED
      BY <3>1, <3>2
  <2> QED
    BY <2>1, LineGrows DEF InLine
<1>2. \A p \in DOMAIN store' : store'[p].id \in persisted'
  <2>1. CASE SubStore
    BY <2>1, LineGrows DEF SubStore, IdsInv
  <2>2. ASSUME NEW m \in Messages, store' = Enqueued(m), persisted' = persisted \cup {m}
        PROVE  \A p \in DOMAIN store' : store'[p].id \in persisted'
    BY <1>0, <2>2, EnqueuedEntries DEF IdsInv
  <2> QED
    BY <2>1, <2>2, StoreMoves
<1>3. \A q \in DOMAIN flush'.todo : flush'.todo[q].id \in persisted'
  <2>1. CASE flush'.todo = flush.todo
    BY <2>1, LineGrows DEF IdsInv
  <2>2. CASE flush'.todo = <<>>
    BY <2>2
  <2>3. CASE flush'.todo = Snapshot
    BY <1>0, <2>3, SnapshotEntries, LineGrows DEF IdsInv, Snapshot
  <2>4. CASE flush.todo # <<>> /\ flush'.todo = Tail(flush.todo)
    <3>1. \A q \in DOMAIN flush'.todo : q + 1 \in DOMAIN flush.todo /\ flush'.todo[q] = flush.todo[q + 1]
      BY <1>0, <2>4, TailOf
    <3> QED
      BY <3>1, LineGrows DEF IdsInv
  <2> QED
    BY <2>1, <2>2, <2>3, <2>4, TodoMoves
<1>4. \A m \in stumbled' : ~NotYetStored(m)'
  <2> SUFFICES ASSUME NEW m \in stumbled' PROVE ~NotYetStored(m)'
    OBVIOUS
  <2>1. m \in Messages
    BY <1>0 DEF TypeOK
  <2>2. CASE m \in stumbled
    BY <2>1, <2>2, StagesMove DEF IdsInv
  <2>3. CASE m \notin stumbled
    <3>1. CASE FlushSkips
      <4>1. flush.todo # <<>> /\ m = flush.todo[1].id
        BY <1>0, <2>3, <3>1 DEF FlushSkips, FlushSends, FlushHasReason
      <4>2. m \in persisted
        BY <1>0, <4>1, TailOf DEF IdsInv
      <4> QED
        BY <1>0, <2>1, <4>2, StagesMove DEF SendHasReason
    <3> QED
      BY <2>3, <3>1, LineMoves
  <2> QED
    BY <2>2, <2>3
<1> QED
  BY <1>1, <1>2, <1>3, <1>4 DEF IdsInv

LEMMA EnteredStep == ASSUME IInv, TurnInv, [Next]_vars PROVE EnteredInv'
<1> SUFFICES ASSUME NEW m \in Texts, pc'[m] \notin Entering \cup {"lost"}
             PROVE  m \in persisted' \cup stumbled'
  BY DEF EnteredInv
<1>0. m \in Messages /\ IdsInv
  BY DEF Messages, TurnInv
<1>1. CASE pc[m] \in Entering
  BY <1>0, <1>1, StagesMove
<1>2. CASE pc[m] = "lost"
  BY <1>0, <1>2, StagesMove DEF Settled
<1>3. CASE m \in persisted \cup stumbled
  BY <1>0, <1>3, LineGrows
<1> QED
  BY <1>1, <1>2, <1>3 DEF TurnInv, EnteredInv

LEMMA EnqueuedStep == ASSUME IInv, TurnInv, [Next]_vars PROVE EnqueuedInTurn'
<1> SUFFICES ASSUME NEW a \in DOMAIN line', NEW b \in DOMAIN line', a < b,
                    line'[a] \in Texts, line'[b] \in Texts, line'[b] \in persisted'
             PROVE  line'[a] \in persisted' \cup stumbled' \/ pc'[line'[a]] = "lost"
  BY DEF EnqueuedInTurn
<1>0. /\ IdsInv /\ EnteredInv /\ EnqueuedInTurn /\ Placed /\ QueueInOrder /\ NoRepeats
      /\ SendHasReason /\ idb \in Seq(Actor)
  BY DEF TurnInv, IInv, OrderInv, StoreInv, TypeOK, Actor
<1>1. b \in DOMAIN line /\ line'[b] = line[b] /\ line[b] \in Messages /\ b \in Nat
  BY <1>0, OldInLine, LineGrows
<1>2. a \in DOMAIN line /\ line'[a] = line[a] /\ line[a] \in Messages /\ a \in Nat
  <2>1. ASSUME \A j \in DOMAIN line' : j <= a PROVE FALSE
    <3>1. b <= a /\ a \in DOMAIN line'
      BY <2>1
    <3>2. line' \in Seq(Messages)
      BY NextTypes DEF TypeOK
    <3>3. a \in Nat
      BY <3>1, <3>2
    <3> QED
      BY <1>1, <3>1, <3>3
  <2>2. a \in DOMAIN line
    BY <1>0, <2>1, LineGrows
  <2> QED
    BY <1>0, <2>2, LineGrows
<1>3. ASSUME line[a] \in persisted \cup stumbled \/ pc[line[a]] = "lost"
      PROVE  line[a] \in persisted' \cup stumbled' \/ pc'[line[a]] = "lost"
  BY <1>0, <1>2, <1>3, LineGrows, StagesMove DEF Settled
<1>4. CASE line[b] \in persisted
  BY <1>0, <1>1, <1>2, <1>3, <1>4 DEF EnqueuedInTurn
<1>5. CASE line[b] \notin persisted
  <2>1. Enqueuing(line[b])
    BY <1>1, <1>5, LineMoves DEF FlushSkips
  <2>2. pc[line[b]] = "enqueueing" /\ idb # <<>> /\ idb[1] = line[b] /\ 1 \in DOMAIN idb
    BY <1>0, <1>1, <2>1, Actors, TailOf DEF Enqueuing, SendHasReason
  <2>3. CASE pc[line[a]] \in Entering
    <3>1. pc[line[a]] = "enqueueing"
      BY <1>0, <1>2, <2>3 DEF Placed, Before, Entering
    <3>2. PICK k \in DOMAIN idb : idb[k] = line[a]
      BY <1>0, <1>2, <3>1 DEF Placed, InQueue
    <3>3. line[a] # line[b]
      BY <1>0, <1>1, <1>2 DEF NoRepeats
    <3>4. k # 1 /\ k \in DOMAIN idb
      BY <2>2, <3>2, <3>3
    <3>5. 1 < k
      BY <1>0, <3>4
    <3>6. b < a
      BY <1>0, <1>1, <1>2, <2>2, <3>1, <3>2, <3>5 DEF QueueInOrder
    <3> QED
      BY <1>1, <1>2, <3>6
  <2>4. CASE pc[line[a]] \notin Entering
    BY <1>0, <1>2, <1>3, <2>4 DEF EnteredInv
  <2> QED
    BY <2>3, <2>4
<1> QED
  BY <1>4, <1>5

LEMMA StoredStep == ASSUME IInv, TurnInv, [Next]_vars PROVE StoredInTurn'
<1> SUFFICES ASSUME NEW p \in DOMAIN store', NEW q \in DOMAIN store', p < q,
                    NEW a \in DOMAIN line', NEW b \in DOMAIN line',
                    store'[p].id = line'[a], store'[q].id = line'[b],
                    line'[a] \in Texts, line'[b] \in Texts
             PROVE  a < b
  BY DEF StoredInTurn
<1>0. /\ IdsInv /\ EnqueuedInTurn /\ StoredInTurn /\ SendHasReason /\ NoRepeats /\ TypeOK
      /\ store \in Seq(Entry)
  BY DEF TurnInv, IInv, OrderInv, StoreInv, TypeOK
<1>1. IdsInv'
  BY <1>0, IdsStep
<1>2. line'[a] \in persisted' /\ line'[b] \in persisted'
  BY <1>1 DEF IdsInv
<1>3. /\ a \in DOMAIN line /\ line'[a] = line[a] /\ line[a] \in Messages /\ a \in Nat
      /\ b \in DOMAIN line /\ line'[b] = line[b] /\ line[b] \in Messages /\ b \in Nat
  BY <1>0, <1>2, OldInLine, LineGrows
<1>4. CASE SubStore
  <2>1. PICK p0 \in DOMAIN store, q0 \in DOMAIN store :
            p0 < q0 /\ store'[p].id = store[p0].id /\ store'[q].id = store[q0].id
    BY <1>4 DEF SubStore
  <2> QED
    BY <1>0, <1>3, <2>1 DEF StoredInTurn
<1>5. ASSUME NEW m \in Messages, Enqueuing(m), store' = Enqueued(m)
      PROVE  a < b
  <2>0. NotYetStored(m) /\ m \notin persisted /\ m \notin stumbled /\ pc[m] # "lost"
    <3>1. NotYetStored(m)
      BY <1>5 DEF Enqueuing, NotYetStored
    <3> QED
      BY <1>0, <1>5, <3>1 DEF Enqueuing, IdsInv, SendHasReason
  <2>1. /\ \A i \in DOMAIN store : store'[i] = store[i]
        /\ DOMAIN store' = 1..(Len(store) + 1) /\ DOMAIN store = 1..Len(store) /\ Len(store) \in Nat
    <3> DEFINE e == [id |-> m, pendingAttachments |-> m \in Attachments, sendFailed |-> FALSE,
                     at |-> IF m \in Attachments THEN clock ELSE 0]
    <3>1. clock \in Nat /\ (m \in Attachments) \in BOOLEAN
      BY <1>0 DEF TypeOK
    <3>2. e \in Entry
      BY <3>1 DEF Entry
    <3>3. store' = Append(store, e)
      BY <1>5 DEF Enqueued
    <3> HIDE DEF e
    <3> QED
      BY <1>0, <3>2, <3>3, Appended
  <2>2. /\ p \in DOMAIN store /\ store'[p] = store[p]
        /\ q \in DOMAIN store \/ (q \notin DOMAIN store)
    BY <2>1
  <2>3. CASE q \in DOMAIN store
    BY <1>0, <1>3, <2>1, <2>2, <2>3 DEF StoredInTurn
  <2>4. CASE q \notin DOMAIN store
    <3>1. store'[q].id = m
      BY <1>0, <1>5, <2>4, EnqueuedEntries
    <3>2. line[b] = m /\ line[a] \in persisted
      BY <1>0, <1>3, <2>2, <3>1 DEF IdsInv
    <3>3. a # b
      BY <2>0, <3>2
    <3>4. ~(b < a)
      BY <1>0, <1>3, <2>0, <3>2 DEF EnqueuedInTurn
    <3> QED
      BY <1>3, <3>3, <3>4
  <2> QED
    BY <2>3, <2>4
<1> QED
  BY <1>4, <1>5, StoreMoves

LEMMA FlushStep == ASSUME IInv, TurnInv, NothingLost, [Next]_vars PROVE FlushInTurn'
<1> SUFFICES ASSUME NEW q \in DOMAIN flush'.todo, NEW a \in DOMAIN line', NEW b \in DOMAIN line',
                    a < b, flush'.todo[q].id = line'[b], line'[a] \in Texts, line'[b] \in Texts
             PROVE  \/ Passed(line[a])'
                    \/ \E p \in DOMAIN flush'.todo : p < q /\ flush'.todo[p].id = line'[a]
  BY DEF FlushInTurn
<1>0. /\ IdsInv /\ EnqueuedInTurn /\ StoredInTurn /\ FlushInTurn /\ NoRepeats /\ TypeOK
      /\ OnlyAttachmentsFail /\ store \in Seq(Entry) /\ flush.todo \in Seq(Entry)
  BY DEF TurnInv, IInv, OrderInv, StoreInv, TypeOK
<1>1. IdsInv'
  BY <1>0, IdsStep
<1>2. b \in DOMAIN line /\ line'[b] = line[b] /\ line[b] \in Messages /\ b \in Nat
  <2>1. line'[b] \in persisted'
    BY <1>1 DEF IdsInv
  <2> QED
    BY <1>0, <2>1, OldInLine, LineGrows
<1>3. a \in DOMAIN line /\ line'[a] = line[a] /\ line[a] \in Messages /\ a \in Nat
  <2>1. ASSUME \A j \in DOMAIN line' : j <= a PROVE FALSE
    <3>1. b <= a /\ a \in DOMAIN line'
      BY <2>1
    <3>2. line' \in Seq(Messages)
      BY NextTypes DEF TypeOK
    <3>3. a \in Nat
      BY <3>1, <3>2
    <3> QED
      BY <1>2, <3>1, <3>3
  <2>2. a \in DOMAIN line
    BY <1>0, <2>1, LineGrows
  <2> QED
    BY <1>0, <2>2, LineGrows
<1>4. ASSUME Passed(line[a]) PROVE Passed(line[a])'
  <2>1. server \subseteq server' /\ refused \subseteq refused' /\ stumbled \subseteq stumbled'
    BY <1>0, HistoriesGrow, LineGrows
  <2>2. pc[line[a]] \in Settled => pc'[line[a]] \in Settled
    BY <1>3, StagesMove
  <2> QED
    BY <1>3, <1>4, <2>1, <2>2 DEF Passed, Reached
<1>5. line[a] \notin Attachments /\ a # b
  BY <1>2, <1>3, Actors
<1>6. CASE flush'.todo = flush.todo
  BY <1>0, <1>2, <1>3, <1>4, <1>6 DEF FlushInTurn
<1>7. CASE flush'.todo = <<>>
  BY <1>7
<1>8. CASE /\ flush.todo # <<>> /\ flush'.todo = Tail(flush.todo)
           /\ flush.todo[1].id \in server \cup refused \cup stumbled' \cup Attachments
  <2>1. /\ DOMAIN flush'.todo = 1..(Len(flush.todo) - 1) /\ DOMAIN flush.todo = 1..Len(flush.todo)
        /\ Len(flush.todo) \in Nat
        /\ \A i \in 1..(Len(flush.todo) - 1) : flush'.todo[i] = flush.todo[i + 1]
    BY <1>0, <1>8, TailOf
  <2>2. q \in Nat /\ q + 1 \in DOMAIN flush.todo /\ flush'.todo[q] = flush.todo[q + 1]
    BY <2>1
  <2>3. \/ Passed(line[a])
        \/ \E p \in DOMAIN flush.todo : p < q + 1 /\ flush.todo[p].id = line[a]
    BY <1>0, <1>2, <1>3, <2>2 DEF FlushInTurn
  <2>4. ASSUME NEW p \in DOMAIN flush.todo, p < q + 1, flush.todo[p].id = line[a], p # 1
        PROVE  \E k \in DOMAIN flush'.todo : k < q /\ flush'.todo[k].id = line'[a]
    <3>1. p - 1 \in DOMAIN flush'.todo /\ p - 1 < q /\ flush'.todo[p - 1] = flush.todo[p]
      BY <2>1, <2>2, <2>4
    <3> QED
      BY <1>3, <2>4, <3>1
  <2>5. ASSUME flush.todo[1].id = line[a] PROVE Passed(line[a])'
    <3>1. line[a] \in server' \cup refused' \cup stumbled'
      BY <1>5, <1>8, <2>5, HistoriesGrow
    <3> QED
      BY <1>3, <3>1 DEF Passed, Reached
  <2> QED
    BY <1>4, <2>3, <2>4, <2>5
<1>9. CASE /\ flush'.todo = Snapshot
           /\ UNCHANGED <<line, pc, persisted, stumbled, store, server, refused>>
  <2> DEFINE keep == {i \in DOMAIN store : ~store[i].sendFailed}
             n == Cardinality(keep)
  <2>1. keep \subseteq DOMAIN store /\ flush'.todo = Kept(store, keep)
    BY <1>9 DEF Snapshot
  <2>2. \A p \in DOMAIN store : store[p].id \in Texts => p \in keep
    BY <1>0, Actors DEF OnlyAttachmentsFail, IsFailed
  <2> HIDE DEF keep
  <2>3. PICK at \in [1..n -> keep] :
              /\ Kept(store, keep) = [i \in 1..n |-> store[at[i]]]
              /\ \A j \in keep : \E i \in 1..n : at[i] = j
              /\ \A i, j \in 1..n : i < j => at[i] < at[j]
    BY <1>0, <2>1, KeptPositions
  <2> HIDE DEF n
  <2>4. /\ DOMAIN flush'.todo = 1..n
        /\ \A i \in 1..n : at[i] \in keep /\ flush'.todo[i] = store[at[i]]
    BY <2>1, <2>3
  <2>5. at[q] \in DOMAIN store /\ store[at[q]].id = line[b] /\ at[q] \in Nat
    BY <1>0, <1>2, <2>1, <2>4
  <2>6. \/ line[a] \in stumbled \/ pc[line[a]] = "lost" \/ Reached(line[a])
        \/ \E p \in DOMAIN store : store[p].id = line[a]
    <3>1. line[b] \in persisted
      BY <1>0, <2>5 DEF IdsInv
    <3>2. line[a] \in persisted \cup stumbled \/ pc[line[a]] = "lost"
      BY <1>0, <1>2, <1>3, <3>1 DEF EnqueuedInTurn
    <3> QED
      BY <1>5, <3>2 DEF NothingLost, Reached, Stored
  <2>7. ASSUME NEW p \in DOMAIN store, store[p].id = line[a]
        PROVE  \E k \in DOMAIN flush'.todo : k < q /\ flush'.todo[k].id = line'[a]
    <3>1. p \in keep /\ p \in Nat
      BY <1>0, <1>3, <2>2, <2>7
    <3>2. PICK k \in 1..n : at[k] = p
      BY <2>3, <3>1
    <3>3. p # at[q]
      BY <1>0, <1>2, <1>3, <1>5, <2>5, <2>7 DEF NoRepeats
    <3>4. ~(at[q] < p)
      <4> SUFFICES ASSUME at[q] < p PROVE FALSE
        OBVIOUS
      <4>1. b < a
        BY <1>0, <1>2, <1>3, <2>5, <2>7 DEF StoredInTurn
      <4> QED
        BY <1>2, <1>3, <4>1
    <3>5. k # q /\ ~(q < k)
      BY <2>3, <2>4, <2>5, <3>1, <3>2, <3>3, <3>4
    <3>6. k < q /\ k \in DOMAIN flush'.todo
      BY <2>4, <3>5
    <3> QED
      BY <1>3, <2>4, <2>7, <3>2, <3>6
  <2> QED
    BY <1>4, <2>6, <2>7 DEF Passed, Settled
<1> QED
  BY <1>6, <1>7, <1>8, <1>9, TodoMoves

LEMMA TurnsStep == ASSUME IInv, TurnInv, NothingLost, [Next]_vars PROVE TurnInv'
BY IdsStep, EnteredStep, EnqueuedStep, StoredStep, FlushStep DEF TurnInv

\* No text is sent before its turn: neither by its foreground send, whose chain
\* it waits in, nor by a flush, however stale its snapshot.  The flush passes
\* attachments under way and what it or the store stumbled over, nothing else.
THEOREM NobodyOvertakes == Safety => []NoOvertaking
<1>1. IInv /\ TurnInv /\ NothingLost /\ [Next]_vars => TurnInv'
  BY TurnsStep
<1>2. ASSUME IInv, TurnInv PROVE NoOvertaking
  <2> SUFFICES ASSUME NEW i \in DOMAIN line, NEW j \in DOMAIN line, i < j, line[j] \in Texts,
                      pc[line[i]] \notin Settled
               PROVE  /\ ~Started(line[j])
                      /\ SentByFlush(line[j]) =>
                            Reached(line[i]) \/ line[i] \in stumbled \cup Attachments
    BY DEF NoOvertaking
  <2>0. /\ Placed /\ ChainInOrder /\ line \in Seq(Messages) /\ chain \in Seq(Messages)
        /\ FlushHasReason /\ FlushInTurn /\ flush.todo \in Seq(Entry)
    BY <1>2 DEF IInv, OrderInv, StoreInv, TypeOK, TurnInv
  <2>1. ASSUME Started(line[j]) PROVE FALSE
    <3>1. pc[line[j]] \in Sending /\ line[j] \in Messages
      BY <2>0, <2>1 DEF Started, Sending
    <3>2. PICK q \in DOMAIN chain : chain[q] = line[j]
      BY <2>0, <3>1 DEF Placed, InChain
    <3>3. q = 1
      BY <2>0, <3>1, <3>2 DEF Placed
    <3>4. PICK p \in DOMAIN chain : p < q
      BY <2>0, <3>2 DEF ChainInOrder
    <3> QED
      BY <2>0, <3>3, <3>4
  <2>2. ASSUME SentByFlush(line[j])
        PROVE  Reached(line[i]) \/ line[i] \in stumbled \cup Attachments
    <3>1. flush.todo # <<>> /\ flush.todo[1].id = line[j]
      BY <2>0, <2>2 DEF SentByFlush, FlushHasReason
    <3>2. 1 \in DOMAIN flush.todo /\ \A p \in DOMAIN flush.todo : ~(p < 1)
      BY <2>0, <3>1, TailOf
    <3>3. line[i] \in Messages
      BY <2>0
    <3>4. line[i] \in Texts => Passed(line[i])
      BY <2>0, <3>1, <3>2 DEF FlushInTurn
    <3> QED
      BY <3>3, <3>4 DEF Passed, Messages
  <2> QED
    BY <2>1, <2>2
<1> QED
  BY <1>1, <1>2, InitTurns, Invariant, NothingIsLost, PTL DEF Safety
=============================================================================
