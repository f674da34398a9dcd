------------------------- MODULE RequestLane_proofs -------------------------
(***************************************************************************)
(* Proofs about RequestLane: the lease count is right and what teardown    *)
(* cleared is freed, whatever threads do; and nothing is used after it was *)
(* freed, when threads end with their teardown.                            *)
(***************************************************************************)
EXTENDS RequestLane, FiniteSetTheorems, TLAPS

\* Expanded in every leaf: the tuples behind UNCHANGED, and function update.
USE DEF Set, bucketVars, leaseVars, dispatchVars, handlerVars, senderVars, history, Buckets

LEMMA Bounds == Depth \in Nat \ {0} /\ MaxBuckets \in Nat /\ MaxSends \in Nat
BY LaneAssumption
USE Bounds

-----------------------------------------------------------------------------
(* Counting the senders that hold a lease.                                 *)

LEMMA HoldersFinite ==
    ASSUME NEW k
    PROVE  IsFiniteSet(Holders(k)) /\ Cardinality(Holders(k)) \in Nat
<1>1. Holders(k) \subseteq Senders BY DEF Holders
<1>2. IsFiniteSet(Holders(k)) BY <1>1, LaneAssumption, FS_Subset
<1> QED BY <1>2, FS_CardinalityType

LEMMA HoldersSame ==
    ASSUME UNCHANGED lease
    PROVE  \A k : Holders(k)' = Holders(k)
BY DEF Holders

\* A sender takes a lease on b ...
LEMMA HoldersGrow ==
    ASSUME lease \in [Senders -> 0 .. MaxBuckets], NEW s \in Senders, lease[s] = 0,
           NEW b \in Buckets, lease' = [lease EXCEPT ![s] = b]
    PROVE  \A k \in Buckets :
             Cardinality(Holders(k)') = Cardinality(Holders(k)) + (IF k = b THEN 1 ELSE 0)
<1>1. ASSUME NEW k \in Buckets, k # b
      PROVE  Cardinality(Holders(k)') = Cardinality(Holders(k)) + 0
  <2>1. Holders(k)' = Holders(k) BY <1>1 DEF Holders
  <2> QED BY <2>1, HoldersFinite
<1>2. Cardinality(Holders(b)') = Cardinality(Holders(b)) + 1
  <2>1. Holders(b)' = Holders(b) \cup {s} /\ s \notin Holders(b) BY DEF Holders
  <2> QED BY <2>1, HoldersFinite, FS_AddElement
<1> QED BY <1>1, <1>2

\* ... and lets it go.
LEMMA HoldersShrink ==
    ASSUME lease \in [Senders -> 0 .. MaxBuckets], NEW s \in Senders, NEW b \in Buckets,
           lease[s] = b, lease' = [lease EXCEPT ![s] = 0]
    PROVE  /\ \A k \in Buckets \ {b} : Cardinality(Holders(k)') = Cardinality(Holders(k))
           /\ Cardinality(Holders(b)') = Cardinality(Holders(b)) - 1
           /\ Cardinality(Holders(b)) > 0
<1>1. ASSUME NEW k \in Buckets, k # b
      PROVE  Cardinality(Holders(k)') = Cardinality(Holders(k))
  <2>1. Holders(k)' = Holders(k) BY <1>1 DEF Holders
  <2> QED BY <2>1
<1>2. Holders(b)' = Holders(b) \ {s} /\ s \in Holders(b) BY DEF Holders
<1> PICK H : H = Holders(b) OBVIOUS
<1>a. IsFiniteSet(H) BY HoldersFinite
<1>3. Cardinality(Holders(b)') = Cardinality(Holders(b)) - 1
  <2>1. Cardinality(H \ {s}) = Cardinality(H) - 1 BY <1>2, <1>a, FS_RemoveElement
  <2> QED BY <1>2, <2>1
<1>4. Cardinality(Holders(b)) # 0
  <2>1. Cardinality(H) # 0 BY <1>2, <1>a, FS_EmptySet
  <2> QED BY <2>1
<1>5. Cardinality(Holders(b)) > 0
  <2> PICK n \in Nat : n = Cardinality(Holders(b)) BY HoldersFinite
  <2> QED BY <1>4
<1> QED BY <1>1, <1>3, <1>5

-----------------------------------------------------------------------------
(* The lease count: LeaseInv, with the types, is inductive.  Most steps    *)
(* touch neither counts nor references.                                    *)

LaneInv == TypeOK /\ LeaseInv

\* Such a step: it moves no reference, and opens no bucket.
LEMMA LeaseKept ==
    ASSUME LeaseInv, TypeOK,
           UNCHANGED <<made, owner, refs, freed, lease, pollers, pending>>,
           registry' \in {0, registry},
           \A t \in Owners : todo'[t] \subseteq pollers[t],
           \A k \in Buckets : closed'[k] = closed[k] \/ k = registry,
           registry' # 0 => closed' = closed,
           UNCHANGED sent,
           \A s \in Senders : pc'[s] = "idle" <=> pc[s] = "idle"
    PROVE  LeaseInv'
<1>1. OwnedInv' BY DEF LeaseInv, OwnedInv
<1>2. RegisteredInv' BY DEF LeaseInv, RegisteredInv, TypeOK
<1>3. LeasedInv' BY DEF LeaseInv, LeasedInv
<1>4. LeaseCounts' BY HoldersSame DEF LeaseInv, LeaseCounts, OwnerHolds
<1> QED BY <1>1, <1>2, <1>3, <1>4 DEF LeaseInv

LEMMA LaneInit == Init => LaneInv
<1> SUFFICES ASSUME Init PROVE LaneInv
    OBVIOUS
<1>1. TypeOK BY LaneAssumption DEF Init, TypeOK
<1>2. LeaseInv
  BY DEF Init, LeaseInv, OwnedInv, RegisteredInv, LeasedInv, LeaseCounts
<1> QED BY <1>1, <1>2 DEF LaneInv

LEMMA LeaseTypes ==
    ASSUME TypeOK
    PROVE  /\ registry \in 0 .. made /\ made \in 0 .. MaxBuckets
           /\ refs \in [Buckets -> Nat] /\ freed \subseteq Buckets
           /\ pc \in [Senders -> {"idle", "found", "open", "enqueued", "waiting", "finished"}]
           /\ lease \in [Senders -> 0 .. MaxBuckets] /\ sent \in [Senders -> 0 .. MaxSends]
           /\ closed \in [Buckets -> BOOLEAN] /\ ring \in [Buckets -> Seq(Requests)]
BY DEF TypeOK

\* A sender that goes on, with the lease it has.
LEMMA SenderMoves ==
    ASSUME LaneInv, NEW s \in Senders, pc[s] # "idle",
           NEW label \in {"open", "enqueued", "waiting", "finished"},
           pc' = [pc EXCEPT ![s] = label],
           UNCHANGED <<registry, made, owner, closed, leaseVars, dispatchVars, handlerVars,
                       lease, sent, history>>,
           ring' \in [Buckets -> Seq(Requests)],
           woken' \in [Owners -> BOOLEAN], abandoned' \subseteq Requests
    PROVE  LaneInv'
<1>1. /\ pc' \in [Senders -> {"idle", "found", "open", "enqueued", "waiting", "finished"}]
      /\ \A q \in Senders : pc'[q] = "idle" <=> pc[q] = "idle"
  BY LeaseTypes DEF LaneInv
<1>2. TypeOK' BY <1>1 DEF LaneInv, TypeOK
<1>3. \A t \in Owners : todo'[t] \subseteq pollers[t] BY DEF LaneInv, LeaseInv, OwnedInv
<1>4. LeaseInv' BY <1>1, <1>3, LeaseKept DEF LaneInv
<1> QED BY <1>2, <1>4 DEF LaneInv

LEMMA OwnRequest ==
    ASSUME LaneInv, NEW s \in Senders, pc[s] # "idle"
    PROVE  RequestOf(s) \in Requests
<1>1. sent[s] \in 1 .. MaxSends BY LeaseTypes DEF LaneInv, LeaseInv, LeasedInv
<1> QED BY <1>1 DEF RequestOf, Requests

LEMMA SnapshotStep ==
    ASSUME LaneInv, NEW s \in Senders, Snapshot(s)
    PROVE  LaneInv'
<1> USE DEF LaneInv
<1>1. registry \in Buckets /\ registry <= made BY LeaseTypes DEF Snapshot
<1>2. lease[s] = 0 BY LeaseTypes DEF Snapshot, LeaseInv, LeasedInv
<1>3. registry \notin freed /\ refs[registry] \in Nat
  <2>1. OwnerHolds(registry) BY DEF Snapshot, LeaseInv, RegisteredInv, OwnerHolds
  <2>2. refs[registry] = Cardinality(Holders(registry)) + 1
    BY <1>1, <2>1, LeaseTypes DEF LeaseInv, LeaseCounts
  <2> QED BY <1>1, <2>2, HoldersFinite, LeaseTypes DEF LeaseInv, LeaseCounts
<1>4. /\ refs' = [refs EXCEPT ![registry] = @ + 1]
      /\ lease' = [lease EXCEPT ![s] = registry]
      /\ sent' = [sent EXCEPT ![s] = @ + 1] /\ sent[s] < MaxSends
      /\ pc' = [pc EXCEPT ![s] = "found"]
      /\ UNCHANGED <<registry, made, bucketVars, freed, dispatchVars, woken,
                     handlerVars, abandoned, history>>
  BY DEF Snapshot
<1>5. TypeOK'
  <2>1. refs' \in [Buckets -> Nat]
    <3>1. refs \in [Buckets -> Nat] /\ refs[registry] + 1 \in Nat BY <1>3, LeaseTypes
    <3> HIDE DEF LaneInv
    <3> QED BY <1>1, <1>4, <3>1
  <2>2. sent' \in [Senders -> 0 .. MaxSends]
    <3>1. sent[s] + 1 \in 0 .. MaxSends BY <1>4, LeaseTypes
    <3> QED BY <1>4, <3>1, LeaseTypes
  <2>3. lease' \in [Senders -> 0 .. MaxBuckets] BY <1>1, <1>4, LeaseTypes
  <2>4. pc' \in [Senders -> {"idle", "found", "open", "enqueued", "waiting", "finished"}]
    BY <1>4, LeaseTypes
  <2> QED BY <1>4, <2>1, <2>2, <2>3, <2>4 DEF TypeOK
<1>6. OwnedInv' /\ RegisteredInv' BY <1>4 DEF LeaseInv, OwnedInv, RegisteredInv
<1>7. LeasedInv' BY <1>1, <1>2, <1>4, LeaseTypes DEF LeaseInv, LeasedInv
<1>8. LeaseCounts'
  <2>1. \A k \in Buckets : Cardinality(Holders(k)') =
          Cardinality(Holders(k)) + (IF k = registry THEN 1 ELSE 0)
    BY <1>1, <1>2, <1>4, HoldersGrow, LeaseTypes
  <2>2. \A k : OwnerHolds(k)' <=> OwnerHolds(k) BY <1>4 DEF OwnerHolds
  <2> SUFFICES ASSUME NEW k \in 1 .. made PROVE LeaseCounts!(k)'
      BY <1>4 DEF LeaseCounts
  <2>a. k \in Buckets BY LeaseTypes
  <2>b. LeaseCounts!(k) BY DEF LeaseInv, LeaseCounts
  <2>3. LeaseCounts!(k) /\ k \in Buckets BY <2>a, <2>b
  <2>4. Cardinality(Holders(k)) \in Nat BY HoldersFinite
  <2>5. refs'[k] = refs[k] + (IF k = registry THEN 1 ELSE 0) /\ refs[k] \in Nat
    <3>1. refs \in [Buckets -> Nat] BY LeaseTypes
    <3> HIDE DEF LaneInv
    <3> QED BY <1>1, <1>4, <2>3, <3>1
  <2>6. freed' = freed BY <1>4
  <2>7. Cardinality(Holders(k)') = Cardinality(Holders(k)) + (IF k = registry THEN 1 ELSE 0)
    BY <2>1, <2>3
  <2>8. OwnerHolds(k)' <=> OwnerHolds(k) BY <2>2
  <2> HIDE DEF LaneInv
  <2> QED BY <1>3, <2>3, <2>4, <2>5, <2>6, <2>7, <2>8
<1> QED BY <1>5, <1>6, <1>7, <1>8 DEF LeaseInv

LEMMA ReleaseLeaseStep ==
    ASSUME LaneInv, NEW s \in Senders, ReleaseLease(s)
    PROVE  LaneInv'
<1> USE DEF LaneInv
<1> PICK b : b = lease[s] OBVIOUS
<1>1. b \in Buckets /\ b <= made
  BY LeaseTypes DEF ReleaseLease, LeaseInv, LeasedInv
<1>2. /\ refs' = [refs EXCEPT ![b] = @ - 1]
      /\ freed' = IF refs[b] = 1 THEN freed \cup {b} ELSE freed
      /\ lease' = [lease EXCEPT ![s] = 0]
      /\ pc' = [pc EXCEPT ![s] = "idle"]
      /\ UNCHANGED <<registry, made, bucketVars, dispatchVars, woken, handlerVars,
                     sent, abandoned, history>>
  BY DEF ReleaseLease
<1>3. /\ \A k \in Buckets \ {b} : Cardinality(Holders(k)') = Cardinality(Holders(k))
      /\ Cardinality(Holders(b)') = Cardinality(Holders(b)) - 1
      /\ Cardinality(Holders(b)) > 0
  BY <1>1, <1>2, HoldersShrink, LeaseTypes
<1>4. refs[b] \in Nat /\ refs[b] > 0
  <2>1. b \in 1 .. made BY <1>1, LeaseTypes
  <2>2. LeaseCounts!(b) BY <2>1 DEF LeaseInv, LeaseCounts
  <2>3. Cardinality(Holders(b)) \in Nat BY HoldersFinite
  <2>4. refs[b] \in Nat BY <1>1, LeaseTypes
  <2> HIDE DEF LaneInv
  <2> QED BY <1>3, <2>2, <2>3, <2>4
<1>5. TypeOK'
  <2>1. refs' \in [Buckets -> Nat]
    <3>1. refs \in [Buckets -> Nat] BY LeaseTypes
    <3> HIDE DEF LaneInv
    <3>2. refs[b] - 1 \in Nat BY <1>4
    <3> QED BY <1>1, <1>2, <3>1, <3>2
  <2>2. freed' \subseteq Buckets BY <1>1, <1>2, LeaseTypes
  <2>3. /\ lease' \in [Senders -> 0 .. MaxBuckets]
        /\ pc' \in [Senders -> {"idle", "found", "open", "enqueued", "waiting", "finished"}]
    BY <1>2, LeaseTypes
  <2> QED BY <1>2, <2>1, <2>2, <2>3 DEF TypeOK
<1>6. OwnedInv' BY <1>2 DEF LeaseInv, OwnedInv
<1>7. RegisteredInv' BY <1>1, <1>2, LeaseTypes DEF LeaseInv, RegisteredInv
<1>8. LeasedInv' BY <1>2, LeaseTypes DEF LeaseInv, LeasedInv
<1>9. LeaseCounts'
  <2>1. \A k : OwnerHolds(k)' <=> OwnerHolds(k) BY <1>2 DEF OwnerHolds
  <2> SUFFICES ASSUME NEW k \in 1 .. made PROVE LeaseCounts!(k)'
      BY <1>2 DEF LeaseCounts
  <2>a. k \in Buckets BY LeaseTypes
  <2>b. LeaseCounts!(k) BY DEF LeaseInv, LeaseCounts
  <2>2. LeaseCounts!(k) /\ k \in Buckets BY <2>a, <2>b
  <2>3. Cardinality(Holders(k)) \in Nat BY HoldersFinite
  <2>4. CASE k = b
    <3>a. refs \in [Buckets -> Nat] /\ b \notin freed BY <1>4, <2>2, <2>4, LeaseTypes
    <3>1. refs'[b] = refs[b] - 1 /\ (b \in freed' <=> refs[b] = 1) BY <1>1, <1>2, <3>a
    <3> QED BY <1>3, <1>4, <2>1, <2>2, <2>3, <2>4, <3>1
  <2>5. CASE k # b
    <3>1. refs'[k] = refs[k] /\ (k \in freed' <=> k \in freed)
      BY <1>1, <1>2, <2>2, <2>5, LeaseTypes
    <3> QED BY <1>3, <2>1, <2>2, <2>5, <3>1
  <2> QED BY <2>4, <2>5
<1> QED BY <1>5, <1>6, <1>7, <1>8, <1>9 DEF LeaseInv

LEMMA SenderStep ==
    ASSUME LaneInv, NEW s \in Senders, Sender(s)
    PROVE  LaneInv'
<1>1. CASE TestClosed(s)
  <2>1. UNCHANGED <<ring, woken, abandoned>> BY <1>1 DEF TestClosed
  <2>2. /\ ring' \in [Buckets -> Seq(Requests)]
        /\ woken' \in [Owners -> BOOLEAN] /\ abandoned' \subseteq Requests
    BY <2>1 DEF LaneInv, TypeOK
  <2> QED BY <1>1, <2>2, SenderMoves DEF TestClosed
<1>2. CASE Enqueue(s)
  <2>1. UNCHANGED <<woken, abandoned>> BY <1>2 DEF Enqueue
  <2>2. woken' \in [Owners -> BOOLEAN] /\ abandoned' \subseteq Requests
    BY <2>1 DEF LaneInv, TypeOK
  <2>3. ring' \in [Buckets -> Seq(Requests)]
    <3>1. RequestOf(s) \in Requests BY <1>2, OwnRequest DEF Enqueue
    <3>2. ring' = ring \/ ring' = [ring EXCEPT ![lease[s]] = Append(@, RequestOf(s))]
      BY <1>2 DEF Enqueue
    <3>3. lease[s] \in Buckets BY <1>2, LeaseTypes DEF Enqueue, LaneInv, LeaseInv, LeasedInv
    <3>4. ring[lease[s]] \in Seq(Requests) BY <3>3, LeaseTypes DEF LaneInv
    <3>5. Append(ring[lease[s]], RequestOf(s)) \in Seq(Requests) BY <3>1, <3>4
    <3> QED BY <3>2, <3>5, LeaseTypes DEF LaneInv
  <2> QED BY <1>2, <2>2, <2>3, SenderMoves DEF Enqueue
<1>3. CASE WakeProvider(s)
  <2>1. UNCHANGED <<ring, abandoned>> BY <1>3 DEF WakeProvider
  <2>2. ring' \in [Buckets -> Seq(Requests)] /\ abandoned' \subseteq Requests
    BY <2>1 DEF LaneInv, TypeOK
  <2>3. woken' \in [Owners -> BOOLEAN]
    BY <1>3 DEF WakeProvider, Fire, LaneInv, TypeOK
  <2> QED BY <1>3, <2>2, <2>3, SenderMoves DEF WakeProvider
<1>4. CASE StopWaiting(s)
  <2>1. UNCHANGED <<ring, woken>> BY <1>4 DEF StopWaiting
  <2>2. ring' \in [Buckets -> Seq(Requests)] /\ woken' \in [Owners -> BOOLEAN]
    BY <2>1 DEF LaneInv, TypeOK
  <2>3. abandoned' \subseteq Requests
    <3>1. RequestOf(s) \in Requests
      <4>1. pc[s] # "idle" BY <1>4 DEF StopWaiting
      <4> QED BY <4>1, OwnRequest
    <3>2. abandoned' = abandoned \/ abandoned' = abandoned \cup {RequestOf(s)}
      BY <1>4 DEF StopWaiting
    <3> QED BY <3>1, <3>2 DEF LaneInv, TypeOK
  <2> QED BY <1>4, <2>2, <2>3, SenderMoves DEF StopWaiting
<1> QED BY <1>1, <1>2, <1>3, <1>4, SnapshotStep, ReleaseLeaseStep DEF Sender
-----------------------------------------------------------------------------
(* The owner's steps.                                                      *)

LEMMA OwnerTypes ==
    ASSUME TypeOK
    PROVE  /\ owner \in [Buckets -> Owners \cup {Nobody}]
           /\ loop \in [Owners -> {"off", "idle", "polling", "handler", "stopping", "down"}]
           /\ leaving \in [Owners -> BOOLEAN] /\ woken \in [Owners -> BOOLEAN]
           /\ pollers \in [Owners -> SUBSET Buckets]
           /\ todo \in [Owners -> SUBSET Buckets] /\ work \in [Owners -> BOOLEAN]
           /\ pending \in [Owners -> SUBSET Buckets]
           /\ installed \in [Owners -> 0 .. MaxBuckets]
           /\ running \in [Owners -> SUBSET (Requests \X Buckets)]
           /\ abandoned \subseteq Requests /\ handled \subseteq Requests
           /\ autoCleared \subseteq Buckets
BY DEF TypeOK

\* What the thread still has to poll in this pass is polled by it.
LEMMA TodoPolled ==
    ASSUME LaneInv
    PROVE  \A t \in Owners : todo[t] \subseteq pollers[t]
BY DEF LaneInv, LeaseInv, OwnedInv

LEMMA ClearStep ==
    ASSUME LaneInv, NEW t \in Owners, Clear(t)
    PROVE  LaneInv'
<1> USE DEF LaneInv
<1>1. /\ registry' = 0 /\ registry \in Buckets
      /\ installed' = [installed EXCEPT ![t] = 0]
      /\ closed' = [closed EXCEPT ![registry] = TRUE]
      /\ woken' = woken \/ woken' = [woken EXCEPT ![t] = TRUE]
      /\ UNCHANGED <<made, owner, ring, leaseVars, dispatchVars, running,
                     senderVars, history>>
  BY LeaseTypes DEF Clear, Retire, Owns, Fire
<1>2. TypeOK'
  <2>1. closed' \in [Buckets -> BOOLEAN] BY <1>1, LeaseTypes
  <2>2. woken' \in [Owners -> BOOLEAN] BY <1>1, OwnerTypes
  <2>3. installed' \in [Owners -> 0 .. MaxBuckets] BY <1>1, OwnerTypes
  <2>4. registry' \in 0 .. made' /\ made' \in 0 .. MaxBuckets BY <1>1, LeaseTypes
  <2> QED BY <1>1, <2>1, <2>2, <2>3, <2>4 DEF TypeOK
<1>3. LeaseInv' BY <1>1, TodoPolled, LeaseTypes, LeaseKept
<1> QED BY <1>2, <1>3

LEMMA WakeUpStep ==
    ASSUME LaneInv, NEW t \in Owners, WakeUp(t)
    PROVE  LaneInv'
<1> USE DEF LaneInv
<1>1. TypeOK'
  <2>1. /\ woken' \in [Owners -> BOOLEAN] /\ work' \in [Owners -> BOOLEAN]
        /\ loop' \in [Owners -> {"off", "idle", "polling", "handler", "stopping", "down"}]
        /\ todo' \in [Owners -> SUBSET Buckets]
    BY OwnerTypes DEF WakeUp
  <2> QED BY <2>1 DEF WakeUp, TypeOK
<1>2. \A u \in Owners : todo'[u] \subseteq pollers[u] BY TodoPolled, OwnerTypes DEF WakeUp
<1>3. LeaseInv' BY <1>2, LeaseKept DEF WakeUp
<1> QED BY <1>1, <1>3

LEMMA PollHitStep ==
    ASSUME LaneInv, NEW t \in Owners, NEW k \in Buckets, PollHit(t, k)
    PROVE  LaneInv'
<1> USE DEF LaneInv
<1> PICK q : q = Head(ring[k]) OBVIOUS
<1>1. q \in Requests /\ Tail(ring[k]) \in Seq(Requests) BY LeaseTypes DEF PollHit
<1>2. /\ todo' = [todo EXCEPT ![t] = @ \ {k}]
      /\ ring' = [ring EXCEPT ![k] = Tail(@)]
      /\ handled' = handled \cup {q} /\ work' = [work EXCEPT ![t] = TRUE]
      /\ \/ UNCHANGED <<loop, running>>
         \/ /\ installed[t] # 0
            /\ loop' = [loop EXCEPT ![t] = "handler"]
            /\ running' = [running EXCEPT ![t] = @ \cup {<<q, k>>}]
      /\ UNCHANGED <<registry, made, owner, closed, leaseVars, leaving, pollers,
                     pending, woken, installed, senderVars, autoCleared>>
  BY DEF PollHit, Polls
<1>3. TypeOK'
  <2>1. ring' \in [Buckets -> Seq(Requests)] BY <1>1, <1>2, LeaseTypes
  <2>2. /\ todo' \in [Owners -> SUBSET Buckets] /\ work' \in [Owners -> BOOLEAN]
        /\ handled' \subseteq Requests
    BY <1>1, <1>2, OwnerTypes
  <2>3. loop' \in [Owners -> {"off", "idle", "polling", "handler", "stopping", "down"}]
    BY <1>2, OwnerTypes
  <2>4. running' \in [Owners -> SUBSET (Requests \X Buckets)]
    <3>1. running \in [Owners -> SUBSET (Requests \X Buckets)] BY OwnerTypes
    <3>2. running[t] \cup {<<q, k>>} \subseteq Requests \X Buckets BY <1>1, <3>1
    <3>3. running' = running \/ running' = [running EXCEPT ![t] = @ \cup {<<q, k>>}]
      BY <1>2
    <3> QED BY <3>1, <3>2, <3>3
  <2> QED BY <1>2, <2>1, <2>2, <2>3, <2>4 DEF TypeOK
<1>4. \A u \in Owners : todo'[u] \subseteq pollers[u] BY <1>2, TodoPolled, OwnerTypes
<1>5. LeaseInv' BY <1>2, <1>4, LeaseKept
<1> QED BY <1>3, <1>5

LEMMA PassStep ==
    ASSUME LaneInv, NEW t \in Owners,
           HandlerYields(t) \/ PassEnds(t) \/ \E k \in Buckets : PollEmpty(t, k)
    PROVE  LaneInv'
<1> USE DEF LaneInv
<1>1. /\ UNCHANGED <<registry, made, bucketVars, leaseVars, leaving, pollers, pending, woken,
                     handlerVars, senderVars, history>>
      /\ loop' = loop \/ \E l \in {"polling", "stopping", "idle"} : loop' = [loop EXCEPT ![t] = l]
      /\ work' = work \/ work' = [work EXCEPT ![t] = FALSE]
      /\ \/ todo' = todo \/ todo' = [todo EXCEPT ![t] = pollers[t]]
         \/ \E k \in Buckets : todo' = [todo EXCEPT ![t] = @ \ {k}]
  BY DEF HandlerYields, PassEnds, PollEmpty, Polls
<1>2. TypeOK'
  <2>1. work' \in [Owners -> BOOLEAN] BY <1>1, OwnerTypes
  <2>2. todo' \in [Owners -> SUBSET Buckets]
    <3>1. todo \in [Owners -> SUBSET Buckets] /\ pollers[t] \subseteq Buckets BY OwnerTypes
    <3>2. \A k : todo[t] \ {k} \subseteq Buckets BY <3>1
    <3> QED BY <1>1, <3>1, <3>2
  <2>3. loop' \in [Owners -> {"off", "idle", "polling", "handler", "stopping", "down"}]
    BY <1>1, OwnerTypes
  <2> QED BY <1>1, <2>1, <2>2, <2>3 DEF TypeOK
<1>3. \A u \in Owners : todo'[u] \subseteq pollers[u]
  <2>1. todo \in [Owners -> SUBSET Buckets] /\ \A u \in Owners : todo[u] \subseteq pollers[u]
    BY TodoPolled, OwnerTypes
  <2> HIDE DEF LaneInv
  <2> QED BY <1>1, <2>1
<1>4. LeaseInv' BY <1>1, <1>3, LeaseKept
<1> QED BY <1>2, <1>4

LEMMA HandlerRepliesStep ==
    ASSUME LaneInv, NEW t \in Owners, NEW q, NEW k, HandlerReplies(t, q, k)
    PROVE  LaneInv'
<1> USE DEF LaneInv
<1>1. TypeOK'
  <2>1. running' \in [Owners -> SUBSET (Requests \X Buckets)]
    BY OwnerTypes DEF HandlerReplies
  <2> QED BY <2>1 DEF HandlerReplies, TypeOK
<1>2. LeaseInv' BY TodoPolled, LeaseKept DEF HandlerReplies
<1> QED BY <1>1, <1>2

LEMMA TeardownStep ==
    ASSUME LaneInv, NEW t \in Owners, Teardown(t)
    PROVE  LaneInv'
<1> USE DEF LaneInv
<1>1. CASE Owns(t)
  <2>1. /\ registry' = 0 /\ registry \in Buckets
        /\ leaving' = [leaving EXCEPT ![t] = TRUE]
        /\ installed' = [installed EXCEPT ![t] = 0]
        /\ closed' = [closed EXCEPT ![registry] = TRUE]
        /\ autoCleared' = autoCleared \cup {registry}
        /\ loop' = [loop EXCEPT ![t] = "polling"]
        /\ todo' = [todo EXCEPT ![t] = pollers[t]] /\ work' = [work EXCEPT ![t] = FALSE]
        /\ UNCHANGED <<made, owner, ring, leaseVars, pollers, pending, woken, running,
                       senderVars, handled>>
    BY <1>1, LeaseTypes DEF Teardown, Retire, Owns
  <2>2. TypeOK'
    <3>1. /\ closed' \in [Buckets -> BOOLEAN] /\ leaving' \in [Owners -> BOOLEAN]
          /\ installed' \in [Owners -> 0 .. MaxBuckets] /\ autoCleared' \subseteq Buckets
      BY <2>1, LeaseTypes, OwnerTypes
    <3>2. registry' \in 0 .. made' /\ made' \in 0 .. MaxBuckets BY <2>1, LeaseTypes
    <3>3. /\ work' \in [Owners -> BOOLEAN] /\ todo' \in [Owners -> SUBSET Buckets]
          /\ loop' \in [Owners -> {"off", "idle", "polling", "handler", "stopping", "down"}]
      BY <2>1, OwnerTypes
    <3> QED BY <2>1, <3>1, <3>2, <3>3 DEF TypeOK
  <2>3. \A u \in Owners : todo'[u] \subseteq pollers[u] BY <2>1, TodoPolled, OwnerTypes
  <2>4. LeaseInv' BY <2>1, <2>3, LeaseTypes, LeaseKept
  <2> QED BY <2>2, <2>4
<1>2. CASE ~Owns(t)
  <2>1. /\ leaving' = [leaving EXCEPT ![t] = TRUE]
        /\ loop' = [loop EXCEPT ![t] = "stopping"]
        /\ UNCHANGED <<registry, made, bucketVars, leaseVars, pollers, todo, work, pending,
                       woken, handlerVars, senderVars, history>>
    BY <1>2 DEF Teardown
  <2>2. TypeOK'
    <3>1. /\ leaving' \in [Owners -> BOOLEAN]
          /\ loop' \in [Owners -> {"off", "idle", "polling", "handler", "stopping", "down"}]
      BY <2>1, OwnerTypes
    <3> QED BY <2>1, <3>1 DEF TypeOK
  <2>3. LeaseInv' BY <2>1, TodoPolled, LeaseKept
  <2> QED BY <2>2, <2>3
<1> QED BY <1>1, <1>2
LEMMA PollRetiresStep ==
    ASSUME LaneInv, NEW t \in Owners, NEW k \in Buckets, PollRetires(t, k)
    PROVE  LaneInv'
<1> USE DEF LaneInv
<1>1. /\ k \in todo[t] /\ closed[k]
      /\ todo' = [todo EXCEPT ![t] = @ \ {k}]
      /\ pollers' = [pollers EXCEPT ![t] = @ \ {k}]
      /\ pending' = [pending EXCEPT ![t] = @ \cup {k}]
      /\ UNCHANGED <<registry, made, bucketVars, leaseVars, loop, leaving, work, woken,
                     handlerVars, senderVars, history>>
  BY DEF PollRetires, Polls
<1>2. k \in pollers[t] BY <1>1, TodoPolled
<1>3. TypeOK'
  <2>1. /\ todo' \in [Owners -> SUBSET Buckets] /\ pollers' \in [Owners -> SUBSET Buckets]
        /\ pending' \in [Owners -> SUBSET Buckets]
    BY <1>1, OwnerTypes
  <2> QED BY <1>1, <2>1 DEF TypeOK
<1>4. OwnedInv' BY <1>1, <1>2, OwnerTypes DEF LeaseInv, OwnedInv
<1>5. RegisteredInv' BY <1>1, OwnerTypes DEF LeaseInv, RegisteredInv
<1>6. LeasedInv' BY <1>1 DEF LeaseInv, LeasedInv
<1>7. LeaseCounts'
  <2>1. \A j : OwnerHolds(j)' <=> OwnerHolds(j)
    BY <1>1, <1>2, OwnerTypes DEF OwnerHolds
  <2> QED BY <1>1, <2>1, HoldersSame DEF LeaseInv, LeaseCounts
<1> QED BY <1>3, <1>4, <1>5, <1>6, <1>7 DEF LeaseInv

\* A bucket made now has no lease but its owner's.
LEMMA ProvideStep ==
    ASSUME LaneInv, NEW t \in Owners, Provide(t)
    PROVE  LaneInv'
<1> USE DEF LaneInv
<1> PICK b : b = made + 1 OBVIOUS
<1>1. /\ made < MaxBuckets /\ made' = b /\ registry' = b
      /\ owner' = [owner EXCEPT ![b] = t] /\ refs' = [refs EXCEPT ![b] = 1]
      /\ installed' = [installed EXCEPT ![t] = b]
      /\ pollers' = [pollers EXCEPT ![t] = @ \cup {b}]
      /\ loop' = loop \/ loop' = [loop EXCEPT ![t] = "polling"]
      /\ \/ todo' = todo \/ todo' = [todo EXCEPT ![t] = @ \cup {b}]
         \/ todo' = [todo EXCEPT ![t] = pollers[t] \cup {b}]
      /\ UNCHANGED <<closed, ring, freed, leaving, work, pending, woken, running,
                     senderVars, history>>
  BY DEF Provide
<1>2. made \in Nat /\ b \in Buckets /\ b > made BY <1>1, LeaseTypes
<1>3. \A u \in Owners : b \notin pollers[u] /\ b \notin pending[u]
  BY <1>2, LeaseTypes, OwnerTypes DEF LeaseInv, OwnedInv
<1>4. ~closed[b] /\ b \notin freed BY <1>2 DEF LeaseInv, RegisteredInv
<1>5. TypeOK'
  <2>1. registry' \in 0 .. made' /\ made' \in 0 .. MaxBuckets BY <1>1, <1>2, LeaseTypes
  <2>2. /\ owner' \in [Buckets -> Owners \cup {Nobody}] /\ refs' \in [Buckets -> Nat]
        /\ installed' \in [Owners -> 0 .. MaxBuckets]
    BY <1>1, <1>2, LeaseTypes, OwnerTypes
  <2>3. pollers' \in [Owners -> SUBSET Buckets] BY <1>1, <1>2, OwnerTypes
  <2>4. todo' \in [Owners -> SUBSET Buckets]
    <3>1. todo[t] \cup {b} \subseteq Buckets /\ pollers[t] \cup {b} \subseteq Buckets
      BY <1>2, OwnerTypes
    <3>2. todo \in [Owners -> SUBSET Buckets] BY OwnerTypes
    <3> HIDE DEF LaneInv
    <3> QED BY <1>1, <3>1, <3>2
  <2>5. loop' \in [Owners -> {"off", "idle", "polling", "handler", "stopping", "down"}]
    BY <1>1, OwnerTypes
  <2> QED BY <1>1, <2>1, <2>2, <2>3, <2>4, <2>5 DEF TypeOK
<1>6. OwnedInv'
  <2> SUFFICES ASSUME NEW u \in Owners PROVE OwnedInv!(u)'
      BY DEF OwnedInv
  <2>1. OwnedInv!(u) BY DEF LeaseInv, OwnedInv
  <2>2. \A k \in pollers'[u] \cup pending'[u] : k <= made' /\ owner'[k] = u
    <3> TAKE k \in pollers'[u] \cup pending'[u]
    <3>1. CASE k = b
      <4>1. u = t BY <1>1, <1>3, <3>1, OwnerTypes
      <4> QED BY <1>1, <1>2, <3>1, <4>1, OwnerTypes
    <3>2. CASE k # b
      <4>1. k \in pollers[u] \cup pending[u] BY <1>1, <3>2, OwnerTypes
      <4>2. k <= made /\ owner[k] = u /\ k \in Buckets BY <2>1, <4>1, OwnerTypes
      <4> QED BY <1>1, <1>2, <3>2, <4>2, OwnerTypes
    <3> QED BY <3>1, <3>2
  <2>3. pollers'[u] \cap pending'[u] = {} BY <1>1, <1>3, <2>1, OwnerTypes
  <2>4. todo'[u] \subseteq pollers'[u] BY <1>1, <2>1, OwnerTypes
  <2> QED BY <2>2, <2>3, <2>4
<1>7. RegisteredInv'
  BY <1>1, <1>2, <1>4, LeaseTypes, OwnerTypes DEF LeaseInv, RegisteredInv
<1>8. LeasedInv' BY <1>1, <1>2, LeaseTypes DEF LeaseInv, LeasedInv
<1>9. LeaseCounts'
  <2> SUFFICES ASSUME NEW k \in 1 .. b PROVE LeaseCounts!(k)'
      BY <1>1 DEF LeaseCounts
  <2>1. Holders(k)' = Holders(k) /\ k \in Buckets BY <1>1, <1>2, HoldersSame
  <2>2. CASE k = b
    <3>1. Holders(b) = {} BY <1>2, LeaseTypes DEF Holders, LeaseInv, LeasedInv
    <3>2. Cardinality(Holders(b)) = 0 BY <3>1, FS_EmptySet
    <3>3. OwnerHolds(b)' BY <1>1, <1>2, OwnerTypes DEF OwnerHolds
    <3>4. refs'[b] = 1 /\ b \notin freed' BY <1>1, <1>2, <1>4, LeaseTypes
    <3> QED BY <2>1, <2>2, <3>2, <3>3, <3>4
  <2>3. CASE k # b
    <3>1. k \in 1 .. made BY <1>2, <2>3
    <3>2. LeaseCounts!(k) BY <3>1 DEF LeaseInv, LeaseCounts
    <3>3. OwnerHolds(k)' <=> OwnerHolds(k)
      BY <1>1, <2>1, <2>3, OwnerTypes DEF OwnerHolds
    <3>4. refs'[k] = refs[k] BY <1>1, <2>3
    <3> QED BY <1>1, <2>1, <3>2, <3>3, <3>4
  <2> QED BY <2>2, <2>3
<1> QED BY <1>5, <1>6, <1>7, <1>8, <1>9 DEF LeaseInv

LEMMA FinishTeardownStep ==
    ASSUME LaneInv, NEW t \in Owners, FinishTeardown(t)
    PROVE  LaneInv'
<1> USE DEF LaneInv
<1>1. /\ refs' = [k \in Buckets |-> IF k \in pending[t] THEN refs[k] - 1 ELSE refs[k]]
      /\ freed' = freed \cup {k \in pending[t] : refs[k] = 1}
      /\ pending' = [pending EXCEPT ![t] = {}]
      /\ loop' = [loop EXCEPT ![t] = "down"]
      /\ leaving' = [leaving EXCEPT ![t] = FALSE]
      /\ woken' = [woken EXCEPT ![t] = FALSE]
      /\ UNCHANGED <<registry, made, bucketVars, pollers, todo, work, handlerVars,
                     senderVars, history>>
  BY DEF FinishTeardown
<1>2. \A k \in pending[t] : k \in 1 .. made /\ k \in Buckets /\ owner[k] = t
                            /\ k \notin pollers[t]
  BY LeaseTypes, OwnerTypes DEF LeaseInv, OwnedInv
<1>3. ASSUME NEW k \in pending[t]
      PROVE  refs[k] = Cardinality(Holders(k)) + 1 /\ Cardinality(Holders(k)) \in Nat
             /\ k \notin freed
  <2>1. OwnerHolds(k) BY <1>2 DEF OwnerHolds
  <2>2. LeaseCounts!(k) BY <1>2 DEF LeaseInv, LeaseCounts
  <2> QED BY <2>1, <2>2, HoldersFinite
<1>4. TypeOK'
  <2>1. refs' \in [Buckets -> Nat]
    <3> SUFFICES ASSUME NEW k \in Buckets
                 PROVE  (IF k \in pending[t] THEN refs[k] - 1 ELSE refs[k]) \in Nat
        BY <1>1
    <3>1. CASE k \in pending[t] BY <1>3, <3>1
    <3>2. CASE k \notin pending[t] BY <3>2, LeaseTypes
    <3> QED BY <3>1, <3>2
  <2>2. freed' \subseteq Buckets BY <1>1, <1>2, LeaseTypes
  <2>3. pending' \in [Owners -> SUBSET Buckets] BY <1>1, OwnerTypes
  <2>4. leaving' \in [Owners -> BOOLEAN] /\ woken' \in [Owners -> BOOLEAN]
    BY <1>1, OwnerTypes
  <2>5. loop' \in [Owners -> {"off", "idle", "polling", "handler", "stopping", "down"}]
    BY <1>1, OwnerTypes
  <2> QED BY <1>1, <2>1, <2>2, <2>3, <2>4, <2>5 DEF TypeOK
<1>5. OwnedInv' BY <1>1, OwnerTypes DEF LeaseInv, OwnedInv
<1>6. RegisteredInv' BY <1>1, <1>2, LeaseTypes DEF LeaseInv, RegisteredInv
<1>7. LeasedInv' BY <1>1 DEF LeaseInv, LeasedInv
<1>8. LeaseCounts'
  <2> SUFFICES ASSUME NEW k \in 1 .. made PROVE LeaseCounts!(k)'
      BY <1>1 DEF LeaseCounts
  <2>1. Holders(k)' = Holders(k) /\ k \in Buckets BY <1>1, HoldersSame, LeaseTypes
  <2>2. LeaseCounts!(k) BY DEF LeaseInv, LeaseCounts
  <2>3. CASE k \in pending[t]
    <3>1. ~OwnerHolds(k)' BY <1>1, <1>2, <2>3, OwnerTypes DEF OwnerHolds
    <3>2. refs'[k] = refs[k] - 1 /\ (k \in freed' <=> refs[k] = 1)
      BY <1>1, <1>3, <2>1, <2>3
    <3> QED BY <1>3, <2>1, <2>3, <3>1, <3>2
  <2>4. CASE k \notin pending[t]
    <3>1. OwnerHolds(k)' <=> OwnerHolds(k) BY <1>1, <2>4, OwnerTypes DEF OwnerHolds
    <3>2. refs'[k] = refs[k] /\ (k \in freed' <=> k \in freed) BY <1>1, <2>1, <2>4
    <3> QED BY <2>1, <2>2, <3>1, <3>2
  <2> QED BY <2>3, <2>4
<1> QED BY <1>4, <1>5, <1>6, <1>7, <1>8 DEF LeaseInv

LEMMA LaneStep == LaneInv /\ [Next]_vars => LaneInv'
<1> SUFFICES ASSUME LaneInv, [Next]_vars PROVE LaneInv'
    OBVIOUS
<1>1. ASSUME NEW t \in Owners, Owner(t) PROVE LaneInv'
  <2>1. CASE Dispatch(t)
    BY <2>1, WakeUpStep, PassStep, PollHitStep, PollRetiresStep, HandlerRepliesStep
       DEF Dispatch
  <2> QED BY <1>1, <2>1, ProvideStep, ClearStep, TeardownStep, FinishTeardownStep DEF Owner
<1>2. CASE UNCHANGED vars
  <2>1. TypeOK' BY <1>2 DEF LaneInv, TypeOK, vars
  <2>2. LeaseInv' BY <1>2, TodoPolled, LeaseKept DEF LaneInv, vars
  <2> QED BY <2>1, <2>2 DEF LaneInv
<1> QED BY <1>1, <1>2, SenderStep DEF Next

\* A transport is freed exactly when its last holder lets go, for any number of
\* threads, senders, buckets and requests, whatever runs after a teardown
\* (acquireLease, releaseLease, takeRingOwnership, drainPendingRingFrees).
THEOREM LeaseCounted == Spec => [](TypeOK /\ LeaseCounts)
<1>1. LaneInv => TypeOK /\ LeaseCounts BY DEF LaneInv, LeaseInv
<1> QED BY <1>1, LaneInit, LaneStep, PTL DEF Spec

-----------------------------------------------------------------------------
(* Nothing is used after it was freed, when threads end with their         *)
(* teardown.                                                               *)

\* A sender's step moves nothing of an owner's.
LEMMA SenderLeaves ==
    ASSUME NEW s \in Senders, Sender(s)
    PROVE  UNCHANGED <<made, owner, closed, dispatchVars, handlerVars, autoCleared>>
BY DEF Sender, Snapshot, TestClosed, Enqueue, WakeProvider, StopWaiting, ReleaseLease

LEMMA RunningStep ==
    ASSUME ~LivesOn, LaneInv, RunningInv, [Next]_vars
    PROVE  RunningInv'
<1> USE DEF LaneInv
<1>0. ASSUME UNCHANGED <<loop, pollers, pending, running>> PROVE RunningInv'
  BY <1>0 DEF RunningInv
<1>1. ASSUME NEW s \in Senders, Sender(s) PROVE RunningInv'
  BY <1>0, <1>1, SenderLeaves
<1>2. ASSUME NEW t \in Owners, Owner(t) PROVE RunningInv'
  <2> SUFFICES ASSUME NEW u \in Owners PROVE RunningInv!(u)'
      BY DEF RunningInv
  <2>0. RunningInv!(u) BY DEF RunningInv
  <2>1. CASE Provide(t)
    BY <2>0, <2>1, OwnerTypes DEF Provide, Startable, UserCode
  <2>2. CASE Clear(t) BY <2>0, <2>2 DEF Clear, Retire
  <2>3. CASE WakeUp(t) BY <2>0, <2>3, OwnerTypes DEF WakeUp
  <2>4. ASSUME NEW k \in Buckets, PollHit(t, k) PROVE RunningInv!(u)'
    <3>1. k \in pollers[t] /\ loop[t] = "polling"
      BY <2>4, TodoPolled DEF PollHit, Polls
    <3>2. /\ loop' = loop \/ loop' = [loop EXCEPT ![t] = "handler"]
          /\ \/ running' = running
             \/ \E q : running' = [running EXCEPT ![t] = @ \cup {<<q, k>>}]
          /\ UNCHANGED <<pollers, pending>>
      BY <2>4 DEF PollHit
    <3>3. CASE u # t
      <4>1. loop'[u] = loop[u] /\ running'[u] = running[u] BY <3>2, <3>3, OwnerTypes
      <4> QED BY <2>0, <3>2, <4>1
    <3>4. CASE u = t
      <4>1. loop[u] = "polling" /\ loop'[u] # "off" BY <3>1, <3>2, <3>4, OwnerTypes
      <4>2. \A w \in running'[u] : w \in running[u] \/ w[2] = k
        BY <3>2, <3>4, OwnerTypes
      <4> QED BY <2>0, <3>1, <3>2, <3>4, <4>1, <4>2
    <3> QED BY <3>3, <3>4
  <2>5. CASE HandlerYields(t) BY <2>0, <2>5, OwnerTypes DEF HandlerYields
  <2>6. ASSUME NEW k \in Buckets, PollEmpty(t, k) PROVE RunningInv!(u)'
    BY <2>0, <2>6 DEF PollEmpty
  <2>7. ASSUME NEW k \in Buckets, PollRetires(t, k) PROVE RunningInv!(u)'
    BY <2>0, <2>7, OwnerTypes DEF PollRetires
  <2>8. CASE PassEnds(t) BY <2>0, <2>8, OwnerTypes DEF PassEnds
  <2>9. ASSUME NEW q, NEW k, HandlerReplies(t, q, k) PROVE RunningInv!(u)'
    BY <2>0, <2>9, OwnerTypes DEF HandlerReplies
  <2>10. CASE Teardown(t) BY <2>0, <2>10, OwnerTypes DEF Teardown
  <2>11. CASE FinishTeardown(t) BY <2>0, <2>11, OwnerTypes DEF FinishTeardown
  <2> QED BY <1>2, <2>1, <2>2, <2>3, <2>4, <2>5, <2>6, <2>7, <2>8, <2>9, <2>10, <2>11
          DEF Owner, Dispatch
<1>3. CASE UNCHANGED vars BY <1>0, <1>3 DEF vars
<1> QED BY <1>1, <1>2, <1>3 DEF Next

\* Whoever holds a bucket keeps it from being freed.
LEMMA HeldNotFreed ==
    ASSUME LaneInv
    PROVE  /\ \A t \in Owners : \A k \in pollers[t] \cup pending[t] : k \notin freed
           /\ \A s \in Senders : lease[s] \notin freed
<1> USE DEF LaneInv
<1>1. ASSUME NEW t \in Owners, NEW k \in pollers[t] \cup pending[t] PROVE k \notin freed
  <2>1. k \in 1 .. made /\ owner[k] = t
    BY LeaseTypes, OwnerTypes DEF LeaseInv, OwnedInv
  <2>2. OwnerHolds(k) BY <2>1 DEF OwnerHolds
  <2>3. LeaseCounts!(k) BY <2>1 DEF LeaseInv, LeaseCounts
  <2> QED BY <2>2, <2>3, HoldersFinite
<1>2. ASSUME NEW s \in Senders PROVE lease[s] \notin freed
  <2> PICK k : k = lease[s] OBVIOUS
  <2>1. CASE k = 0 BY <2>1, LeaseTypes
  <2>2. CASE k # 0
    <3>1. k \in 1 .. made BY <2>2, LeaseTypes DEF LeaseInv, LeasedInv
    <3>2. LeaseCounts!(k) BY <3>1 DEF LeaseInv, LeaseCounts
    <3>3. Holders(k) # {} BY DEF Holders
    <3>4. Cardinality(Holders(k)) # 0 BY <3>3, HoldersFinite, FS_EmptySet
    <3> QED BY <3>2, <3>4, HoldersFinite
  <2> QED BY <2>1, <2>2
<1> QED BY <1>1, <1>2

LEMMA RunningSafe ==
    ASSUME LaneInv, RunningInv
    PROVE  NoUseAfterFree
<1>1. registry \notin freed
  <2>1. CASE registry = 0 BY <2>1, LeaseTypes DEF LaneInv
  <2>2. CASE registry # 0
    BY <2>2, HeldNotFreed DEF LaneInv, LeaseInv, RegisteredInv
  <2> QED BY <2>1, <2>2
<1>2. \A t \in Owners : pollers[t] \cap freed = {} BY HeldNotFreed
<1>3. \A t \in Owners : loop[t] # "down" => \A w \in running[t] : w[2] \notin freed
  BY HeldNotFreed DEF RunningInv
<1> QED BY <1>1, <1>2, <1>3, HeldNotFreed DEF NoUseAfterFree

LEMMA RunningInit == Init => RunningInv
BY DEF Init, RunningInv

\* No sender, poll pass, lookup or suspended handler of a live loop finds its
\* ring or pool freed, when a thread's loop ends with its teardown
\* (releaseLease, pollPoller's retirement, drainPendingRingFrees).
THEOREM NothingUsedAfterFree ==
    ASSUME ~LivesOn
    PROVE  Spec => []NoUseAfterFree
<1>1. Init => LaneInv /\ RunningInv BY LaneInit, RunningInit
<1>2. LaneInv /\ RunningInv /\ [Next]_vars => (LaneInv /\ RunningInv)'
  BY LaneStep, RunningStep
<1>3. LaneInv /\ RunningInv => NoUseAfterFree BY RunningSafe
<1> QED BY <1>1, <1>2, <1>3, PTL DEF Spec

-----------------------------------------------------------------------------
(* What teardown cleared is freed.                                         *)

\* The two halves of LeavingInv: where thread t is, and a cleared bucket.
LeavingAt(t) ==
    /\ leaving[t] => loop[t] \in {"polling", "handler", "stopping"}
    /\ \A k \in autoCleared \cap pollers[t] :
        loop[t] \in {"polling", "handler"} /\ (k \in todo[t] \/ work[t])

ClearedBy(k) ==
    /\ k <= made /\ closed[k] /\ owner[k] \in Owners
    /\ leaving[owner[k]] \/ k \notin pollers[owner[k]] \cup pending[owner[k]]

LEMMA LeavingParts ==
    LeavingInv <=> (\A t \in Owners : LeavingAt(t)) /\ (\A k \in autoCleared : ClearedBy(k))
BY DEF LeavingInv, LeavingAt, ClearedBy

LEMMA LeavingStep ==
    ASSUME LaneInv, LeavingInv, [Next]_vars
    PROVE  LeavingInv'
<1> USE DEF LaneInv
<1>a. \A t \in Owners : LeavingAt(t) BY LeavingParts
<1>b. \A k \in autoCleared : ClearedBy(k) BY LeavingParts
<1>0. ASSUME UNCHANGED <<made, owner, closed, loop, leaving, pollers, todo, work, pending,
                         autoCleared>>
      PROVE  LeavingInv'
  BY <1>0 DEF LeavingInv
<1>1. ASSUME NEW s \in Senders, Sender(s) PROVE LeavingInv'
  BY <1>0, <1>1, SenderLeaves
<1>2. ASSUME NEW t \in Owners, Owner(t) PROVE LeavingInv'
  <2> USE DEF LeavingAt, ClearedBy
  \* A pass of its loop: it neither leaves nor clears, and keeps its buckets.
  <2>0. ASSUME UNCHANGED <<made, owner, closed, leaving, autoCleared>>,
               LeavingAt(t)',
               pollers'[t] \cup pending'[t] \subseteq pollers[t] \cup pending[t],
               \A u \in Owners \ {t} : /\ loop'[u] = loop[u] /\ pollers'[u] = pollers[u]
                                       /\ todo'[u] = todo[u] /\ work'[u] = work[u]
                                       /\ pending'[u] = pending[u]
        PROVE  LeavingInv'
    <3>1. \A u \in Owners : LeavingAt(u)' BY <1>a, <2>0
    <3>2. \A k \in autoCleared : ClearedBy(k)'
      <4> TAKE k \in autoCleared
      <4>1. ClearedBy(k) BY <1>b
      <4>2. CASE owner[k] = t BY <2>0, <4>1, <4>2
      <4>3. CASE owner[k] # t BY <2>0, <4>1, <4>3
      <4> QED BY <4>2, <4>3
    <3> QED BY <2>0, <3>1, <3>2 DEF LeavingInv
  <2>a. LeavingAt(t) BY <1>a
  <2>1. CASE Provide(t)
    <3> PICK b : b = made + 1 OBVIOUS
    <3>1. /\ made' = b /\ owner' = [owner EXCEPT ![b] = t]
          /\ pollers' = [pollers EXCEPT ![t] = @ \cup {b}]
          /\ loop[t] \in {"idle", "handler", "off", "down"}
          /\ loop' = IF loop[t] \in {"off", "down"} THEN [loop EXCEPT ![t] = "polling"] ELSE loop
          /\ \/ todo' = todo \/ todo' = [todo EXCEPT ![t] = @ \cup {b}]
             \/ loop[t] \in {"off", "down"} /\ todo' = [todo EXCEPT ![t] = pollers[t] \cup {b}]
          /\ UNCHANGED <<closed, leaving, work, pending, autoCleared>>
      BY <2>1 DEF Provide, Startable, UserCode
    <3>2. b \notin autoCleared /\ b \in Nat /\ made < b
      BY <1>b, LeaseTypes
    <3>3. \A u \in Owners : LeavingAt(u)'
      <4> TAKE u \in Owners
      <4>1. CASE u # t
        <5>1. loop'[u] = loop[u] /\ pollers'[u] = pollers[u] /\ todo'[u] = todo[u]
          BY <3>1, <4>1, OwnerTypes
        <5> QED BY <1>a, <3>1, <5>1
      <4>2. CASE u = t
        <5>1. \A k \in autoCleared \cap pollers'[t] : k \in pollers[t]
          BY <3>1, <3>2, OwnerTypes
        <5>2. \A k \in todo[t] : k \in todo'[t] \/ loop[t] \in {"off", "down"}
          BY <3>1, OwnerTypes
        <5>3. loop'[t] = IF loop[t] \in {"off", "down"} THEN "polling" ELSE loop[t]
          BY <3>1, OwnerTypes
        <5> QED BY <2>a, <3>1, <4>2, <5>1, <5>2, <5>3
      <4> QED BY <4>1, <4>2
    <3>4. \A k \in autoCleared : ClearedBy(k)'
      <4> TAKE k \in autoCleared
      <4>1. ClearedBy(k) /\ k # b /\ k \in Buckets BY <1>b, <3>2, OwnerTypes
      <4>2. owner'[k] = owner[k] /\ k <= made' BY <3>1, <3>2, <4>1, LeaseTypes
      <4>3. k \in pollers'[owner[k]] => k \in pollers[owner[k]]
        BY <3>1, <4>1, OwnerTypes
      <4> QED BY <3>1, <4>1, <4>2, <4>3
    <3> QED BY <3>1, <3>3, <3>4 DEF LeavingInv
  <2>2. CASE Clear(t)
    <3>1. \A u \in Owners : LeavingAt(u)' BY <1>a, <2>2 DEF Clear, Retire
    <3>2. \A k \in autoCleared : ClearedBy(k)'
      BY <1>b, <2>2, LeaseTypes, OwnerTypes DEF Clear, Retire
    <3> QED BY <2>2, <3>1, <3>2 DEF Clear, Retire, LeavingInv
  <2>3. CASE WakeUp(t)
    <3>1. LeavingAt(t)' BY <2>3, <2>a, OwnerTypes DEF WakeUp
    <3> QED BY <2>0, <2>3, <3>1 DEF WakeUp
  <2>4. ASSUME NEW k \in Buckets, PollHit(t, k) PROVE LeavingInv'
    <3>1. loop[t] = "polling" /\ work'[t] /\ loop'[t] \in {"polling", "handler"}
      BY <2>4, OwnerTypes DEF PollHit, Polls
    <3>2. LeavingAt(t)' BY <2>4, <2>a, <3>1 DEF PollHit
    <3>3. \A u \in Owners \ {t} : /\ loop'[u] = loop[u] /\ todo'[u] = todo[u]
                                   /\ work'[u] = work[u]
      <4>1. loop' = loop \/ loop' = [loop EXCEPT ![t] = "handler"] BY <2>4 DEF PollHit
      <4> QED BY <2>4, <4>1, OwnerTypes DEF PollHit, Polls
    <3> QED BY <2>0, <2>4, <3>1, <3>2, <3>3 DEF PollHit
  <2>5. CASE HandlerYields(t)
    <3>1. LeavingAt(t)' BY <2>5, <2>a, OwnerTypes DEF HandlerYields
    <3> QED BY <2>0, <2>5, <3>1 DEF HandlerYields
  <2>6. ASSUME NEW k \in Buckets, PollEmpty(t, k) PROVE LeavingInv'
    <3>1. LeavingAt(t)' BY <1>b, <2>6, <2>a, OwnerTypes DEF PollEmpty, Polls
    <3> QED BY <2>0, <2>6, <3>1 DEF PollEmpty, Polls
  <2>7. ASSUME NEW k \in Buckets, PollRetires(t, k) PROVE LeavingInv'
    <3>1. LeavingAt(t)' BY <2>7, <2>a, OwnerTypes DEF PollRetires, Polls
    <3>2. k \in pollers[t] BY <2>7, TodoPolled DEF PollRetires, Polls
    <3>3. pollers'[t] \cup pending'[t] \subseteq pollers[t] \cup pending[t]
      BY <2>7, <3>2, OwnerTypes DEF PollRetires
    <3> QED BY <2>0, <2>7, <3>1, <3>3 DEF PollRetires, Polls
  <2>8. CASE PassEnds(t)
    <3>1. LeavingAt(t)' BY <2>8, <2>a, OwnerTypes DEF PassEnds
    <3>2. \A u \in Owners \ {t} : /\ loop'[u] = loop[u] /\ todo'[u] = todo[u]
                                   /\ work'[u] = work[u]
      <4>1. CASE work[t] BY <2>8, <4>1, OwnerTypes DEF PassEnds
      <4>2. CASE ~work[t] BY <2>8, <4>2, OwnerTypes DEF PassEnds
      <4> QED BY <4>1, <4>2
    <3> QED BY <2>0, <2>8, <3>1, <3>2 DEF PassEnds
  <2>9. ASSUME NEW q, NEW k, HandlerReplies(t, q, k) PROVE LeavingInv'
    BY <1>0, <2>9 DEF HandlerReplies
  <2>10. CASE Teardown(t)
    <3>1. /\ loop[t] = "idle" /\ leaving' = [leaving EXCEPT ![t] = TRUE]
          /\ UNCHANGED <<made, owner, pollers, pending>>
      BY <2>10 DEF Teardown
    <3>2. CASE Owns(t)
      <4>1. /\ owner[registry] = t /\ registry \in Buckets /\ registry <= made
            /\ closed' = [closed EXCEPT ![registry] = TRUE]
            /\ autoCleared' = autoCleared \cup {registry}
            /\ loop' = [loop EXCEPT ![t] = "polling"]
            /\ todo' = [todo EXCEPT ![t] = pollers[t]] /\ work' = [work EXCEPT ![t] = FALSE]
        BY <2>10, <3>2, LeaseTypes DEF Teardown, Retire, Owns
      <4>2. \A u \in Owners : LeavingAt(u)'
        <5> TAKE u \in Owners
        <5>1. CASE u = t BY <3>1, <4>1, <5>1, OwnerTypes
        <5>2. CASE u # t
          <6>1. registry \notin pollers[u] BY <4>1, <5>2 DEF LeaseInv, OwnedInv
          <6> QED BY <1>a, <3>1, <4>1, <5>2, <6>1
        <5> QED BY <5>1, <5>2
      <4>3. \A k \in autoCleared' : ClearedBy(k)'
        <5> TAKE k \in autoCleared'
        <5>1. CASE k = registry BY <3>1, <4>1, <5>1, LeaseTypes, OwnerTypes
        <5>2. CASE k # registry
          <6>1. ClearedBy(k) BY <1>b, <4>1, <5>2
          <6>2. k \in Buckets BY <4>1, <5>2, OwnerTypes
          <6>3. leaving[owner[k]] => leaving'[owner[k]] BY <3>1, <6>1, OwnerTypes
          <6> QED BY <3>1, <4>1, <5>2, <6>1, <6>2, <6>3, LeaseTypes
        <5> QED BY <5>1, <5>2
      <4> QED BY <4>2, <4>3 DEF LeavingInv
    <3>3. CASE ~Owns(t)
      <4>1. /\ loop' = [loop EXCEPT ![t] = "stopping"]
            /\ UNCHANGED <<closed, todo, work, autoCleared>>
        BY <2>10, <3>3 DEF Teardown
      <4>2. \A u \in Owners : LeavingAt(u)' BY <1>a, <3>1, <4>1, OwnerTypes
      <4>3. \A k \in autoCleared : ClearedBy(k)' BY <1>b, <3>1, <4>1, OwnerTypes
      <4> QED BY <4>1, <4>2, <4>3 DEF LeavingInv
    <3> QED BY <3>2, <3>3
  <2>11. CASE FinishTeardown(t)
    <3>1. /\ loop[t] = "stopping" /\ loop' = [loop EXCEPT ![t] = "down"]
          /\ pending' = [pending EXCEPT ![t] = {}]
          /\ leaving' = [leaving EXCEPT ![t] = FALSE]
          /\ UNCHANGED <<made, owner, closed, pollers, todo, work, autoCleared>>
      BY <2>11 DEF FinishTeardown
    <3>2. \A u \in Owners : LeavingAt(u)' BY <1>a, <3>1, OwnerTypes
    <3>3. \A k \in autoCleared : ClearedBy(k)'
      <4> TAKE k \in autoCleared
      <4>1. ClearedBy(k) BY <1>b
      <4>2. CASE owner[k] = t
        <5>1. k \notin pollers[t] BY <2>a, <3>1
        <5> QED BY <3>1, <4>1, <4>2, <5>1, OwnerTypes
      <4>3. CASE owner[k] # t BY <3>1, <4>1, <4>3, OwnerTypes
      <4> QED BY <4>2, <4>3
    <3> QED BY <3>1, <3>2, <3>3 DEF LeavingInv
  <2> QED BY <1>2, <2>1, <2>2, <2>3, <2>4, <2>5, <2>6, <2>7, <2>8, <2>9, <2>10, <2>11
          DEF Owner, Dispatch
<1>3. CASE UNCHANGED vars BY <1>0, <1>3 DEF vars
<1> QED BY <1>1, <1>2, <1>3 DEF Next

LEMMA LeavingFrees ==
    ASSUME LaneInv, LeavingInv
    PROVE  AutoClearedFreed
<1> SUFFICES ASSUME NEW k \in autoCleared, loop[owner[k]] \in {"off", "down"}, Holders(k) = {}
             PROVE  k \in freed
    BY DEF AutoClearedFreed
<1>1. k \in 1 .. made /\ owner[k] \in Owners /\ ~leaving[owner[k]]
  <2>1. k \in Buckets /\ made \in Nat BY OwnerTypes, LeaseTypes DEF LaneInv
  <2>2. ClearedBy(k) BY LeavingParts
  <2>3. LeavingAt(owner[k]) BY <2>2, LeavingParts DEF ClearedBy
  <2> QED BY <2>1, <2>2, <2>3 DEF ClearedBy, LeavingAt
<1>2. ~OwnerHolds(k) BY <1>1, LeavingParts DEF OwnerHolds, ClearedBy
<1>3. LeaseCounts!(k) BY <1>1 DEF LaneInv, LeaseInv, LeaseCounts
<1> QED BY <1>2, <1>3, FS_EmptySet

LEMMA LeavingInit == Init => LeavingInv
BY DEF Init, LeavingInv

\* What teardownBrokerThread cleared is freed when its thread is down and no
\* sender uses it: the poll pass it makes after the clear retires the poll fn.
THEOREM TeardownFrees == Spec => []AutoClearedFreed
<1>1. Init => LaneInv /\ LeavingInv BY LaneInit, LeavingInit
<1>2. LaneInv /\ LeavingInv /\ [Next]_vars => (LaneInv /\ LeavingInv)'
  BY LaneStep, LeavingStep
<1>3. LaneInv /\ LeavingInv => AutoClearedFreed BY LeavingFrees
<1> QED BY <1>1, <1>2, <1>3, PTL DEF Spec

-----------------------------------------------------------------------------
(* No wake-up is lost: WakeInv is inductive with LaneInv.  What a step can *)
(* take from it is that a bucket is quiet, and that only of a bucket of    *)
(* the thread that takes it, or of the one a sender wakes.                 *)

\* A thread that a step leaves where it is, but for its wake-up.
LEMMA WakeSame ==
    ASSUME WakeInv, NEW u \in Owners, woken[u] => woken'[u],
           loop'[u] = loop[u], pollers'[u] = pollers[u], todo'[u] = todo[u], work'[u] = work[u],
           loop[u] \in {"idle", "polling", "handler"} =>
             \A k \in pollers[u] : Quiet(k) => Quiet(k)' \/ woken'[u]
    PROVE  WakeFor(u)'
<1>1. WakeFor(u) BY DEF WakeInv
<1> SUFFICES ASSUME loop[u] \in {"idle", "polling", "handler"}, ~woken'[u], NEW k \in pollers[u]
             PROVE  Quiet(k)' \/ (loop[u] # "idle" /\ (k \in todo[u] \/ work[u]))
  BY DEF WakeFor
<1>2. Quiet(k) \/ (loop[u] # "idle" /\ (k \in todo[u] \/ work[u])) BY <1>1 DEF WakeFor
<1> QED BY <1>2

LEMMA QuietSame ==
    ASSUME NEW k, closed'[k] = closed[k], ring'[k] = ring[k], UNCHANGED <<pc, lease>>
    PROVE  Quiet(k)' <=> Quiet(k)
BY DEF Quiet

\* A sender that is not the one who is about to wake somebody.
LEMMA QuietSender ==
    ASSUME NEW s \in Senders, pc[s] # "enqueued", UNCHANGED <<closed, ring>>,
           \A q \in Senders \ {s} : pc'[q] = pc[q] /\ lease'[q] = lease[q], NEW k, Quiet(k)
    PROVE  Quiet(k)'
BY DEF Quiet

LEMMA SenderWakes ==
    ASSUME LaneInv, WakeInv, NEW s \in Senders, Sender(s)
    PROVE  \A u \in Owners : WakeFor(u)'
<1> SUFFICES ASSUME NEW u \in Owners PROVE WakeFor(u)'
  OBVIOUS
<1>0. UNCHANGED dispatchVars /\ UNCHANGED <<closed, owner>>
  BY DEF Sender, Snapshot, TestClosed, Enqueue, WakeProvider, StopWaiting, ReleaseLease, bucketVars
<1>1. UNCHANGED <<loop, pollers, todo, work>> BY <1>0 DEF dispatchVars
<1>2. /\ pc \in [Senders -> {"idle", "found", "open", "enqueued", "waiting", "finished"}]
      /\ lease \in [Senders -> 0 .. MaxBuckets] /\ woken \in [Owners -> BOOLEAN]
      /\ ring \in [Buckets -> Seq(Requests)]
  BY LeaseTypes, OwnerTypes DEF LaneInv
<1>3. CASE Snapshot(s) \/ TestClosed(s) \/ StopWaiting(s) \/ ReleaseLease(s)
  <2>1. UNCHANGED <<ring, woken>> /\ pc[s] # "enqueued"
    BY <1>3 DEF Snapshot, TestClosed, StopWaiting, ReleaseLease, bucketVars
  <2>2. \A q \in Senders \ {s} : pc'[q] = pc[q] /\ lease'[q] = lease[q]
    BY <1>2, <1>3 DEF Snapshot, TestClosed, StopWaiting, ReleaseLease, Set
  <2>3. \A k \in pollers[u] : Quiet(k) => Quiet(k)' BY <1>0, <2>1, <2>2, QuietSender
  <2> QED BY <1>1, <2>1, <2>3, WakeSame
<1>4. CASE Enqueue(s)
  <2>1. woken' = woken /\ lease' = lease /\ pc[s] = "open" BY <1>4 DEF Enqueue
  <2>2. \/ pc' = [pc EXCEPT ![s] = "finished"] /\ ring' = ring
        \/ /\ pc' = [pc EXCEPT ![s] = "enqueued"]
           /\ \E r : ring' = [ring EXCEPT ![lease[s]] = r]
    BY <1>4 DEF Enqueue, Set
  <2>3. \A q \in Senders \ {s} : pc'[q] = pc[q] /\ lease'[q] = lease[q] BY <1>2, <2>1, <2>2
  <2>4. ASSUME NEW k \in pollers[u], Quiet(k) PROVE Quiet(k)'
    <3>1. CASE ring' = ring BY <1>0, <2>1, <2>3, <2>4, <3>1, QuietSender
    <3>2. CASE k = lease[s] /\ pc'[s] = "enqueued"
      <4>1. ~closed'[k] BY <1>0, <2>4 DEF Quiet
      <4> QED BY <2>1, <3>2, <4>1 DEF Quiet
    <3>3. CASE k # lease[s] /\ pc'[s] = "enqueued"
      <4>1. ring'[k] = ring[k]
        <5>1. k \in Buckets BY OwnerTypes DEF LaneInv
        <5> QED BY <1>2, <2>2, <3>3, <5>1
      <4>2. ~closed'[k] BY <1>0, <2>4 DEF Quiet
      <4>3. ASSUME ring'[k] # <<>> PROVE \E q \in Senders : pc'[q] = "enqueued" /\ lease'[q] = k
        <5>1. PICK q \in Senders : pc[q] = "enqueued" /\ lease[q] = k
          BY <2>4, <4>1, <4>3 DEF Quiet
        <5> QED BY <2>1, <2>3, <5>1
      <4> QED BY <4>2, <4>3 DEF Quiet
    <3>4. ring' = ring \/ pc'[s] = "enqueued" BY <1>2, <2>2
    <3> QED BY <3>1, <3>2, <3>3, <3>4
  <2> QED BY <1>1, <2>1, <2>4, WakeSame
<1>5. CASE WakeProvider(s)
  <2>1. /\ pc[s] = "enqueued" /\ Fire(owner[lease[s]]) /\ UNCHANGED <<ring, lease>>
        /\ pc' = [pc EXCEPT ![s] = "waiting"]
    BY <1>5 DEF WakeProvider, Set, bucketVars
  <2>2. woken[u] => woken'[u] BY <1>2, <2>1 DEF Fire, Set
  <2>3. ASSUME loop[u] \in {"idle", "polling", "handler"}, NEW k \in pollers[u], Quiet(k)
        PROVE  Quiet(k)' \/ woken'[u]
    <3>1. CASE k = lease[s]
      <4>1. owner[k] = u BY <3>1 DEF LaneInv, LeaseInv, OwnedInv
      <4> QED BY <1>2, <2>1, <2>3, <3>1, <4>1 DEF Fire, Set
    <3>2. CASE k # lease[s]
      <4>1. ~closed'[k] BY <1>0, <2>3 DEF Quiet
      <4>2. ASSUME ring'[k] # <<>> PROVE \E q \in Senders : pc'[q] = "enqueued" /\ lease'[q] = k
        <5>1. PICK q \in Senders : pc[q] = "enqueued" /\ lease[q] = k
          BY <2>1, <2>3, <4>2 DEF Quiet
        <5> QED BY <1>2, <2>1, <3>2, <5>1
      <4> QED BY <4>1, <4>2 DEF Quiet
    <3> QED BY <3>1, <3>2
  <2> QED BY <1>1, <2>2, <2>3, WakeSame
<1> QED BY <1>3, <1>4, <1>5 DEF Sender

\* A thread changes only buckets of its own, and nothing of another thread.
Touches(t) ==
    /\ UNCHANGED <<pc, lease>>
    /\ \A k \in Buckets : (closed'[k] = closed[k] /\ ring'[k] = ring[k]) \/ owner[k] = t
    /\ \A u \in Owners \ {t} :
         /\ loop'[u] = loop[u] /\ pollers'[u] = pollers[u] /\ todo'[u] = todo[u]
         /\ work'[u] = work[u] /\ woken'[u] = woken[u]

LEMMA OwnerTouches ==
    ASSUME LaneInv, NEW t \in Owners, Owner(t)
    PROVE  Touches(t)
<1>0. /\ loop \in [Owners -> {"off", "idle", "polling", "handler", "stopping", "down"}]
      /\ pollers \in [Owners -> SUBSET Buckets] /\ woken \in [Owners -> BOOLEAN]
      /\ todo \in [Owners -> SUBSET Buckets] /\ work \in [Owners -> BOOLEAN]
      /\ closed \in [Buckets -> BOOLEAN] /\ ring \in [Buckets -> Seq(Requests)]
      /\ registry \in 0 .. made
      /\ \A k \in todo[t] : owner[k] = t
  BY LeaseTypes, OwnerTypes DEF LaneInv, LeaseInv, OwnedInv
<1> USE DEF Touches
<1>1. CASE Provide(t) BY <1>0, <1>1 DEF Provide
<1>2. CASE Clear(t) BY <1>0, <1>2 DEF Clear, Retire, Owns, Fire
<1>3. CASE WakeUp(t) BY <1>0, <1>3 DEF WakeUp
<1>4. CASE HandlerYields(t) \/ PassEnds(t) BY <1>0, <1>4 DEF HandlerYields, PassEnds
<1>5. CASE FinishTeardown(t) BY <1>0, <1>5 DEF FinishTeardown
<1>6. CASE Teardown(t) BY <1>0, <1>6 DEF Teardown, Retire, Owns
<1>7. ASSUME NEW k \in Buckets, PollEmpty(t, k) \/ PollRetires(t, k) PROVE Touches(t)
  BY <1>0, <1>7 DEF PollEmpty, PollRetires, Polls
<1>8. ASSUME NEW k \in Buckets, PollHit(t, k) PROVE Touches(t)
  <2>1. /\ todo' = [todo EXCEPT ![t] = @ \ {k}] /\ work' = [work EXCEPT ![t] = TRUE]
        /\ loop' = loop \/ loop' = [loop EXCEPT ![t] = "handler"]
        /\ UNCHANGED <<pollers, woken, closed, pc, lease>> /\ k \in todo[t]
    BY <1>8 DEF PollHit, Polls
  <2>2. \A j \in Buckets \ {k} : ring'[j] = ring[j] BY <1>0, <1>8 DEF PollHit
  <2> QED BY <1>0, <2>1, <2>2
<1>9. ASSUME NEW q, NEW k, HandlerReplies(t, q, k) PROVE Touches(t)
  BY <1>9 DEF HandlerReplies
<1> QED BY <1>1, <1>2, <1>3, <1>4, <1>5, <1>6, <1>7, <1>8, <1>9 DEF Owner, Dispatch

\* ... in the passes and between them.
LEMMA OwnerSleeps ==
    ASSUME LaneInv, WakeInv, NEW t \in Owners, Owner(t)
    PROVE  WakeFor(t)'
<1>0. /\ loop \in [Owners -> {"off", "idle", "polling", "handler", "stopping", "down"}]
      /\ pollers \in [Owners -> SUBSET Buckets] /\ woken \in [Owners -> BOOLEAN]
      /\ todo \in [Owners -> SUBSET Buckets] /\ work \in [Owners -> BOOLEAN]
  BY OwnerTypes DEF LaneInv
<1>1. WakeFor(t) BY DEF WakeInv
<1>2. UNCHANGED <<pc, lease>> BY OwnerTouches DEF Touches
<1>3. CASE Provide(t)
  <2> PICK b : b = made + 1 OBVIOUS
  <2>1. /\ pollers'[t] = pollers[t] \cup {b} /\ UNCHANGED <<closed, ring, work, woken>>
        /\ \/ loop'[t] = "polling" /\ todo'[t] = pollers[t] \cup {b}
           \/ UserCode(t) /\ loop' = loop /\ todo'[t] = todo[t] \cup {b} /\ loop[t] = "handler"
           \/ UserCode(t) /\ loop' = loop /\ todo' = todo
    BY <1>0, <1>3 DEF Provide, Startable, UserCode
  <2>2. CASE todo'[t] = pollers[t] \cup {b} /\ loop'[t] = "polling" BY <2>1, <2>2 DEF WakeFor
  <2>3. CASE UserCode(t) /\ loop' = loop
    <3>1. Quiet(b)'
      <4>1. b \in Buckets /\ b > made BY <1>3, LeaseTypes DEF Provide, LaneInv
      <4>2. ring[b] = <<>> /\ ~closed[b]
        BY <4>1 DEF WakeInv, LaneInv, LeaseInv, RegisteredInv
      <4> QED BY <2>1, <4>2 DEF Quiet
    <3>2. \A k \in pollers[t] : Quiet(k) => Quiet(k)' BY <1>2, <2>1, QuietSame
    <3>3. todo[t] \subseteq todo'[t] BY <2>1, <2>3 DEF UserCode
    <3> QED BY <1>1, <2>1, <2>3, <3>1, <3>2, <3>3 DEF WakeFor
  <2> QED BY <2>1, <2>2, <2>3
<1>4. CASE Clear(t) BY <1>0, <1>4 DEF Clear, UserCode, Fire, WakeFor
<1>5. CASE WakeUp(t) BY <1>0, <1>5 DEF WakeUp, WakeFor
<1>6. CASE HandlerYields(t)
  <2>1. /\ loop[t] = "handler" /\ loop'[t] = "polling"
        /\ UNCHANGED <<closed, ring, pollers, todo, work, woken>>
    BY <1>0, <1>6 DEF HandlerYields
  <2>2. \A k \in pollers[t] : Quiet(k) => Quiet(k)' BY <1>2, <2>1, QuietSame
  <2> QED BY <1>1, <2>1, <2>2 DEF WakeFor
<1>7. CASE PassEnds(t)
  <2>1. /\ loop[t] = "polling" /\ todo[t] = {} /\ UNCHANGED <<closed, ring, pollers, woken>>
        /\ \/ work[t] /\ todo'[t] = pollers[t] /\ loop'[t] = "polling"
           \/ ~work[t] /\ loop'[t] \in {"stopping", "idle"}
    BY <1>0, <1>7 DEF PassEnds
  <2>2. CASE work[t] BY <2>1, <2>2 DEF WakeFor
  <2>3. CASE ~work[t]
    <3>1. \A k \in pollers[t] : Quiet(k) => Quiet(k)' BY <1>2, <2>1, QuietSame
    <3> QED BY <1>1, <2>1, <2>3, <3>1 DEF WakeFor
  <2> QED BY <2>2, <2>3
<1>8. CASE FinishTeardown(t) BY <1>0, <1>8 DEF FinishTeardown, WakeFor
<1>9. CASE Teardown(t)
  <2>1. \/ loop'[t] = "polling" /\ todo'[t] = pollers[t] /\ UNCHANGED pollers
        \/ loop'[t] = "stopping"
    BY <1>0, <1>9 DEF Teardown
  <2> QED BY <2>1 DEF WakeFor
<1>10. ASSUME NEW k \in Buckets, PollEmpty(t, k) \/ PollRetires(t, k) PROVE WakeFor(t)'
  <2>1. /\ loop[t] = "polling" /\ todo'[t] = todo[t] \ {k}
        /\ UNCHANGED <<closed, ring, loop, work, woken>>
        /\ \/ ring[k] = <<>> /\ ~closed[k] /\ pollers' = pollers
           \/ pollers'[t] = pollers[t] \ {k}
    BY <1>0, <1>10 DEF PollEmpty, PollRetires, Polls
  <2>2. \A j \in pollers[t] : Quiet(j) => Quiet(j)' BY <1>2, <2>1, QuietSame
  <2>3. k \in pollers'[t] => Quiet(k)' BY <2>1 DEF Quiet
  <2>4. pollers'[t] \subseteq pollers[t] BY <2>1
  <2> QED BY <1>1, <2>1, <2>2, <2>3, <2>4 DEF WakeFor
<1>11. ASSUME NEW k \in Buckets, PollHit(t, k) PROVE WakeFor(t)'
  <2>1. work'[t] = TRUE /\ loop'[t] \in {"polling", "handler"}
    BY <1>0, <1>11 DEF PollHit, Polls
  <2> QED BY <2>1 DEF WakeFor
<1>12. ASSUME NEW q, NEW k, HandlerReplies(t, q, k) PROVE WakeFor(t)'
  <2>1. UNCHANGED <<closed, ring, loop, pollers, todo, work, woken>>
    BY <1>12 DEF HandlerReplies
  <2>2. \A j \in pollers[t] : Quiet(j) => Quiet(j)' BY <1>2, <2>1, QuietSame
  <2> QED BY <2>1, <2>2, WakeSame
<1> QED
  BY <1>3, <1>4, <1>5, <1>6, <1>7, <1>8, <1>9, <1>10, <1>11, <1>12 DEF Owner, Dispatch

\* A bucket that was not made has an empty ring.
LEMMA FreshRings ==
    ASSUME LaneInv, WakeInv, [Next]_vars
    PROVE  \A k \in Buckets : k > made' => ring'[k] = <<>>
<1>0. /\ ring \in [Buckets -> Seq(Requests)] /\ made \in Nat
      /\ \A k \in Buckets : k > made => ring[k] = <<>>
  BY LeaseTypes DEF LaneInv, WakeInv
<1>1. ASSUME NEW s \in Senders, Enqueue(s) PROVE \A k \in Buckets : k > made' => ring'[k] = <<>>
  <2>1. /\ made' = made /\ lease[s] <= made
        /\ ring' = ring \/ \E r : ring' = [ring EXCEPT ![lease[s]] = r]
    BY <1>1 DEF Enqueue, LaneInv, LeaseInv, LeasedInv
  <2>2. lease[s] \in Nat BY LeaseTypes DEF LaneInv
  <2>3. \A k \in Buckets : k > made => k # lease[s] BY <1>0, <2>1, <2>2
  <2> QED BY <1>0, <2>1, <2>3
<1>2. ASSUME NEW t \in Owners, NEW k \in Buckets, PollHit(t, k)
      PROVE \A j \in Buckets : j > made' => ring'[j] = <<>>
  <2>1. made' = made /\ ring[k] # <<>> /\ ring' = [ring EXCEPT ![k] = Tail(@)]
    BY <1>2 DEF PollHit
  <2> QED BY <1>0, <2>1
<1>3. ASSUME NEW t \in Owners, Provide(t) PROVE \A k \in Buckets : k > made' => ring'[k] = <<>>
  <2>1. made' = made + 1 /\ ring' = ring BY <1>3 DEF Provide
  <2> QED BY <1>0, <2>1
<1>4. CASE UNCHANGED <<ring, made>> BY <1>0, <1>4
<1>5. ASSUME NEW s \in Senders, Sender(s), ~Enqueue(s) PROVE UNCHANGED <<ring, made>>
  BY <1>5 DEF Sender, Snapshot, TestClosed, WakeProvider, StopWaiting, ReleaseLease
<1>6. ASSUME NEW t \in Owners, Owner(t), ~Provide(t), \A k \in Buckets : ~PollHit(t, k)
      PROVE  UNCHANGED <<ring, made>>
  BY <1>6 DEF Owner, Dispatch, Clear, WakeUp, HandlerYields, PassEnds, Teardown,
              FinishTeardown, PollEmpty, PollRetires, HandlerReplies
<1>7. CASE UNCHANGED vars BY <1>4, <1>7 DEF vars
<1> QED BY <1>1, <1>2, <1>3, <1>4, <1>5, <1>6, <1>7 DEF Next

LEMMA WakeStep == LaneInv /\ WakeInv /\ [Next]_vars => WakeInv'
<1> SUFFICES ASSUME LaneInv, WakeInv, [Next]_vars PROVE \A u \in Owners : WakeFor(u)'
  BY FreshRings DEF WakeInv
<1>1. ASSUME NEW t \in Owners, Owner(t), NEW u \in Owners PROVE WakeFor(u)'
  <2>1. CASE u = t BY <1>1, <2>1, OwnerSleeps
  <2>2. CASE u # t
    <3>1. Touches(t) BY <1>1, OwnerTouches
    <3>2. \A k \in pollers[u] : k \in Buckets /\ owner[k] = u
      BY OwnerTypes DEF LaneInv, LeaseInv, OwnedInv
    <3>3. \A k \in pollers[u] : Quiet(k) => Quiet(k)' BY <2>2, <3>1, <3>2, QuietSame DEF Touches
    <3> QED BY <2>2, <3>1, <3>3, WakeSame DEF Touches
  <2> QED BY <2>1, <2>2
<1>2. CASE UNCHANGED vars
  <2>1. UNCHANGED <<closed, ring, loop, pollers, todo, work, woken, pc, lease>> BY <1>2 DEF vars
  <2>2. \A k : Quiet(k) => Quiet(k)' BY <2>1, QuietSame
  <2> QED BY <2>1, <2>2, WakeSame
<1> QED BY <1>1, <1>2, SenderWakes DEF Next

LEMMA WakeInit == Init => WakeInv
BY DEF Init, WakeInv, WakeFor

\* No wake-up of a dispatch loop is lost (runPollDispatchLoop): it takes its signal before it
\* polls, a sender fires after it has enqueued, and a clear after it has closed the ring.
THEOREM WakeUpsAreKept == Spec => []SleepsWhenQuiet
<1>1. Init => LaneInv /\ WakeInv BY LaneInit, WakeInit
<1>2. LaneInv /\ WakeInv /\ [Next]_vars => (LaneInv /\ WakeInv)' BY LaneStep, WakeStep
<1>3. LaneInv /\ WakeInv => SleepsWhenQuiet BY DEF WakeInv, WakeFor, SleepsWhenQuiet
<1> QED BY <1>1, <1>2, <1>3, PTL DEF Spec
==============================================================================
