-------------------------- MODULE EventLane_proofs --------------------------
(***************************************************************************)
(* Proofs about EventLane: the references of the rings and of the cells    *)
(* are counted right, every thread hears the events in order, what         *)
(* dropAllListeners leaves for another thread reaches it, and no wake-up   *)
(* is lost.                                                                *)
(***************************************************************************)
EXTENDS EventLane, Integers, FiniteSetTheorems, WellFoundedInduction, TLAPS

\* Expanded in every leaf: the tuples behind UNCHANGED.
USE DEF bucketVars, leaseVars, slabVars, tableVars, loopVars, sendVars, Buckets

LEMMA Bounds ==
    /\ Depth \in Nat \ {0} /\ MaxBuckets \in Nat /\ MaxSends \in Nat /\ MaxListens \in Nat
    /\ Emitting \subseteq Threads /\ Clear \notin Cells
BY LaneAssumption
USE Bounds

-----------------------------------------------------------------------------
(* The next target is one of those that are left.                          *)

Below == {ss \in Nat \X Nat : ss[1] < ss[2]}

LEMMA LeastIn ==
    ASSUME NEW S \in SUBSET Nat, S # {}
    PROVE  Least(S) \in S
<1>1. IsWellFoundedOn(Below, Nat)
  BY NatLessThanWellFounded, Zenon DEF OpToRel, Below
<1>2. PICK x \in S : \A y \in S : ~ (<<y, x>> \in Below)
  BY <1>1, WFMin
<1>3. ASSUME NEW y \in S PROVE x <= y
  <2>1. ~ (<<y, x>> \in Below) BY <1>2
  <2>2. x \in Nat /\ y \in Nat OBVIOUS
  <2>3. y < x => <<y, x>> \in Below BY <2>2 DEF Below
  <2> QED BY <2>1, <2>2, <2>3
<1> QED BY <1>3 DEF Least

LEMMA ToLeft ==
    ASSUME left \in [Threads -> SUBSET Buckets], NEW t \in Threads, left[t] # {}
    PROVE  To(t) \in left[t] /\ To(t) \in Buckets
<1>1. left[t] \in SUBSET Nat OBVIOUS
<1> QED BY <1>1, LeastIn DEF To

-----------------------------------------------------------------------------
(* Types, without the promise that no counter is negative: that follows    *)
(* from what is counted.                                                   *)

BucketTypes ==
    /\ made \in 0 .. MaxBuckets /\ listed \subseteq 1 .. made
    /\ owner \in [Buckets -> Threads \cup {Nobody}]
    /\ hasListeners \in [Buckets -> BOOLEAN] /\ closed \in [Buckets -> BOOLEAN]
    /\ ring \in [Buckets -> Seq(Cells \cup {Clear})]
    /\ refs \in [Buckets -> Int] /\ freed \subseteq Buckets

SlabTypes ==
    /\ free \in [Cells -> Int] /\ count \in [Cells -> Int]
    /\ event \in [Cells -> Events \cup {<<>>}]

LoopTypes ==
    /\ handlers \in [Threads -> SUBSET (1 .. MaxListens)] /\ listens \in 0 .. MaxListens
    /\ loop \in [Threads -> {"off", "idle", "polling", "handler"}]
    /\ woken \in [Threads -> BOOLEAN] /\ work \in [Threads -> BOOLEAN]
    /\ pollers \in [Threads -> SUBSET Buckets] /\ todo \in [Threads -> SUBSET Buckets]
    /\ closing \in [Threads -> SUBSET Buckets]

SendTypes ==
    /\ at \in [Threads -> {"free", "claim", "test", "put", "wake", "release"}]
    /\ item \in [Threads -> Cells \cup {Clear}]
    /\ left \in [Threads -> SUBSET Buckets] /\ held \in [Threads -> SUBSET Buckets]
    /\ sent \in [Threads -> 0 .. MaxSends]

HeardTypes ==
    /\ heard \in [Threads -> Seq((0 .. MaxBuckets) \X (Events \cup {<<>>}))]
    /\ refused \subseteq Threads

\* Where a thread is in emit or dropAllListeners.
SendAt(t) ==
    /\ left[t] \subseteq held[t] /\ held[t] \subseteq 1 .. made
    /\ at[t] = "free" => held[t] = {} /\ item[t] = Clear
    /\ at[t] = "claim" => item[t] = Clear
    /\ at[t] \notin {"free", "release"} => left[t] # {}
    /\ at[t] = "release" /\ left[t] # {} => item[t] = Clear
    /\ item[t] = Clear /\ left[t] # {} => left[t] = held[t]
    /\ at[t] = "claim" \/ item[t] # Clear => t \in Emitting /\ sent[t] > 0

\* Whose a bucket is, and what one that was not made yet looks like.
BucketAt(k) ==
    /\ k <= made => owner[k] \in Threads
    /\ k > made => ~closed[k] /\ ring[k] = <<>>
    /\ k \in listed => k \in pollers[owner[k]] /\ ~closed[k]

\* The buckets a thread polls, and those its shutdown waits for.
LoopAt(t) ==
    /\ \A k \in pollers[t] \cup closing[t] : k <= made /\ owner[k] = t
    /\ closing[t] \cap listed = {} /\ todo[t] \subseteq pollers[t]
    /\ loop[t] = "off" => pollers[t] = {}
    /\ todo[t] # {} => loop[t] \in {"polling", "handler"}

OneListed == \A j, k \in listed : owner[j] = owner[k] => j = k

BaseInv ==
    /\ BucketTypes /\ SlabTypes /\ LoopTypes /\ SendTypes /\ HeardTypes
    /\ \A t \in Threads : SendAt(t) /\ LoopAt(t)
    /\ \A k \in Buckets : BucketAt(k)
    /\ OneListed

LEMMA BaseInit == Init => BaseInv
<1> SUFFICES ASSUME Init PROVE BaseInv
    OBVIOUS
<1> USE DEF Init
<1>1. BucketTypes BY DEF BucketTypes
<1>2. SlabTypes BY DEF SlabTypes
<1>3. LoopTypes BY DEF LoopTypes
<1>4. SendTypes BY DEF SendTypes
<1>5. HeardTypes BY DEF HeardTypes
<1>6. \A t \in Threads : SendAt(t) /\ LoopAt(t) BY DEF SendAt, LoopAt
<1>7. \A k \in Buckets : BucketAt(k) BY DEF BucketAt
<1> QED BY <1>1, <1>2, <1>3, <1>4, <1>5, <1>6, <1>7 DEF BaseInv, OneListed

\* What the steps rely on.
LEMMA Types ==
    ASSUME BaseInv
    PROVE  BucketTypes /\ SlabTypes /\ LoopTypes /\ SendTypes /\ HeardTypes
BY DEF BaseInv

\* While a thread sends, its next target was made and has an owner.
LEMMA TargetMade ==
    ASSUME BaseInv, NEW t \in Threads, left[t] # {}
    PROVE  /\ To(t) \in left[t] /\ To(t) \in held[t] /\ To(t) \in Buckets /\ To(t) <= made
           /\ owner[To(t)] \in Threads
<1>1. To(t) \in left[t] /\ To(t) \in Buckets BY ToLeft DEF BaseInv, SendTypes
<1>2. To(t) \in held[t] /\ To(t) <= made BY <1>1 DEF BaseInv, SendAt
<1> QED BY <1>1, <1>2 DEF BaseInv, BucketAt

\* An attempt on a ring that takes no more.
LEMMA RefusedCases ==
    ASSUME NEW t, Refused(t)
    PROVE  \/ /\ item[t] = Clear /\ refused' = refused \cup {owner[To(t)]}
              /\ at' = [at EXCEPT ![t] = "wake"] /\ UNCHANGED <<left, free, count, event>>
           \/ /\ item[t] # Clear /\ ReleaseCell(item[t]) /\ NextTarget(t) /\ UNCHANGED refused
<1>1. CASE item[t] = Clear BY <1>1 DEF Refused
<1>2. CASE item[t] # Clear BY <1>2 DEF Refused
<1> QED BY <1>1, <1>2

LEMMA RefusedOr ==
    ASSUME NEW t, TestClosed(t) \/ Put(t)
    PROVE  Refused(t) \/ UNCHANGED <<left, free, count, event, refused>>
<1>1. CASE TestClosed(t)
  <2>1. CASE closed[To(t)] BY <1>1, <2>1 DEF TestClosed
  <2>2. CASE ~closed[To(t)] BY <1>1, <2>2 DEF TestClosed
  <2> QED BY <2>1, <2>2
<1>2. CASE Put(t)
  <2>1. CASE Len(ring[To(t)]) < Depth BY <1>2, <2>1 DEF Put
  <2>2. CASE ~(Len(ring[To(t)]) < Depth) BY <1>2, <2>2 DEF Put
  <2> QED BY <2>1, <2>2
<1> QED BY <1>1, <1>2

-----------------------------------------------------------------------------
(* Sending: SendTypes and SendAt.                                          *)

SendInv == SendTypes /\ \A t \in Threads : SendAt(t)

\* A step of thread t leaves where the others are.
LEMMA SendOne ==
    ASSUME BaseInv, NEW t \in Threads, SendTypes', SendAt(t)', made' >= made, made' \in Nat,
           \A s \in Threads \ {t} : /\ at'[s] = at[s] /\ item'[s] = item[s] /\ left'[s] = left[s]
                                    /\ held'[s] = held[s] /\ sent'[s] = sent[s]
    PROVE  SendInv'
<1>1. ASSUME NEW s \in Threads, s # t PROVE SendAt(s)'
  <2>1. made \in Nat BY DEF BaseInv, BucketTypes
  <2> QED BY <1>1, <2>1 DEF BaseInv, SendAt
<1> QED BY <1>1 DEF SendInv

LEMMA SendSame ==
    ASSUME BaseInv, UNCHANGED sendVars, made' >= made, made' \in Nat
    PROVE  SendInv'
<1>1. SendTypes' BY DEF BaseInv, SendTypes
<1>2. ASSUME NEW s \in Threads PROVE SendAt(s)'
  <2>1. made \in Nat BY DEF BaseInv, BucketTypes
  <2> QED BY <2>1 DEF BaseInv, SendAt
<1> QED BY <1>1, <1>2 DEF SendInv

LEMMA SendEmit ==
    ASSUME BaseInv, NEW t \in Threads, Emit(t) \/ DropAllListeners(t)
    PROVE  SendInv'
<1> PICK K : K = Targets \ Own(t) OBVIOUS
<1>1. K \subseteq 1 .. made /\ K \subseteq Buckets /\ made \in Nat
  <2>1. K \subseteq listed
    <3>1. Targets \subseteq listed BY DEF Targets
    <3> QED BY <3>1
  <2>2. listed \subseteq 1 .. made /\ made \in Nat /\ made <= MaxBuckets
    BY DEF BaseInv, BucketTypes
  <2>3. 1 .. made \subseteq Buckets BY <2>2
  <2> QED BY <2>1, <2>2, <2>3
<1>2. /\ sent' = [sent EXCEPT ![t] = @ + 1] /\ sent[t] < MaxSends /\ at[t] = "free"
      /\ left' = [left EXCEPT ![t] = K] /\ held' = [held EXCEPT ![t] = K] /\ made' = made
      /\ item'[t] = Clear /\ (item' = item \/ item' = [item EXCEPT ![t] = Clear])
      /\ \/ K = {} /\ at' = at
         \/ K # {} /\ at' = [at EXCEPT ![t] = "claim"] /\ t \in Emitting
         \/ K # {} /\ at' = [at EXCEPT ![t] = "test"]
  <2>1. item[t] = Clear /\ t \in DOMAIN item BY DEF Emit, DropAllListeners, UserCode, BaseInv, SendAt, SendTypes
  <2>2. CASE Emit(t) BY <2>1, <2>2 DEF Emit, UserCode
  <2>3. CASE DropAllListeners(t) BY <2>1, <2>3 DEF DropAllListeners, UserCode
  <2> QED BY <2>2, <2>3
<1>3. SendTypes' BY <1>1, <1>2 DEF BaseInv, SendTypes
<1>4. SendAt(t)'
  <2>1. left'[t] = K /\ held'[t] = K /\ sent'[t] = sent[t] + 1 /\ sent[t] \in Nat
    BY <1>2 DEF BaseInv, SendTypes
  <2>2. \/ K = {} /\ at'[t] = "free"
        \/ K # {} /\ at'[t] = "claim" /\ t \in Emitting
        \/ K # {} /\ at'[t] = "test"
    BY <1>2 DEF BaseInv, SendTypes
  <2> QED BY <1>1, <1>2, <2>1, <2>2 DEF SendAt
<1> QED BY <1>1, <1>2, <1>3, <1>4, SendOne DEF BaseInv, SendTypes

LEMMA SendClaim ==
    ASSUME BaseInv, NEW t \in Threads, ClaimCell(t)
    PROVE  SendInv'
<1>1. made' = made /\ made \in Nat /\ at[t] = "claim" /\ UNCHANGED <<held, sent>>
  BY DEF ClaimCell, BaseInv, BucketTypes
<1>2. \/ /\ \E c \in Cells : item' = [item EXCEPT ![t] = c]
         /\ at' = [at EXCEPT ![t] = "test"] /\ UNCHANGED left
      \/ /\ at' = [at EXCEPT ![t] = "release"] /\ left' = [left EXCEPT ![t] = {}]
         /\ UNCHANGED item
  BY DEF ClaimCell
<1>3. SendTypes' BY <1>1, <1>2 DEF BaseInv, SendTypes
<1>4. SendAt(t)' BY <1>1, <1>2 DEF BaseInv, SendTypes, SendAt
<1> QED BY <1>1, <1>2, <1>3, <1>4, SendOne DEF BaseInv, SendTypes

\* A step to the next target, to the wake-up, or to the release.
LEMMA SendMoves ==
    ASSUME BaseInv, NEW t \in Threads, at[t] \in {"test", "put", "wake"}, UNCHANGED <<made, item, held, sent>>,
           \/ NextTarget(t) /\ item[t] # Clear
           \/ UNCHANGED left /\ \E a \in {"put", "wake"} : at' = [at EXCEPT ![t] = a]
           \/ UNCHANGED left /\ item[t] = Clear /\ at' = [at EXCEPT ![t] = "release"]
    PROVE  SendInv'
<1>1. left[t] # {} BY DEF BaseInv, SendAt
<1>2. To(t) \in left[t] BY <1>1, TargetMade
<1>3. SendTypes' BY DEF BaseInv, SendTypes, NextTarget
<1>4. SendAt(t)' 
  <2>1. CASE NextTarget(t) /\ item[t] # Clear 
    <3>1. left'[t] = left[t] \ {To(t)} /\ at'[t] = IF left[t] = {To(t)} THEN "release" ELSE "test"
      BY <2>1 DEF BaseInv, SendTypes, NextTarget
    <3> QED BY <1>1, <1>2, <2>1, <3>1 DEF BaseInv, SendAt
  <2>2. CASE UNCHANGED left /\ \E a \in {"put", "wake"} : at' = [at EXCEPT ![t] = a]
    BY <1>1, <2>2 DEF BaseInv, SendTypes, SendAt
  <2>3. CASE UNCHANGED left /\ item[t] = Clear /\ at' = [at EXCEPT ![t] = "release"]
    BY <1>1, <2>3 DEF BaseInv, SendTypes, SendAt
  <2> QED BY <2>1, <2>2, <2>3
<1>5. \A s \in Threads \ {t} : at'[s] = at[s] /\ left'[s] = left[s]
  BY DEF BaseInv, SendTypes, NextTarget
<1> QED BY <1>3, <1>4, <1>5, SendOne DEF BaseInv, BucketTypes

LEMMA SendReleases ==
    ASSUME BaseInv, NEW t \in Threads, ReleaseLeases(t)
    PROVE  SendInv'
<1> PICK K : K = IF left[t] = {} THEN held[t] ELSE {To(t)} OBVIOUS
<1>1. /\ at[t] = "release" /\ UNCHANGED <<made, sent>> 
      /\ held' = [held EXCEPT ![t] = @ \ K] /\ left' = [left EXCEPT ![t] = @ \ K]
      /\ \/ left[t] \subseteq K /\ at' = [at EXCEPT ![t] = "free"] /\ item' = [item EXCEPT ![t] = Clear]
         \/ ~(left[t] \subseteq K) /\ at' = [at EXCEPT ![t] = "test"] /\ UNCHANGED item
  BY DEF ReleaseLeases
<1>2. SendTypes' BY <1>1 DEF BaseInv, SendTypes
<1>3. SendAt(t)'
  <2>1. held'[t] = held[t] \ K /\ left'[t] = left[t] \ K BY <1>1 DEF BaseInv, SendTypes
  <2>2. left[t] # {} => item[t] = Clear /\ left[t] = held[t] BY <1>1 DEF BaseInv, SendAt
  <2>3. SendAt(t) /\ item'[t] = Clear BY <1>1, <2>2 DEF BaseInv, SendTypes
  <2>4. at'[t] = IF left[t] \subseteq K THEN "free" ELSE "test" BY <1>1 DEF BaseInv, SendTypes
  <2>5. left[t] \subseteq K => held'[t] = {} BY <2>1, <2>2
  <2> QED BY <1>1, <2>1, <2>2, <2>3, <2>4, <2>5 DEF SendAt
<1>4. \A s \in Threads \ {t} : /\ at'[s] = at[s] /\ item'[s] = item[s] /\ left'[s] = left[s]
                               /\ held'[s] = held[s]
  BY <1>1 DEF BaseInv, SendTypes
<1> QED BY <1>1, <1>2, <1>3, <1>4, SendOne DEF BaseInv, BucketTypes

LEMMA SendStep ==
    ASSUME BaseInv, [Next]_vars
    PROVE  SendInv'
<1> USE BaseInv
<1>0. ASSUME UNCHANGED sendVars, UNCHANGED made PROVE SendInv'
  BY <1>0, SendSame DEF BaseInv, BucketTypes
<1>1. ASSUME NEW t \in Threads, User(t) PROVE SendInv'
  <2>1. CASE Listen(t)
    <3>1. UNCHANGED sendVars /\ (made' = made \/ made' = made + 1) BY <2>1 DEF Listen, MakeBucket
    <3> QED BY <3>1, SendSame DEF BaseInv, BucketTypes
  <2>2. CASE StartShutdown(t) BY <1>0, <2>2 DEF StartShutdown
  <2>3. ASSUME NEW h, DropListener(t, h) PROVE SendInv' BY <1>0, <2>3 DEF DropListener
  <2> QED BY <1>1, <2>1, <2>2, <2>3, SendEmit DEF User
<1>2. ASSUME NEW t \in Threads, Send(t) PROVE SendInv'
  <2>1. CASE TestClosed(t)
    <3>1. at[t] = "test" /\ UNCHANGED <<made, item, held, sent>> BY <2>1 DEF TestClosed
    <3>2. \/ NextTarget(t) /\ item[t] # Clear
          \/ at' = [at EXCEPT ![t] = "wake"] /\ UNCHANGED left
          \/ at' = [at EXCEPT ![t] = "put"] /\ UNCHANGED left
      BY <2>1 DEF TestClosed, Refused, NextTarget
    <3> QED BY <3>1, <3>2, SendMoves
  <2>2. CASE Put(t)
    <3>1. at[t] = "put" /\ UNCHANGED <<made, item, held, sent>> BY <2>2 DEF Put
    <3>2. \/ NextTarget(t) /\ item[t] # Clear
          \/ at' = [at EXCEPT ![t] = "wake"] /\ UNCHANGED left
      BY <2>2 DEF Put, Refused, NextTarget
    <3> QED BY <3>1, <3>2, SendMoves
  <2>3. CASE Wake(t)
    <3>1. at[t] = "wake" /\ UNCHANGED <<made, item, held, sent>> BY <2>3 DEF Wake
    <3>2. \/ NextTarget(t) /\ item[t] # Clear
          \/ item[t] = Clear /\ at' = [at EXCEPT ![t] = "release"] /\ UNCHANGED left
      BY <2>3 DEF Wake, AfterWake
    <3> QED BY <3>1, <3>2, SendMoves
  <2> QED BY <1>2, <2>1, <2>2, <2>3, SendClaim, SendReleases DEF Send
<1>3. ASSUME NEW t \in Threads, Dispatch(t) PROVE SendInv'
  BY <1>0, <1>3 DEF Dispatch, WakeUp, HandlerYields, PassEnds, PollValue, PollClear, PollEmpty, PollRetires
<1>4. ASSUME NEW t \in Threads, EndShutdown(t) \/ GiveUpShutdown(t) PROVE SendInv'
  BY <1>0, <1>4 DEF EndShutdown, GiveUpShutdown, LeaveShutdown
<1>5. CASE UNCHANGED vars BY <1>0, <1>5 DEF vars
<1> QED BY <1>1, <1>2, <1>3, <1>4, <1>5 DEF Next

-----------------------------------------------------------------------------
(* The types of the rest.                                                  *)

LEMMA MadeBuckets ==
    ASSUME BaseInv
    PROVE  /\ made \in Nat /\ made <= MaxBuckets /\ 1 .. made \subseteq Buckets
           /\ listed \subseteq 1 .. made /\ listed \subseteq Buckets
<1>1. made \in Nat /\ made <= MaxBuckets /\ listed \subseteq 1 .. made
  BY DEF BaseInv, BucketTypes
<1>2. 1 .. made \subseteq Buckets BY <1>1
<1> QED BY <1>1, <1>2

LEMMA ReleaseTypes ==
    ASSUME BucketTypes, NEW K, Release(K), K \subseteq Buckets
    PROVE  refs' \in [Buckets -> Int] /\ freed' \subseteq Buckets
<1>1. ASSUME NEW k \in Buckets
      PROVE  (IF k \in K THEN refs[k] - 1 ELSE refs[k]) \in Int
  BY DEF BucketTypes
<1>2. refs' \in [Buckets -> Int] BY <1>1 DEF Release
<1>3. freed' \subseteq Buckets BY DEF Release, BucketTypes
<1> QED BY <1>2, <1>3

LEMMA AcquireTypes ==
    ASSUME BucketTypes, NEW K, Acquire(K)
    PROVE  refs' \in [Buckets -> Int]
<1>1. ASSUME NEW k \in Buckets
      PROVE  (IF k \in K THEN refs[k] + 1 ELSE refs[k]) \in Int
  BY DEF BucketTypes
<1> QED BY <1>1 DEF Acquire

LEMMA RingTypes ==
    ASSUME BaseInv, NEW k \in Buckets
    PROVE  /\ ring[k] \in Seq(Cells \cup {Clear})
           /\ ring[k] # <<>> => /\ Tail(ring[k]) \in Seq(Cells \cup {Clear})
                                /\ Head(ring[k]) \in Cells \cup {Clear}
<1>1. ring[k] \in Seq(Cells \cup {Clear}) BY DEF BaseInv, BucketTypes
<1> QED BY <1>1

LEMMA BucketTypesStep ==
    ASSUME BaseInv, [Next]_vars
    PROVE  BucketTypes'
<1> USE DEF BaseInv
<1>a. BucketTypes OBVIOUS
<1>0. ASSUME UNCHANGED <<bucketVars, ring, leaseVars>> PROVE BucketTypes'
  BY <1>0, <1>a DEF BucketTypes
<1>b. ASSUME UNCHANGED <<bucketVars, ring>>, refs' \in [Buckets -> Int], freed' \subseteq Buckets
      PROVE  BucketTypes'
  BY <1>a, <1>b DEF BucketTypes
<1>c. ASSUME UNCHANGED <<bucketVars, leaseVars>>, ring' \in [Buckets -> Seq(Cells \cup {Clear})]
      PROVE  BucketTypes'
  BY <1>a, <1>c DEF BucketTypes
<1>1. ASSUME NEW t \in Threads, User(t) PROVE BucketTypes'
  <2>1. CASE Listen(t)
    <3>1. CASE Own(t) # {}
      <4>1. /\ hasListeners' \in [Buckets -> BOOLEAN]
            /\ UNCHANGED <<listed, made, owner, closed, ring, refs, freed>>
        BY <1>a, <2>1, <3>1 DEF Listen, BucketTypes
      <4> QED BY <1>a, <4>1 DEF BucketTypes
    <3>2. CASE MakeBucket(t)
      <4> PICK k : k = made + 1 OBVIOUS
      <4>1. /\ k \in Buckets /\ made' = k /\ listed' = listed \cup {k}
            /\ owner' = [owner EXCEPT ![k] = t] /\ hasListeners' = [hasListeners EXCEPT ![k] = TRUE]
            /\ refs' = [refs EXCEPT ![k] = 2] /\ UNCHANGED <<closed, ring, freed>>
        BY <2>1, <3>2 DEF Listen, MakeBucket
      <4>2. listed' \subseteq 1 .. made'
        <5>1. \A j \in listed : j \in 1 .. k BY MadeBuckets
        <5>2. k \in 1 .. k BY MadeBuckets
        <5> QED BY <4>1, <5>1, <5>2
      <4> QED BY <1>a, <4>1, <4>2 DEF BucketTypes
    <3> QED BY <2>1, <3>1, <3>2 DEF Listen
  <2>2. ASSUME NEW h, DropListener(t, h) PROVE BucketTypes'
    <3>1. hasListeners' \in [Buckets -> BOOLEAN] BY <1>a, <2>2 DEF DropListener, BucketTypes
    <3> QED BY <1>a, <2>2, <3>1 DEF DropListener, BucketTypes
  <2>3. CASE Emit(t)
    <3>1. refs' \in [Buckets -> Int] BY <1>a, <2>3, AcquireTypes DEF Emit
    <3> QED BY <1>a, <1>b, <2>3, <3>1 DEF Emit, BucketTypes
  <2>4. CASE DropAllListeners(t)
    <3>1. refs' \in [Buckets -> Int] BY <1>a, <2>4, AcquireTypes DEF DropAllListeners
    <3>2. hasListeners' \in [Buckets -> BOOLEAN] BY <1>a, <2>4 DEF DropAllListeners, BucketTypes
    <3> QED BY <1>a, <2>4, <3>1, <3>2 DEF DropAllListeners, BucketTypes
  <2>5. CASE StartShutdown(t)
    <3>1. closed' \in [Buckets -> BOOLEAN] BY <1>a, <2>5 DEF StartShutdown, BucketTypes
    <3> QED BY <1>a, <2>5, <3>1 DEF StartShutdown, BucketTypes
  <2> QED BY <1>1, <2>1, <2>2, <2>3, <2>4, <2>5 DEF User
<1>2. ASSUME NEW t \in Threads, Send(t) PROVE BucketTypes'
  <2>1. CASE ClaimCell(t) \/ TestClosed(t) \/ Wake(t)
    BY <1>0, <2>1 DEF ClaimCell, TestClosed, Wake
  <2>2. CASE Put(t)
    <3>1. left[t] # {} BY <2>2 DEF Put, SendAt
    <3>2. To(t) \in Buckets /\ item[t] \in Cells \cup {Clear} BY <3>1, TargetMade DEF SendTypes
    <3>3. Append(ring[To(t)], item[t]) \in Seq(Cells \cup {Clear}) BY <3>2, RingTypes
    <3>4. ring' = ring \/ ring' = [ring EXCEPT ![To(t)] = Append(@, item[t])] BY <2>2 DEF Put
    <3>5. ring' \in [Buckets -> Seq(Cells \cup {Clear})] BY <1>a, <3>2, <3>3, <3>4 DEF BucketTypes
    <3> QED BY <1>c, <2>2, <3>5 DEF Put
  <2>3. CASE ReleaseLeases(t)
    <3> PICK K : K = IF left[t] = {} THEN held[t] ELSE {To(t)} OBVIOUS
    <3>1. K \subseteq Buckets BY TargetMade DEF SendTypes
    <3>2. Release(K) BY <2>3 DEF ReleaseLeases
    <3> QED BY <1>a, <1>b, <2>3, <3>1, <3>2, ReleaseTypes DEF ReleaseLeases
  <2> QED BY <1>2, <2>1, <2>2, <2>3 DEF Send
<1>3. ASSUME NEW t \in Threads, Dispatch(t) PROVE BucketTypes'
  <2>1. ASSUME NEW k \in Buckets, PollValue(t, k) \/ PollClear(t, k) PROVE BucketTypes'
    <3>1. ring' = [ring EXCEPT ![k] = Tail(@)] /\ ring[k] # <<>> BY <2>1 DEF PollValue, PollClear
    <3>2. ring' \in [Buckets -> Seq(Cells \cup {Clear})] BY <1>a, <3>1, RingTypes DEF BucketTypes
    <3> QED BY <1>c, <2>1, <3>2 DEF PollValue, PollClear
  <2>2. ASSUME NEW k \in Buckets, PollRetires(t, k) PROVE BucketTypes'
    <3>1. Release({k}) BY <2>2 DEF PollRetires
    <3> QED BY <1>a, <1>b, <2>2, <3>1, ReleaseTypes DEF PollRetires
  <2>3. ASSUME NEW k \in Buckets, PollEmpty(t, k) PROVE BucketTypes'
    BY <1>0, <2>3 DEF PollEmpty
  <2>4. CASE WakeUp(t) \/ HandlerYields(t) \/ PassEnds(t)
    BY <1>0, <2>4 DEF WakeUp, HandlerYields, PassEnds
  <2> QED BY <1>3, <2>1, <2>2, <2>3, <2>4 DEF Dispatch
<1>4. ASSUME NEW t \in Threads, EndShutdown(t) \/ GiveUpShutdown(t) PROVE BucketTypes'
  <2>1. PICK k \in closing[t] : LeaveShutdown(t, k) BY <1>4 DEF EndShutdown, GiveUpShutdown
  <2>2. k \in Buckets /\ Release({k}) BY <2>1 DEF LeaveShutdown, LoopTypes
  <2> QED BY <1>a, <1>b, <2>1, <2>2, ReleaseTypes DEF LeaveShutdown
<1>5. CASE UNCHANGED vars BY <1>0, <1>5 DEF vars
<1> QED BY <1>1, <1>2, <1>3, <1>4, <1>5 DEF Next

\* What was emitted, while it is sent.
LEMMA OwnEvent ==
    ASSUME BaseInv, NEW t \in Threads, at[t] = "claim" \/ item[t] # Clear
    PROVE  <<t, sent[t]>> \in Events
<1>1. t \in Emitting /\ sent[t] \in 1 .. MaxSends BY DEF BaseInv, SendTypes, SendAt
<1> QED BY <1>1 DEF Events

LEMMA ReleaseCellTypes ==
    ASSUME SlabTypes, NEW c \in Cells, ReleaseCell(c)
    PROVE  SlabTypes'
<1>1. count' \in [Cells -> Int] BY DEF SlabTypes, ReleaseCell
<1>2. free' \in [Cells -> Int] /\ event' \in [Cells -> Events \cup {<<>>}]
  <2>1. CASE count[c] = 1 BY <2>1 DEF SlabTypes, ReleaseCell
  <2>2. CASE count[c] # 1 BY <2>2 DEF SlabTypes, ReleaseCell
  <2> QED BY <2>1, <2>2
<1> QED BY <1>1, <1>2 DEF SlabTypes

LEMMA SlabTypesStep ==
    ASSUME BaseInv, [Next]_vars
    PROVE  SlabTypes'
<1> USE DEF BaseInv
<1>a. SlabTypes OBVIOUS
<1>0. ASSUME UNCHANGED slabVars PROVE SlabTypes'
  BY <1>0, <1>a DEF SlabTypes
<1>1. ASSUME NEW t \in Threads, User(t) PROVE SlabTypes'
  BY <1>0, <1>1 DEF User, Listen, DropListener, Emit, DropAllListeners, StartShutdown
<1>2. ASSUME NEW t \in Threads, Send(t) PROVE SlabTypes'
  <2>1. CASE ClaimCell(t)
    <3>1. CASE UNCHANGED slabVars BY <1>0, <3>1
    <3>2. ASSUME NEW c \in Cells,
                 free' = [free EXCEPT ![c] = @ - 1],
                 count' = [count EXCEPT ![c] = Cardinality(left[t])],
                 event' = [event EXCEPT ![c] = <<t, sent[t]>>]
          PROVE  SlabTypes'
      <4>1. <<t, sent[t]>> \in Events BY <2>1, OwnEvent DEF ClaimCell
      <4>2. Cardinality(left[t]) \in Int
        <5>1. left[t] \subseteq 1 .. MaxBuckets BY DEF SendTypes
        <5>2. IsFiniteSet(1 .. MaxBuckets) BY FS_Interval
        <5>3. IsFiniteSet(left[t]) BY <5>1, <5>2, FS_Subset
        <5> QED BY <5>3, FS_CardinalityType
      <4> QED BY <1>a, <3>2, <4>1, <4>2 DEF SlabTypes
    <3> QED BY <2>1, <3>1, <3>2 DEF ClaimCell
  <2>2. CASE TestClosed(t) \/ Put(t)
    <3>1. UNCHANGED slabVars \/ (item[t] # Clear /\ ReleaseCell(item[t]))
      BY <2>2, RefusedOr, RefusedCases
    <3>2. item[t] # Clear => item[t] \in Cells BY DEF SendTypes
    <3> QED BY <1>0, <1>a, <3>1, <3>2, ReleaseCellTypes
  <2>3. CASE Wake(t) \/ ReleaseLeases(t)
    BY <1>0, <2>3 DEF Wake, ReleaseLeases
  <2> QED BY <1>2, <2>1, <2>2, <2>3 DEF Send
<1>3. ASSUME NEW t \in Threads, Dispatch(t) PROVE SlabTypes'
  <2>1. ASSUME NEW k \in Buckets, PollValue(t, k) PROVE SlabTypes'
    <3>1. Head(ring[k]) \in Cells BY <2>1, RingTypes DEF PollValue
    <3>2. ReleaseCell(Head(ring[k])) BY <2>1 DEF PollValue
    <3> QED BY <1>a, <3>1, <3>2, ReleaseCellTypes
  <2>2. ASSUME NEW k \in Buckets, PollClear(t, k) \/ PollEmpty(t, k) \/ PollRetires(t, k)
        PROVE  SlabTypes'
    BY <1>0, <2>2 DEF PollClear, PollEmpty, PollRetires
  <2>3. CASE WakeUp(t) \/ HandlerYields(t) \/ PassEnds(t)
    BY <1>0, <2>3 DEF WakeUp, HandlerYields, PassEnds
  <2> QED BY <1>3, <2>1, <2>2, <2>3 DEF Dispatch
<1>4. ASSUME NEW t \in Threads, EndShutdown(t) \/ GiveUpShutdown(t) PROVE SlabTypes'
  BY <1>0, <1>4 DEF EndShutdown, GiveUpShutdown, LeaveShutdown
<1>5. CASE UNCHANGED vars BY <1>0, <1>5 DEF vars
<1> QED BY <1>1, <1>2, <1>3, <1>4, <1>5 DEF Next

LEMMA LoopTypesStep ==
    ASSUME BaseInv, [Next]_vars
    PROVE  LoopTypes'
<1> USE DEF BaseInv
<1>a. LoopTypes OBVIOUS
<1>0. ASSUME UNCHANGED <<tableVars, loopVars, woken, closing>> PROVE LoopTypes'
  BY <1>0, <1>a DEF LoopTypes
<1>1. ASSUME NEW t \in Threads, User(t) PROVE LoopTypes'
  <2>1. CASE Listen(t)
    <3>1. listens' \in 0 .. MaxListens /\ listens + 1 \in 1 .. MaxListens /\ UNCHANGED <<woken, work, closing>>
      BY <1>a, <2>1 DEF Listen, LoopTypes
    <3>2. handlers' \in [Threads -> SUBSET (1 .. MaxListens)]
      BY <1>a, <2>1, <3>1 DEF Listen, LoopTypes
    <3>3. CASE Own(t) # {}
      BY <1>a, <2>1, <3>1, <3>2, <3>3 DEF Listen, LoopTypes
    <3>4. CASE MakeBucket(t)
      <4> PICK k : k = made + 1 OBVIOUS
      <4>1. /\ k \in Buckets /\ pollers' = [pollers EXCEPT ![t] = @ \cup {k}]
            /\ loop' = loop \/ loop' = [loop EXCEPT ![t] = "polling"]
            /\ todo' = todo \/ todo' = [todo EXCEPT ![t] = {k}]
               \/ todo' = [todo EXCEPT ![t] = @ \cup {k}]
        BY <3>4 DEF MakeBucket
      <4>2. pollers' \in [Threads -> SUBSET Buckets] /\ todo' \in [Threads -> SUBSET Buckets]
        <5>1. pollers[t] \cup {k} \subseteq Buckets /\ todo[t] \cup {k} \subseteq Buckets
          BY <1>a, <4>1 DEF LoopTypes
        <5> QED BY <1>a, <4>1, <5>1 DEF LoopTypes
      <4> QED BY <1>a, <3>1, <3>2, <4>1, <4>2 DEF LoopTypes
    <3> QED BY <2>1, <3>3, <3>4 DEF Listen
  <2>2. ASSUME NEW h, DropListener(t, h) PROVE LoopTypes'
    <3>1. handlers' \in [Threads -> SUBSET (1 .. MaxListens)] BY <1>a, <2>2 DEF DropListener, LoopTypes
    <3> QED BY <1>a, <2>2, <3>1 DEF DropListener, LoopTypes
  <2>3. CASE Emit(t) BY <1>0, <2>3 DEF Emit
  <2>4. CASE DropAllListeners(t)
    BY <1>a, <2>4 DEF DropAllListeners, LoopTypes
  <2>5. CASE StartShutdown(t)
    <3>1. woken' \in [Threads -> BOOLEAN] BY <1>a, <2>5 DEF StartShutdown, Fire, LoopTypes
    <3>2. closing' \in [Threads -> SUBSET Buckets]
      <4>1. Own(t) \subseteq Buckets BY MadeBuckets DEF Own
      <4>2. closing[t] \cup Own(t) \subseteq Buckets BY <1>a, <4>1 DEF LoopTypes
      <4> QED BY <1>a, <2>5, <4>2 DEF StartShutdown, LoopTypes
    <3> QED BY <1>a, <2>5, <3>1, <3>2 DEF StartShutdown, LoopTypes
  <2> QED BY <1>1, <2>1, <2>2, <2>3, <2>4, <2>5 DEF User
<1>2. ASSUME NEW t \in Threads, Send(t) PROVE LoopTypes'
  <2>1. CASE Wake(t)
    <3>1. woken' \in [Threads -> BOOLEAN] BY <1>a, <2>1 DEF Wake, Fire, LoopTypes
    <3> QED BY <1>a, <2>1, <3>1 DEF Wake, LoopTypes
  <2>2. CASE ClaimCell(t) \/ TestClosed(t) \/ Put(t) \/ ReleaseLeases(t)
    BY <1>0, <2>2 DEF ClaimCell, TestClosed, Put, ReleaseLeases
  <2> QED BY <1>2, <2>1, <2>2 DEF Send
<1>3. ASSUME NEW t \in Threads, Dispatch(t) PROVE LoopTypes'
  <2>1. CASE WakeUp(t) BY <1>a, <2>1 DEF WakeUp, LoopTypes
  <2>2. CASE HandlerYields(t) BY <1>a, <2>2 DEF HandlerYields, LoopTypes
  <2>3. CASE PassEnds(t)
    <3>1. CASE work[t] BY <1>a, <2>3, <3>1 DEF PassEnds, LoopTypes
    <3>2. CASE ~work[t] BY <1>a, <2>3, <3>2 DEF PassEnds, LoopTypes
    <3> QED BY <3>1, <3>2
  <2>4. ASSUME NEW k \in Buckets, Polls(t, k) PROVE todo' \in [Threads -> SUBSET Buckets]
    BY <1>a, <2>4 DEF Polls, LoopTypes
  <2>5. ASSUME NEW k \in Buckets, PollValue(t, k) PROVE LoopTypes'
    <3>1. /\ work' = [work EXCEPT ![t] = TRUE]
          /\ loop' = loop \/ loop' = [loop EXCEPT ![t] = "handler"]
          /\ UNCHANGED <<handlers, listens, pollers, woken, closing>>
      BY <2>5 DEF PollValue
    <3> QED BY <1>a, <2>4, <2>5, <3>1 DEF PollValue, LoopTypes
  <2>6. ASSUME NEW k \in Buckets, PollClear(t, k) PROVE LoopTypes'
    <3>1. /\ work' \in [Threads -> BOOLEAN] /\ handlers' \in [Threads -> SUBSET (1 .. MaxListens)]
      BY <1>a, <2>6 DEF PollClear, LoopTypes
    <3> QED BY <1>a, <2>4, <2>6, <3>1 DEF PollClear, LoopTypes
  <2>7. ASSUME NEW k \in Buckets, PollEmpty(t, k) PROVE LoopTypes'
    BY <1>a, <2>4, <2>7 DEF PollEmpty, LoopTypes
  <2>8. ASSUME NEW k \in Buckets, PollRetires(t, k) PROVE LoopTypes'
    <3>1. pollers' \in [Threads -> SUBSET Buckets] BY <1>a, <2>8 DEF PollRetires, LoopTypes
    <3> QED BY <1>a, <2>4, <2>8, <3>1 DEF PollRetires, LoopTypes
  <2> QED BY <1>3, <2>1, <2>2, <2>3, <2>5, <2>6, <2>7, <2>8 DEF Dispatch
<1>4. ASSUME NEW t \in Threads, EndShutdown(t) \/ GiveUpShutdown(t) PROVE LoopTypes'
  <2>1. PICK k \in closing[t] : LeaveShutdown(t, k) BY <1>4 DEF EndShutdown, GiveUpShutdown
  <2>2. closing' \in [Threads -> SUBSET Buckets] BY <1>a, <2>1 DEF LeaveShutdown, LoopTypes
  <2> QED BY <1>a, <2>1, <2>2 DEF LeaveShutdown, LoopTypes
<1>5. CASE UNCHANGED vars BY <1>0, <1>5 DEF vars
<1> QED BY <1>1, <1>2, <1>3, <1>4, <1>5 DEF Next

LEMMA HeardTypesStep ==
    ASSUME BaseInv, [Next]_vars
    PROVE  HeardTypes'
<1> USE DEF BaseInv
<1>a. HeardTypes OBVIOUS
<1> DEFINE Known == (0 .. MaxBuckets) \X (Events \cup {<<>>})
<1>0. ASSUME UNCHANGED <<heard, refused>> PROVE HeardTypes'
  BY <1>0, <1>a DEF HeardTypes
<1>b. ASSUME NEW t \in Threads, NEW w \in Known, UNCHANGED refused,
             heard' = heard \/ heard' = [heard EXCEPT ![t] = Append(@, w)]
      PROVE  HeardTypes'
  <2>1. heard[t] \in Seq(Known) BY <1>a DEF HeardTypes
  <2>2. Append(heard[t], w) \in Seq(Known) BY <2>1
  <2> QED BY <1>a, <1>b, <2>2 DEF HeardTypes
<1>1. ASSUME NEW t \in Threads, User(t) PROVE HeardTypes'
  <2>1. CASE Emit(t)
    <3>1. sent[t] \in Nat /\ sent[t] < MaxSends /\ t \in Emitting
      BY <2>1 DEF Emit, SendTypes
    <3>2. <<0, <<t, sent[t] + 1>>>> \in Known
      <4>1. <<t, sent[t] + 1>> \in Events BY <3>1 DEF Events
      <4> QED BY <4>1
    <3> QED BY <1>b, <2>1, <3>2 DEF Emit
  <2> QED BY <1>0, <1>1, <2>1 DEF User, Listen, DropListener, DropAllListeners, StartShutdown
<1>2. ASSUME NEW t \in Threads, Send(t) PROVE HeardTypes'
  <2>1. CASE TestClosed(t) \/ Put(t)
    <3>1. left[t] # {} BY <2>1 DEF TestClosed, Put, SendAt
    <3>2. owner[To(t)] \in Threads BY <3>1, TargetMade
    <3>3. refused' = refused \/ refused' = refused \cup {owner[To(t)]}
      BY <2>1, RefusedOr, RefusedCases
    <3>4. UNCHANGED heard BY <2>1 DEF TestClosed, Put
    <3> QED BY <1>a, <3>2, <3>3, <3>4 DEF HeardTypes
  <2>2. CASE ClaimCell(t) \/ Wake(t) \/ ReleaseLeases(t)
    BY <1>0, <2>2 DEF ClaimCell, Wake, ReleaseLeases
  <2> QED BY <1>2, <2>1, <2>2 DEF Send
<1>3. ASSUME NEW t \in Threads, Dispatch(t) PROVE HeardTypes'
  <2>1. ASSUME NEW k \in Buckets, PollValue(t, k) PROVE HeardTypes'
    <3>1. Head(ring[k]) \in Cells BY <2>1, RingTypes DEF PollValue
    <3>2. <<k, event[Head(ring[k])]>> \in Known BY <3>1 DEF SlabTypes
    <3> QED BY <1>b, <2>1, <3>2 DEF PollValue
  <2>2. ASSUME NEW k \in Buckets, PollClear(t, k) \/ PollEmpty(t, k) \/ PollRetires(t, k)
        PROVE  HeardTypes'
    BY <1>0, <2>2 DEF PollClear, PollEmpty, PollRetires
  <2>3. CASE WakeUp(t) \/ HandlerYields(t) \/ PassEnds(t)
    BY <1>0, <2>3 DEF WakeUp, HandlerYields, PassEnds
  <2> QED BY <1>3, <2>1, <2>2, <2>3 DEF Dispatch
<1>4. ASSUME NEW t \in Threads, EndShutdown(t) \/ GiveUpShutdown(t) PROVE HeardTypes'
  BY <1>0, <1>4 DEF EndShutdown, GiveUpShutdown, LeaveShutdown
<1>5. CASE UNCHANGED vars BY <1>0, <1>5 DEF vars
<1> QED BY <1>1, <1>2, <1>3, <1>4, <1>5 DEF Next

-----------------------------------------------------------------------------
(* Whose the buckets are.                                                  *)

OwnersInv ==
    /\ \A t \in Threads : LoopAt(t)
    /\ \A k \in Buckets : BucketAt(k)
    /\ OneListed

LEMMA OwnersSame ==
    ASSUME BaseInv, UNCHANGED <<made, listed, owner, closed, pollers, closing>>,
           \A k \in Buckets : ring'[k] = ring[k] \/ k <= made,
           \A t \in Threads : /\ todo'[t] \subseteq pollers[t]
                              /\ loop'[t] = "off" => loop[t] = "off"
                              /\ todo'[t] # {} => loop'[t] \in {"polling", "handler"}
    PROVE  OwnersInv'
<1>1. \A t \in Threads : LoopAt(t)' BY DEF BaseInv, LoopAt
<1>2. \A k \in Buckets : BucketAt(k)'
  <2>1. made \in Nat BY MadeBuckets
  <2> QED BY <2>1 DEF BaseInv, BucketAt
<1>3. OneListed' BY DEF BaseInv, OneListed
<1> QED BY <1>1, <1>2, <1>3 DEF OwnersInv

LEMMA OwnersListen ==
    ASSUME BaseInv, NEW t \in Threads, MakeBucket(t), UNCHANGED <<closed, ring, closing>>, Own(t) = {}
    PROVE  OwnersInv'
<1> PICK k : k = made + 1 OBVIOUS
<1>1. /\ k \in Buckets /\ made' = k /\ listed' = listed \cup {k} /\ made \in Nat /\ k > made
      /\ owner' = [owner EXCEPT ![k] = t] /\ pollers' = [pollers EXCEPT ![t] = @ \cup {k}]
      /\ \/ loop[t] = "off" /\ loop' = [loop EXCEPT ![t] = "polling"] /\ todo' = [todo EXCEPT ![t] = {k}]
         \/ /\ loop[t] # "off" /\ loop' = loop
            /\ \/ todo' = todo
               \/ loop[t] = "handler" /\ todo' = [todo EXCEPT ![t] = @ \cup {k}]
  BY MadeBuckets DEF MakeBucket
<1>2. /\ \A u \in Threads : k \notin pollers[u] /\ k \notin closing[u]
      /\ k \notin listed /\ ~closed[k] /\ ring[k] = <<>>
  BY <1>1, MadeBuckets DEF BaseInv, LoopAt, BucketAt
<1>3. ASSUME NEW u \in Threads PROVE LoopAt(u)'
  <2>1. LoopAt(u) BY DEF BaseInv
  <2>2. \A j \in pollers[u] \cup closing[u] : j \in Buckets BY DEF BaseInv, LoopTypes
  <2>3. \A j \in pollers[u] \cup closing[u] : j <= made' /\ owner'[j] = u
    <3> TAKE j \in pollers[u] \cup closing[u]
    <3>1. j <= made /\ owner[j] = u /\ j # k /\ j \in Buckets BY <1>2, <2>1, <2>2 DEF LoopAt
    <3>2. owner'[j] = owner[j] BY <1>1, <3>1 DEF BaseInv, BucketTypes
    <3> QED BY <1>1, <3>1, <3>2
  <2>4. CASE u # t
    <3>1. pollers'[u] = pollers[u] /\ todo'[u] = todo[u] /\ loop'[u] = loop[u]
      BY <1>1, <2>4 DEF BaseInv, LoopTypes
    <3> QED BY <1>1, <1>2, <2>1, <2>3, <3>1 DEF LoopAt
  <2>5. CASE u = t
    <3>1. pollers'[t] = pollers[t] \cup {k} /\ owner'[k] = t
      BY <1>1 DEF BaseInv, LoopTypes, BucketTypes
    <3>2. \/ todo'[t] = todo[t] /\ loop'[t] = loop[t] /\ loop[t] # "off"
          \/ todo'[t] = {k} /\ loop'[t] = "polling"
          \/ todo'[t] = todo[t] \cup {k} /\ loop'[t] = "handler"
      BY <1>1 DEF BaseInv, LoopTypes
    <3> QED BY <1>1, <1>2, <2>1, <2>3, <2>5, <3>1, <3>2 DEF LoopAt
  <2> QED BY <2>4, <2>5
<1>4. ASSUME NEW j \in Buckets PROVE BucketAt(j)'
  <2>1. BucketAt(j) BY DEF BaseInv
  <2>2. CASE j = k BY <1>1, <1>2, <2>2 DEF BaseInv, BucketTypes, LoopTypes, BucketAt
  <2>3. CASE j # k
    <3>1. owner'[j] = owner[j] /\ (j \in listed' <=> j \in listed) /\ (j <= made' <=> j <= made)
      BY <1>1, <2>3 DEF BaseInv, BucketTypes
    <3>2. \A u \in Threads : pollers[u] \subseteq pollers'[u] BY <1>1 DEF BaseInv, LoopTypes
    <3>3. j \in listed => j <= made BY MadeBuckets
    <3> QED BY <1>1, <2>1, <3>1, <3>2, <3>3 DEF BucketAt
  <2> QED BY <2>2, <2>3
<1>5. OneListed'
  <2>1. \A j \in listed : owner'[j] = owner[j] /\ owner[j] # t /\ j \in Buckets
    BY <1>1, <1>2, MadeBuckets DEF BaseInv, BucketTypes, Own
  <2>2. owner'[k] = t BY <1>1 DEF BaseInv, BucketTypes
  <2> QED BY <1>1, <2>1, <2>2 DEF BaseInv, OneListed
<1> QED BY <1>3, <1>4, <1>5 DEF OwnersInv

LEMMA OwnersShutdown ==
    ASSUME BaseInv, NEW t \in Threads, StartShutdown(t)
    PROVE  OwnersInv'
<1> USE DEF BaseInv
<1>1. /\ listed' = listed \ Own(t) /\ closed' = [k \in Buckets |-> closed[k] \/ k \in Own(t)]
      /\ closing' = [closing EXCEPT ![t] = @ \cup Own(t)]
      /\ UNCHANGED <<made, owner, ring, pollers, loop, todo>>
  BY DEF StartShutdown
<1>2. \A k \in Own(t) : k \in Buckets /\ k <= made /\ owner[k] = t
  BY MadeBuckets DEF Own
<1>3. ASSUME NEW u \in Threads PROVE LoopAt(u)'
  <2>1. closing'[u] = IF u = t THEN closing[t] \cup Own(t) ELSE closing[u] BY <1>1 DEF LoopTypes
  <2>2. \A k \in Own(t) : u # t => k \notin closing[u] BY <1>2 DEF LoopAt
  <2> QED BY <1>1, <1>2, <2>1, <2>2 DEF LoopAt
<1>4. ASSUME NEW k \in Buckets PROVE BucketAt(k)'
  <2>1. closed'[k] <=> closed[k] \/ k \in Own(t) BY <1>1 DEF BucketTypes
  <2>2. made \in Nat BY MadeBuckets
  <2> QED BY <1>1, <1>2, <2>1, <2>2 DEF BucketAt
<1>5. OneListed' BY <1>1 DEF OneListed
<1> QED BY <1>3, <1>4, <1>5 DEF OwnersInv

LEMMA OwnersStep ==
    ASSUME BaseInv, [Next]_vars
    PROVE  OwnersInv'
<1> USE DEF BaseInv
<1>0. ASSUME UNCHANGED <<made, listed, owner, closed, pollers, closing, ring, todo, loop>> PROVE OwnersInv'
  BY <1>0, OwnersSame DEF LoopAt
<1>1. ASSUME NEW t \in Threads, User(t) PROVE OwnersInv'
  <2>1. CASE Listen(t)
    <3>1. CASE Own(t) # {} BY <1>0, <2>1, <3>1 DEF Listen
    <3>2. CASE Own(t) = {} BY <2>1, <3>2, OwnersListen DEF Listen
    <3> QED BY <3>1, <3>2
  <2> QED BY <1>0, <1>1, <2>1, OwnersShutdown DEF User, DropListener, Emit, DropAllListeners
<1>2. ASSUME NEW t \in Threads, Send(t) PROVE OwnersInv'
  <2>1. CASE Put(t)
    <3>1. left[t] # {} BY <2>1 DEF Put, SendAt
    <3>2. To(t) <= made BY <3>1, TargetMade
    <3>3. \A k \in Buckets : ring'[k] = ring[k] \/ k <= made BY <2>1, <3>2 DEF Put, BucketTypes
    <3>4. UNCHANGED <<made, listed, owner, closed, pollers, closing, todo, loop>> BY <2>1 DEF Put
    <3> QED BY <3>3, <3>4, OwnersSame DEF LoopAt
  <2>2. CASE ClaimCell(t) \/ TestClosed(t) \/ Wake(t) \/ ReleaseLeases(t)
    BY <1>0, <2>2 DEF ClaimCell, TestClosed, Wake, ReleaseLeases
  <2> QED BY <1>2, <2>1, <2>2 DEF Send
<1>3. ASSUME NEW t \in Threads, Dispatch(t) PROVE OwnersInv'
  <2>a. ASSUME UNCHANGED <<made, listed, owner, closed, pollers, closing>>,
               \A k \in Buckets : ring'[k] = ring[k] \/ k <= made,
               todo'[t] \subseteq pollers[t],
               loop'[t] \in {"polling", "handler"} \/ (loop'[t] = "idle" /\ todo'[t] = {}),
               \A u \in Threads \ {t} : todo'[u] = todo[u] /\ loop'[u] = loop[u]
        PROVE  OwnersInv'
    BY <2>a, OwnersSame DEF LoopAt
  <2>1. CASE WakeUp(t)
    <3>1. /\ UNCHANGED <<made, listed, owner, closed, pollers, closing, ring>>
          /\ todo'[t] = pollers[t] /\ loop'[t] = "polling"
          /\ \A u \in Threads \ {t} : todo'[u] = todo[u] /\ loop'[u] = loop[u]
      BY <2>1 DEF WakeUp, LoopTypes
    <3> QED BY <2>a, <3>1
  <2>2. CASE HandlerYields(t)
    <3>1. /\ UNCHANGED <<made, listed, owner, closed, pollers, closing, ring, todo>>
          /\ loop'[t] = "polling"
          /\ \A u \in Threads \ {t} : loop'[u] = loop[u]
      BY <2>2 DEF HandlerYields, LoopTypes
    <3> QED BY <2>a, <3>1 DEF LoopAt
  <2>3. CASE PassEnds(t)
    <3>1. UNCHANGED <<made, listed, owner, closed, pollers, closing, ring>> BY <2>3 DEF PassEnds
    <3>2. CASE work[t]
      <4>1. /\ todo'[t] = pollers[t] /\ loop'[t] = "polling"
            /\ \A u \in Threads \ {t} : todo'[u] = todo[u] /\ loop'[u] = loop[u]
        BY <2>3, <3>2 DEF PassEnds, LoopTypes
      <4> QED BY <2>a, <3>1, <4>1
    <3>3. CASE ~work[t]
      <4>1. /\ todo'[t] = {} /\ loop'[t] = "idle"
            /\ \A u \in Threads \ {t} : todo'[u] = todo[u] /\ loop'[u] = loop[u]
        BY <2>3, <3>3 DEF PassEnds, LoopTypes
      <4> QED BY <2>a, <3>1, <4>1
    <3> QED BY <3>2, <3>3
  <2>4. ASSUME NEW k \in Buckets, Polls(t, k)
        PROVE  /\ todo'[t] = todo[t] \ {k} /\ k \in pollers[t] /\ k <= made /\ loop[t] = "polling"
               /\ todo'[t] \subseteq pollers[t]
               /\ \A u \in Threads \ {t} : todo'[u] = todo[u]
    BY <2>4 DEF Polls, LoopTypes, LoopAt
  <2>5. ASSUME NEW k \in Buckets, PollValue(t, k) \/ PollClear(t, k) \/ PollEmpty(t, k)
        PROVE  OwnersInv'
    <3>1. /\ Polls(t, k) /\ UNCHANGED <<made, listed, owner, closed, pollers, closing>>
          /\ ring' = ring \/ ring' = [ring EXCEPT ![k] = Tail(@)]
          /\ loop' = loop \/ loop' = [loop EXCEPT ![t] = "handler"]
      BY <2>5 DEF PollValue, PollClear, PollEmpty
    <3>2. \A j \in Buckets : ring'[j] = ring[j] \/ j <= made
      BY <2>4, <3>1 DEF BucketTypes
    <3>3. loop'[t] \in {"polling", "handler"} /\ \A u \in Threads \ {t} : loop'[u] = loop[u]
      BY <2>4, <3>1 DEF LoopTypes
    <3> QED BY <2>4, <2>a, <3>1, <3>2, <3>3
  <2>6. ASSUME NEW k \in Buckets, PollRetires(t, k) PROVE OwnersInv'
    <3>1. /\ Polls(t, k) /\ UNCHANGED <<made, listed, owner, closed, closing, ring, loop>>
          /\ pollers' = [pollers EXCEPT ![t] = @ \ {k}] /\ closed[k]
      BY <2>6 DEF PollRetires
    <3>2. \A u \in Threads : LoopAt(u)'
      <4> TAKE u \in Threads
      <4>1. pollers'[u] = IF u = t THEN pollers[t] \ {k} ELSE pollers[u] BY <3>1 DEF LoopTypes
      <4>2. todo'[u] = IF u = t THEN todo[t] \ {k} ELSE todo[u] BY <2>4, <3>1
      <4> QED BY <3>1, <4>1, <4>2 DEF LoopAt
    <3>3. \A j \in Buckets : BucketAt(j)'
      <4> TAKE j \in Buckets
      <4>1. j # k => (j \in pollers[owner[j]] /\ owner[j] \in Threads => j \in pollers'[owner[j]])
        BY <3>1 DEF LoopTypes
      <4>2. j \in listed => owner[j] \in Threads BY MadeBuckets DEF BucketAt
      <4> QED BY <3>1, <4>1, <4>2 DEF BucketAt
    <3>4. OneListed' BY <3>1 DEF OneListed
    <3> QED BY <3>2, <3>3, <3>4 DEF OwnersInv
  <2> QED BY <1>3, <2>1, <2>2, <2>3, <2>5, <2>6 DEF Dispatch
<1>4. ASSUME NEW t \in Threads, EndShutdown(t) \/ GiveUpShutdown(t) PROVE OwnersInv'
  <2>1. PICK k \in closing[t] : LeaveShutdown(t, k) BY <1>4 DEF EndShutdown, GiveUpShutdown
  <2>2. /\ closing' = [closing EXCEPT ![t] = @ \ {k}]
        /\ UNCHANGED <<made, listed, owner, closed, pollers, ring, todo, loop>>
    BY <2>1 DEF LeaveShutdown
  <2>3. \A u \in Threads : LoopAt(u)'
    <3>1. \A u \in Threads : closing'[u] \subseteq closing[u] BY <2>2 DEF LoopTypes
    <3> QED BY <2>2, <3>1 DEF LoopAt
  <2>4. \A j \in Buckets : BucketAt(j)' BY <2>2 DEF BucketAt
  <2>5. OneListed' BY <2>2 DEF OneListed
  <2> QED BY <2>3, <2>4, <2>5 DEF OwnersInv
<1>5. CASE UNCHANGED vars BY <1>0, <1>5 DEF vars
<1> QED BY <1>1, <1>2, <1>3, <1>4, <1>5 DEF Next

LEMMA BaseStep == BaseInv /\ [Next]_vars => BaseInv'
<1> SUFFICES ASSUME BaseInv, [Next]_vars PROVE BaseInv'
    OBVIOUS
<1>1. BucketTypes' /\ SlabTypes' /\ LoopTypes' /\ HeardTypes'
  BY BucketTypesStep, SlabTypesStep, LoopTypesStep, HeardTypesStep
<1>2. SendInv' /\ OwnersInv' BY SendStep, OwnersStep
<1> QED BY <1>1, <1>2 DEF BaseInv, SendInv, OwnersInv

-----------------------------------------------------------------------------
(* The references of the rings.                                            *)

Leasing(k) == {t \in Threads : k \in held[t]}

\* The references of its owner, in the registry or a shutdown, and in the loop.
OwnerRefs(k) ==
    (IF k \in listed \cup closing[owner[k]] THEN 1 ELSE 0)
      + (IF k \in pollers[owner[k]] THEN 1 ELSE 0)

RingAt(k) ==
    /\ refs[k] = OwnerRefs(k) + Cardinality(Leasing(k))
    /\ k \in freed <=> refs[k] = 0

RingsInv == freed \subseteq 1 .. made /\ \A k \in 1 .. made : RingAt(k)

LEMMA LeasingFinite ==
    ASSUME NEW k
    PROVE  IsFiniteSet(Leasing(k)) /\ Cardinality(Leasing(k)) \in Nat
<1>1. Leasing(k) \subseteq Threads BY DEF Leasing
<1>2. IsFiniteSet(Leasing(k)) BY <1>1, LaneAssumption, FS_Subset
<1> QED BY <1>2, FS_CardinalityType

\* A thread takes its leases ...
LEMMA LeasingGrow ==
    ASSUME held \in [Threads -> SUBSET Buckets], NEW t \in Threads, NEW K, held[t] = {},
           held' = [held EXCEPT ![t] = K], NEW k
    PROVE  Cardinality(Leasing(k)') = Cardinality(Leasing(k)) + (IF k \in K THEN 1 ELSE 0)
<1>1. CASE k \in K
  <2>1. Leasing(k)' = Leasing(k) \cup {t} /\ t \notin Leasing(k) BY <1>1 DEF Leasing
  <2> QED BY <1>1, <2>1, LeasingFinite, FS_AddElement
<1>2. CASE k \notin K
  <2>1. Leasing(k)' = Leasing(k) BY <1>2 DEF Leasing
  <2> QED BY <1>2, <2>1, LeasingFinite
<1> QED BY <1>1, <1>2

\* ... and gives some of them back.
LEMMA LeasingShrink ==
    ASSUME held \in [Threads -> SUBSET Buckets], NEW t \in Threads, NEW K, K \subseteq held[t],
           held' = [held EXCEPT ![t] = @ \ K], NEW k
    PROVE  /\ Cardinality(Leasing(k)') = Cardinality(Leasing(k)) - (IF k \in K THEN 1 ELSE 0)
           /\ k \in K => Cardinality(Leasing(k)) > 0
<1>1. CASE k \in K
  <2>1. Leasing(k)' = Leasing(k) \ {t} /\ t \in Leasing(k) BY <1>1 DEF Leasing
  <2> PICK L : L = Leasing(k) OBVIOUS
  <2>a. IsFiniteSet(L) BY LeasingFinite
  <2>2. Cardinality(Leasing(k)') = Cardinality(Leasing(k)) - 1
    <3>1. Cardinality(L \ {t}) = Cardinality(L) - 1 BY <2>1, <2>a, FS_RemoveElement
    <3> QED BY <2>1, <3>1
  <2>3. Cardinality(Leasing(k)) # 0
    <3>1. Cardinality(L) # 0 BY <2>1, <2>a, FS_EmptySet
    <3> QED BY <3>1
  <2> PICK n \in Nat : n = Cardinality(Leasing(k)) BY LeasingFinite
  <2>4. n # 0 /\ n > 0 BY <2>3
  <2> QED BY <1>1, <2>2, <2>4
<1>2. CASE k \notin K
  <2>1. Leasing(k)' = Leasing(k) BY <1>2 DEF Leasing
  <2> QED BY <1>2, <2>1, LeasingFinite
<1> QED BY <1>1, <1>2

LEMMA OwnerRefsNat ==
    ASSUME NEW k
    PROVE  OwnerRefs(k) \in Nat
BY DEF OwnerRefs

\* Some holders give up one reference on each ring of K.
LEMMA RingsReleased ==
    ASSUME BaseInv, RingsInv, NEW K, K \subseteq 1 .. made, Release(K), made' = made,
           \A k \in 1 .. made :
             /\ (OwnerRefs(k) + Cardinality(Leasing(k)))' =
                  OwnerRefs(k) + Cardinality(Leasing(k)) - (IF k \in K THEN 1 ELSE 0)
             /\ k \in K => OwnerRefs(k) + Cardinality(Leasing(k)) > 0
    PROVE  RingsInv'
<1>1. freed' = freed \cup {k \in K : refs[k] = 1}
      /\ \A k \in 1 .. made : refs'[k] = IF k \in K THEN refs[k] - 1 ELSE refs[k]
  BY MadeBuckets DEF Release
<1>2. ASSUME NEW k \in 1 .. made PROVE RingAt(k)'
  <2>1. RingAt(k) BY DEF RingsInv
  <2>2. refs[k] \in Int BY MadeBuckets DEF BaseInv, BucketTypes
  <2> PICK n : n = OwnerRefs(k) + Cardinality(Leasing(k)) OBVIOUS
  <2>a. n \in Nat BY LeasingFinite, OwnerRefsNat
  <2>b. /\ (OwnerRefs(k) + Cardinality(Leasing(k)))' = n - (IF k \in K THEN 1 ELSE 0)
        /\ k \in K => n > 0
    <3>1. /\ (OwnerRefs(k) + Cardinality(Leasing(k)))' =
               OwnerRefs(k) + Cardinality(Leasing(k)) - (IF k \in K THEN 1 ELSE 0)
          /\ k \in K => OwnerRefs(k) + Cardinality(Leasing(k)) > 0
      OBVIOUS
    <3> QED BY <3>1, LeasingFinite, OwnerRefsNat
  <2>3. CASE k \in K
    <3>1. refs'[k] = n - 1 /\ k \notin freed /\ (k \in freed' <=> refs[k] = 1)
      BY <1>1, <2>1, <2>a, <2>b, <2>3 DEF RingAt
    <3>2. refs[k] = n BY <2>1 DEF RingAt
    <3> QED BY <2>a, <2>b, <2>3, <3>1, <3>2 DEF RingAt
  <2>4. CASE k \notin K
    <3>1. refs'[k] = n /\ refs[k] = n /\ (k \in freed' <=> k \in freed)
      BY <1>1, <2>1, <2>4 DEF RingAt
    <3> QED BY <2>1, <2>a, <2>b, <2>4, <3>1 DEF RingAt
  <2> QED BY <2>3, <2>4
<1> QED BY <1>1, <1>2 DEF RingsInv

LEMMA RingsListen ==
    ASSUME BaseInv, RingsInv, NEW t \in Threads, MakeBucket(t), UNCHANGED <<freed, closing, held>>
    PROVE  RingsInv'
<1> PICK k : k = made + 1 OBVIOUS
<1>1. /\ k \in Buckets /\ made' = k /\ listed' = listed \cup {k} /\ made \in Nat
      /\ owner' = [owner EXCEPT ![k] = t] /\ refs' = [refs EXCEPT ![k] = 2]
      /\ pollers' = [pollers EXCEPT ![t] = @ \cup {k}]
  BY MadeBuckets DEF MakeBucket
<1>2. k \notin freed /\ freed' = freed BY <1>1 DEF RingsInv
<1>3. RingAt(k)'
  <2>1. Leasing(k) = {} BY <1>1 DEF Leasing, BaseInv, SendAt
  <2>2. Leasing(k)' = {} BY <2>1 DEF Leasing
  <2>3. Cardinality(Leasing(k))' = 0 BY <2>2, FS_EmptySet
  <2>4. OwnerRefs(k)' = 2 BY <1>1 DEF OwnerRefs, BaseInv, BucketTypes, LoopTypes
  <2>5. refs'[k] = 2 BY <1>1 DEF BaseInv, BucketTypes
  <2> QED BY <1>2, <2>3, <2>4, <2>5 DEF RingAt
<1>4. ASSUME NEW j \in 1 .. made PROVE RingAt(j)'
  <2>1. j # k /\ j \in Buckets /\ RingAt(j) BY <1>1, MadeBuckets DEF RingsInv
  <2>2. Leasing(j)' = Leasing(j) BY DEF Leasing
  <2>3. owner'[j] = owner[j] /\ refs'[j] = refs[j] /\ owner[j] \in Threads
    BY <1>1, <2>1 DEF BaseInv, BucketTypes, BucketAt
  <2>4. j \in pollers'[owner[j]] <=> j \in pollers[owner[j]]
    BY <1>1, <2>1, <2>3 DEF BaseInv, LoopTypes
  <2>5. OwnerRefs(j)' = OwnerRefs(j) BY <1>1, <2>1, <2>3, <2>4 DEF OwnerRefs
  <2> QED BY <1>2, <2>1, <2>2, <2>3, <2>5 DEF RingAt
<1>5. \A j \in 1 .. made' : j = k \/ j \in 1 .. made BY <1>1
<1>6. freed' \subseteq 1 .. made' 
  <2>1. 1 .. made \subseteq 1 .. made' BY <1>1
  <2> QED BY <1>2, <2>1 DEF RingsInv
<1> QED BY <1>3, <1>4, <1>5, <1>6 DEF RingsInv

LEMMA RingsStep ==
    ASSUME BaseInv, RingsInv, [Next]_vars
    PROVE  RingsInv'
<1> USE DEF BaseInv
<1>0. ASSUME UNCHANGED <<made, listed, owner, closing, pollers, held, refs, freed>> PROVE RingsInv'
  BY <1>0 DEF RingsInv, RingAt, OwnerRefs, Leasing
<1>b. \A k \in 1 .. made : k \in Buckets /\ owner[k] \in Threads BY MadeBuckets DEF BucketAt
<1>1. ASSUME NEW t \in Threads, User(t) PROVE RingsInv'
  <2>1. CASE Listen(t)
    <3>1. CASE Own(t) # {} BY <1>0, <2>1, <3>1 DEF Listen
    <3>2. CASE MakeBucket(t) BY <2>1, <3>2, RingsListen DEF Listen
    <3> QED BY <2>1, <3>1, <3>2 DEF Listen
  <2>2. CASE Emit(t) \/ DropAllListeners(t)
    <3> PICK K : K = Targets \ Own(t) OBVIOUS
    <3>1. /\ Acquire(K) /\ held' = [held EXCEPT ![t] = K]
          /\ UNCHANGED <<made, listed, owner, closing, pollers, freed>>
      BY <2>2 DEF Emit, DropAllListeners
    <3>2. K \subseteq listed
      <4>1. Targets \subseteq listed BY DEF Targets
      <4> QED BY <4>1
    <3>3. held[t] = {} BY <2>2 DEF Emit, DropAllListeners, UserCode, SendAt
    <3>4. ASSUME NEW k \in 1 .. made PROVE RingAt(k)'
      <4>1. refs'[k] = IF k \in K THEN refs[k] + 1 ELSE refs[k]
        <5>1. k \in Buckets BY <1>b
        <5> HIDE DEF BaseInv
        <5> QED BY <3>1, <5>1 DEF Acquire
      <4>2. Cardinality(Leasing(k)') = Cardinality(Leasing(k)) + (IF k \in K THEN 1 ELSE 0)
        <5>1. held \in [Threads -> SUBSET Buckets] BY DEF SendTypes
        <5> HIDE DEF BaseInv
        <5> QED BY <3>1, <3>3, <5>1, LeasingGrow
      <4>3. OwnerRefs(k)' = OwnerRefs(k) BY <3>1 DEF OwnerRefs
      <4>4. k \in K => OwnerRefs(k) > 0 BY <3>2 DEF OwnerRefs
      <4>5. Cardinality(Leasing(k)) \in Nat /\ OwnerRefs(k) \in Nat BY LeasingFinite, OwnerRefsNat
      <4>6. RingAt(k) BY DEF RingsInv
      <4>7. CASE k \in K BY <3>1, <4>1, <4>2, <4>3, <4>4, <4>5, <4>6, <4>7 DEF RingAt
      <4>8. CASE k \notin K BY <3>1, <4>1, <4>2, <4>3, <4>5, <4>6, <4>8 DEF RingAt
      <4> QED BY <4>7, <4>8
    <3> QED BY <3>1, <3>4 DEF RingsInv
  <2>3. CASE StartShutdown(t)
    <3>1. /\ listed' = listed \ Own(t) /\ closing' = [closing EXCEPT ![t] = @ \cup Own(t)]
          /\ UNCHANGED <<made, owner, pollers, held, refs, freed>>
      BY <2>3 DEF StartShutdown
    <3>2. ASSUME NEW k \in 1 .. made PROVE RingAt(k)'
      <4>1. closing'[owner[k]] = IF owner[k] = t THEN closing[t] \cup Own(t) ELSE closing[owner[k]]
        BY <1>b, <3>1 DEF LoopTypes
      <4>2. k \in listed' \cup closing'[owner[k]] <=> k \in listed \cup closing[owner[k]]
        BY <3>1, <4>1 DEF Own
      <4>3. OwnerRefs(k)' = OwnerRefs(k) BY <3>1, <4>2 DEF OwnerRefs
      <4>4. Leasing(k)' = Leasing(k) BY <3>1 DEF Leasing
      <4> QED BY <3>1, <4>3, <4>4 DEF RingAt, RingsInv
    <3> QED BY <3>1, <3>2 DEF RingsInv
  <2>4. ASSUME NEW h, DropListener(t, h) PROVE RingsInv' BY <1>0, <2>4 DEF DropListener
  <2> QED BY <1>1, <2>1, <2>2, <2>3, <2>4 DEF User
<1>2. ASSUME NEW t \in Threads, Send(t) PROVE RingsInv'
  <2>1. CASE ReleaseLeases(t)
    <3> PICK K : K = IF left[t] = {} THEN held[t] ELSE {To(t)} OBVIOUS
    <3>1. /\ Release(K) /\ held' = [held EXCEPT ![t] = @ \ K]
          /\ UNCHANGED <<made, listed, owner, closing, pollers>>
      BY <2>1 DEF ReleaseLeases
    <3>2. K \subseteq held[t] /\ K \subseteq 1 .. made BY TargetMade DEF SendAt
    <3>3. ASSUME NEW k \in 1 .. made
          PROVE  /\ (OwnerRefs(k) + Cardinality(Leasing(k)))' =
                      OwnerRefs(k) + Cardinality(Leasing(k)) - (IF k \in K THEN 1 ELSE 0)
                 /\ k \in K => OwnerRefs(k) + Cardinality(Leasing(k)) > 0
      <4>1. /\ Cardinality(Leasing(k)') = Cardinality(Leasing(k)) - (IF k \in K THEN 1 ELSE 0)
            /\ k \in K => Cardinality(Leasing(k)) > 0
        BY <3>1, <3>2, LeasingShrink DEF SendTypes
      <4>2. OwnerRefs(k)' = OwnerRefs(k) BY <3>1 DEF OwnerRefs
      <4>3. Cardinality(Leasing(k)) \in Nat /\ OwnerRefs(k) \in Nat BY LeasingFinite, OwnerRefsNat
      <4> QED BY <4>1, <4>2, <4>3
    <3> QED BY <3>1, <3>2, <3>3, RingsReleased
  <2> QED BY <1>0, <1>2, <2>1 DEF Send, ClaimCell, TestClosed, Put, Wake
<1>3. ASSUME NEW t \in Threads, Dispatch(t) PROVE RingsInv'
  <2>1. ASSUME NEW k \in Buckets, PollRetires(t, k) PROVE RingsInv'
    <3>1. /\ Release({k}) /\ pollers' = [pollers EXCEPT ![t] = @ \ {k}] /\ k \in todo[t]
          /\ UNCHANGED <<made, listed, owner, closing, held>>
      BY <2>1 DEF PollRetires, Polls
    <3>2. k \in pollers[t] /\ k \in 1 .. made /\ owner[k] = t BY <3>1 DEF LoopAt
    <3>3. ASSUME NEW j \in 1 .. made
          PROVE  /\ (OwnerRefs(j) + Cardinality(Leasing(j)))' =
                      OwnerRefs(j) + Cardinality(Leasing(j)) - (IF j \in {k} THEN 1 ELSE 0)
                 /\ j \in {k} => OwnerRefs(j) + Cardinality(Leasing(j)) > 0
      <4>1. Leasing(j)' = Leasing(j) BY <3>1 DEF Leasing
      <4>2. pollers'[owner[j]] = IF owner[j] = t THEN pollers[t] \ {k} ELSE pollers[owner[j]]
        BY <1>b, <3>1 DEF LoopTypes
      <4>3. OwnerRefs(j)' = OwnerRefs(j) - (IF j = k THEN 1 ELSE 0)
        BY <3>1, <3>2, <4>2 DEF OwnerRefs
      <4>4. j = k => OwnerRefs(j) > 0 BY <3>2 DEF OwnerRefs
      <4>5. Cardinality(Leasing(j)) \in Nat /\ OwnerRefs(j) \in Nat BY LeasingFinite, OwnerRefsNat
      <4> QED BY <4>1, <4>3, <4>4, <4>5
    <3>4. {k} \subseteq 1 .. made BY <3>2
    <3> QED BY <3>1, <3>3, <3>4, RingsReleased
  <2> QED BY <1>0, <1>3, <2>1
          DEF Dispatch, WakeUp, HandlerYields, PassEnds, PollValue, PollClear, PollEmpty
<1>4. ASSUME NEW t \in Threads, EndShutdown(t) \/ GiveUpShutdown(t) PROVE RingsInv'
  <2>1. PICK k \in closing[t] : LeaveShutdown(t, k) BY <1>4 DEF EndShutdown, GiveUpShutdown
  <2>2. /\ Release({k}) /\ closing' = [closing EXCEPT ![t] = @ \ {k}]
        /\ UNCHANGED <<made, listed, owner, pollers, held>>
    BY <2>1 DEF LeaveShutdown
  <2>3. k \in 1 .. made /\ owner[k] = t /\ k \notin listed BY DEF LoopAt, LoopTypes
  <2>4. ASSUME NEW j \in 1 .. made
        PROVE  /\ (OwnerRefs(j) + Cardinality(Leasing(j)))' =
                    OwnerRefs(j) + Cardinality(Leasing(j)) - (IF j \in {k} THEN 1 ELSE 0)
               /\ j \in {k} => OwnerRefs(j) + Cardinality(Leasing(j)) > 0
    <3>1. Leasing(j)' = Leasing(j) BY <2>2 DEF Leasing
    <3>2. closing'[owner[j]] = IF owner[j] = t THEN closing[t] \ {k} ELSE closing[owner[j]]
      BY <1>b, <2>2 DEF LoopTypes
    <3>3. OwnerRefs(j)' = OwnerRefs(j) - (IF j = k THEN 1 ELSE 0)
      BY <2>2, <2>3, <3>2 DEF OwnerRefs
    <3>4. j = k => OwnerRefs(j) > 0 BY <2>3 DEF OwnerRefs
    <3>5. Cardinality(Leasing(j)) \in Nat /\ OwnerRefs(j) \in Nat BY LeasingFinite, OwnerRefsNat
    <3> QED BY <3>1, <3>3, <3>4, <3>5
  <2>5. {k} \subseteq 1 .. made BY <2>3
  <2> QED BY <2>2, <2>4, <2>5, RingsReleased
<1>5. CASE UNCHANGED vars BY <1>0, <1>5 DEF vars
<1> QED BY <1>1, <1>2, <1>3, <1>4, <1>5 DEF Next

LEMMA RingsInit == Init => RingsInv
BY DEF Init, RingsInv

LEMMA RingsRight == RingsInv => RingsCounted
BY DEF RingsInv, RingAt, OwnerRefs, Leasing, RingsCounted

\* A ring is freed exactly when the last of its holders lets go, for any number
\* of threads, buckets and calls, whatever shutdown gives up while an emit is
\* under way (BrokerRingLease: acquireLease, releaseLease).
THEOREM RingsAreCounted == Spec => []RingsCounted
<1>1. Init => BaseInv /\ RingsInv BY BaseInit, RingsInit
<1>2. BaseInv /\ RingsInv /\ [Next]_vars => (BaseInv /\ RingsInv)' BY BaseStep, RingsStep
<1> QED BY <1>1, <1>2, RingsRight, PTL DEF Spec

-----------------------------------------------------------------------------
(* The references of the cells.                                            *)

\* Bucket k is one that thread t has still to try x on.
Pending(t, k, x) ==
    /\ at[t] # "claim" /\ item[t] = x
    /\ k \in left[t] /\ (at[t] \in {"wake", "release"} => k # To(t))

CellAt(c) ==
    /\ count[c] = Cardinality(Slots(c)) + Cardinality(Due(c))
    /\ free[c] = IF count[c] = 0 THEN 1 ELSE 0

CellsInv ==
    /\ \A k \in Buckets : Len(ring[k]) <= Depth
    /\ \A c \in Cells : CellAt(c)

LEMMA SlotsFinite ==
    ASSUME NEW x
    PROVE  IsFiniteSet(Slots(x)) /\ Cardinality(Slots(x)) \in Nat
<1>1. IsFiniteSet(Buckets) /\ IsFiniteSet(1 .. Depth) BY FS_Interval
<1>2. IsFiniteSet(Buckets \X (1 .. Depth)) BY <1>1, FS_Product
<1>3. Slots(x) \subseteq Buckets \X (1 .. Depth) BY DEF Slots
<1>4. IsFiniteSet(Slots(x)) BY <1>2, <1>3, FS_Subset
<1> QED BY <1>4, FS_CardinalityType

LEMMA DueFinite ==
    ASSUME NEW x
    PROVE  IsFiniteSet(Due(x)) /\ Cardinality(Due(x)) \in Nat
<1>1. IsFiniteSet(Buckets) /\ IsFiniteSet(Threads) BY FS_Interval, LaneAssumption
<1>2. IsFiniteSet(Threads \X Buckets) BY <1>1, FS_Product
<1>3. Due(x) \subseteq Threads \X Buckets BY DEF Due
<1>4. IsFiniteSet(Due(x)) BY <1>2, <1>3, FS_Subset
<1> QED BY <1>4, FS_CardinalityType

LEMMA DueMember ==
    ASSUME NEW x, NEW w \in Threads \X Buckets
    PROVE  w \in Due(x) <=> Pending(w[1], w[2], x)
BY DEF Due, Pending

LEMMA SlotsMember ==
    ASSUME NEW x, NEW w \in Buckets \X (1 .. Depth)
    PROVE  w \in Slots(x) <=> w[2] <= Len(ring[w[1]]) /\ ring[w[1]][w[2]] = x
BY DEF Slots

LEMMA SlotsSame ==
    ASSUME ring' = ring, NEW x
    PROVE  Slots(x)' = Slots(x)
BY DEF Slots

\* Nobody has a ring more, or one less, to try x on.
LEMMA DueSame ==
    ASSUME NEW x,
           \A t \in Threads, k \in Buckets : Pending(t, k, x)' <=> Pending(t, k, x)
    PROVE  Due(x)' = Due(x)
<1>1. \A w \in Threads \X Buckets : w \in Due(x)' <=> w \in Due(x)
  <2> TAKE w \in Threads \X Buckets
  <2>1. w[1] \in Threads /\ w[2] \in Buckets OBVIOUS
  <2>2. w \in Due(x)' <=> Pending(w[1], w[2], x)' BY DEF Due, Pending
  <2> QED BY <2>1, <2>2, DueMember
<1>2. Due(x) \subseteq Threads \X Buckets /\ Due(x)' \subseteq Threads \X Buckets BY DEF Due
<1> QED BY <1>1, <1>2

\* Thread t has tried x on bucket b.
LEMMA DueLess ==
    ASSUME NEW x, NEW t \in Threads, NEW b \in Buckets, Pending(t, b, x),
           \A s \in Threads, k \in Buckets :
             Pending(s, k, x)' <=> Pending(s, k, x) /\ <<s, k>> # <<t, b>>
    PROVE  Cardinality(Due(x)') = Cardinality(Due(x)) - 1 /\ Cardinality(Due(x)) > 0
<1>1. \A w \in Threads \X Buckets : w \in Due(x)' <=> w \in Due(x) /\ w # <<t, b>>
  <2> TAKE w \in Threads \X Buckets
  <2>1. w[1] \in Threads /\ w[2] \in Buckets /\ w = <<w[1], w[2]>> OBVIOUS
  <2>2. w \in Due(x)' <=> Pending(w[1], w[2], x)' BY DEF Due, Pending
  <2>3. w \in Due(x) <=> Pending(w[1], w[2], x) BY DueMember
  <2> QED BY <2>1, <2>2, <2>3
<1>2. Due(x) \subseteq Threads \X Buckets /\ Due(x)' \subseteq Threads \X Buckets BY DEF Due
<1>3. Due(x)' = Due(x) \ {<<t, b>>} BY <1>1, <1>2
<1>4. <<t, b>> \in Due(x) BY DEF Due, Pending
<1>5. Cardinality(Due(x)') = Cardinality(Due(x)) - 1
  <2>1. Cardinality(Due(x) \ {<<t, b>>}) = Cardinality(Due(x)) - 1
    BY <1>4, DueFinite, FS_RemoveElement
  <2> QED BY <1>3, <2>1
<1>6. Cardinality(Due(x)) # 0 BY <1>4, DueFinite, FS_EmptySet
<1> QED BY <1>5, <1>6, DueFinite

\* x is put into the ring of bucket b.
LEMMA SlotsMore ==
    ASSUME BaseInv, NEW x, NEW b \in Buckets, Len(ring[b]) < Depth, NEW y \in Cells \cup {Clear},
           ring' = [ring EXCEPT ![b] = Append(@, y)]
    PROVE  Cardinality(Slots(x)') = Cardinality(Slots(x)) + (IF x = y THEN 1 ELSE 0)
<1> PICK n : n = Len(ring[b]) OBVIOUS
<1>1. ring[b] \in Seq(Cells \cup {Clear}) /\ n \in Nat /\ n + 1 \in 1 .. Depth
  BY RingTypes
<1>2. /\ \A k \in Buckets \ {b} : ring'[k] = ring[k]
      /\ Len(ring'[b]) = n + 1 /\ ring'[b][n + 1] = y
      /\ \A i \in 1 .. n : ring'[b][i] = ring[b][i]
  BY <1>1 DEF BaseInv, BucketTypes
<1>3. \A w \in Buckets \X (1 .. Depth) :
        w \in Slots(x)' <=> w \in Slots(x) \/ (x = y /\ w = <<b, n + 1>>)
  <2> TAKE w \in Buckets \X (1 .. Depth)
  <2>1. w \in Slots(x)' <=> w[2] <= Len(ring'[w[1]]) /\ ring'[w[1]][w[2]] = x
    BY DEF Slots
  <2>2. w \in Slots(x) <=> w[2] <= Len(ring[w[1]]) /\ ring[w[1]][w[2]] = x
    BY SlotsMember
  <2>3. w[1] \in Buckets /\ w[2] \in 1 .. Depth /\ w = <<w[1], w[2]>> OBVIOUS
  <2>4. CASE w[1] # b BY <1>2, <2>1, <2>2, <2>3, <2>4
  <2>5. CASE w[1] = b /\ w[2] <= n BY <1>1, <1>2, <2>1, <2>2, <2>3, <2>5
  <2>6. CASE w[1] = b /\ w[2] = n + 1 BY <1>1, <1>2, <2>1, <2>2, <2>3, <2>6
  <2>7. CASE w[1] = b /\ w[2] > n + 1 BY <1>1, <1>2, <2>1, <2>2, <2>3, <2>7
  <2> QED BY <1>1, <2>3, <2>4, <2>5, <2>6, <2>7
<1>4. Slots(x) \subseteq Buckets \X (1 .. Depth) /\ Slots(x)' \subseteq Buckets \X (1 .. Depth)
  BY DEF Slots
<1>5. <<b, n + 1>> \in Buckets \X (1 .. Depth) BY <1>1
<1>6. CASE x = y
  <2>1. Slots(x)' = Slots(x) \cup {<<b, n + 1>>} BY <1>3, <1>4, <1>5, <1>6
  <2>2. <<b, n + 1>> \notin Slots(x) BY <1>1, <1>5, SlotsMember
  <2> QED BY <1>6, <2>1, <2>2, SlotsFinite, FS_AddElement
<1>7. CASE x # y
  <2>1. Slots(x)' = Slots(x) BY <1>3, <1>4, <1>7
  <2> QED BY <1>7, <2>1, SlotsFinite
<1> QED BY <1>6, <1>7

\* The ring of bucket b gives its head, and the rest moves up.
LEMMA SlotsLess ==
    ASSUME BaseInv, NEW x, NEW b \in Buckets, ring[b] # <<>>, Len(ring[b]) <= Depth,
           ring' = [ring EXCEPT ![b] = Tail(@)]
    PROVE  /\ Cardinality(Slots(x)') = Cardinality(Slots(x)) - (IF Head(ring[b]) = x THEN 1 ELSE 0)
           /\ Head(ring[b]) = x => Cardinality(Slots(x)) > 0
<1> PICK n : n = Len(ring[b]) OBVIOUS
<1>1. ring[b] \in Seq(Cells \cup {Clear}) /\ n \in 1 .. Depth
  BY RingTypes
<1>2. /\ \A k \in Buckets \ {b} : ring'[k] = ring[k]
      /\ Len(ring'[b]) = n - 1 /\ Head(ring[b]) = ring[b][1]
      /\ \A i \in 1 .. n - 1 : ring'[b][i] = ring[b][i + 1]
  BY <1>1 DEF BaseInv, BucketTypes
<1> DEFINE S == Slots(x) \ {<<b, 1>>}
           T == Slots(x)'
           f == [w \in S |-> IF w[1] = b THEN <<b, w[2] - 1>> ELSE w]
<1>3. \A w \in Buckets \X (1 .. Depth) :
        w \in T <=> w[2] <= Len(ring'[w[1]]) /\ ring'[w[1]][w[2]] = x
  BY DEF Slots
<1>4. \A w \in Buckets \X (1 .. Depth) :
        w \in S <=> w[2] <= Len(ring[w[1]]) /\ ring[w[1]][w[2]] = x /\ w # <<b, 1>>
  BY SlotsMember
<1>5. S \subseteq Buckets \X (1 .. Depth) /\ T \subseteq Buckets \X (1 .. Depth)
  BY DEF Slots
<1> HIDE DEF S, T
<1>6. ASSUME NEW w \in S PROVE (IF w[1] = b THEN <<b, w[2] - 1>> ELSE w) \in T
  <2>1. /\ w[1] \in Buckets /\ w[2] \in 1 .. Depth /\ w = <<w[1], w[2]>>
        /\ w \in Buckets \X (1 .. Depth)
    BY <1>5
  <2>2. w[2] <= Len(ring[w[1]]) /\ ring[w[1]][w[2]] = x /\ w # <<b, 1>> BY <1>4, <2>1
  <2>3. CASE w[1] = b
    <3> PICK i : i = w[2] - 1 OBVIOUS
    <3>1. i \in 1 .. n - 1 /\ i \in 1 .. Depth BY <1>1, <2>1, <2>2, <2>3
    <3>2. ring'[b][i] = x /\ i <= Len(ring'[b]) BY <1>1, <1>2, <2>1, <2>2, <2>3, <3>1
    <3>3. <<b, i>> \in Buckets \X (1 .. Depth) BY <3>1
    <3> QED BY <1>3, <2>3, <3>2, <3>3
  <2>4. CASE w[1] # b BY <1>2, <1>3, <2>1, <2>2, <2>4
  <2> QED BY <2>3, <2>4
<1>7. f \in [S -> T] BY <1>6
<1>8. \A v, w \in S : f[v] = f[w] => v = w
  <2> TAKE v, w \in S
  <2>1. /\ v = <<v[1], v[2]>> /\ w = <<w[1], w[2]>> /\ v[2] \in Nat /\ w[2] \in Nat
    BY <1>5
  <2>2. CASE v[1] = b /\ w[1] = b BY <2>1, <2>2
  <2>3. CASE v[1] # b \/ w[1] # b BY <2>1, <2>3
  <2> QED BY <2>2, <2>3
<1>9. \A u \in T : \E w \in S : f[w] = u
  <2> TAKE u \in T
  <2>1. /\ u[1] \in Buckets /\ u[2] \in 1 .. Depth /\ u = <<u[1], u[2]>>
        /\ u \in Buckets \X (1 .. Depth)
    BY <1>5
  <2>2. u[2] <= Len(ring'[u[1]]) /\ ring'[u[1]][u[2]] = x BY <1>3, <2>1
  <2>3. CASE u[1] = b
    <3> PICK i : i = u[2] + 1 OBVIOUS
    <3>1. u[2] \in 1 .. n - 1 /\ i \in 2 .. n /\ i \in 1 .. Depth /\ i - 1 = u[2]
      BY <1>1, <1>2, <2>1, <2>2, <2>3
    <3>2. ring[b][i] = x BY <1>2, <2>2, <2>3, <3>1
    <3>3. <<b, i>> \in Buckets \X (1 .. Depth) /\ <<b, i>> # <<b, 1>> BY <3>1
    <3>4. <<b, i>> \in S
      <4> PICK v : v = <<b, i>> OBVIOUS
      <4>1. v \in Buckets \X (1 .. Depth) /\ v[1] = b /\ v[2] = i /\ v # <<b, 1>> BY <3>3
      <4>2. v[2] <= Len(ring[v[1]]) /\ ring[v[1]][v[2]] = x BY <3>1, <3>2, <4>1
      <4> QED BY <1>4, <4>1, <4>2
    <3>5. f[<<b, i>>] = u BY <2>1, <2>3, <3>1, <3>4
    <3> QED BY <3>4, <3>5
  <2>4. CASE u[1] # b
    <3>1. u \in S BY <1>2, <1>4, <2>1, <2>2, <2>4
    <3> QED BY <2>4, <3>1
  <2> QED BY <2>3, <2>4
<1>10. IsFiniteSet(S) BY SlotsFinite, FS_RemoveElement DEF S
<1>11. Cardinality(T) = Cardinality(S)
  <2>1. f \in Bijection(S, T) BY <1>7, <1>8, <1>9, Zenon DEF Bijection, Injection, Surjection, IsInjective
  <2>2. ExistsBijection(S, T) BY <2>1 DEF ExistsBijection
  <2> QED BY <1>10, <2>2, FS_Bijection
<1>12. Cardinality(S) = Cardinality(Slots(x)) - (IF Head(ring[b]) = x THEN 1 ELSE 0)
  <2>1. <<b, 1>> \in Slots(x) <=> Head(ring[b]) = x BY <1>1, <1>2, SlotsMember
  <2>2. Cardinality(S) = IF <<b, 1>> \in Slots(x) THEN Cardinality(Slots(x)) - 1
                                                  ELSE Cardinality(Slots(x))
    BY SlotsFinite, FS_RemoveElement DEF S
  <2> QED BY <2>1, <2>2, SlotsFinite
<1>13. Head(ring[b]) = x => Cardinality(Slots(x)) > 0
  <2>1. Head(ring[b]) = x => <<b, 1>> \in Slots(x) BY <1>1, <1>2, SlotsMember
  <2>2. <<b, 1>> \in Slots(x) => Cardinality(Slots(x)) # 0 BY SlotsFinite, FS_EmptySet
  <2> QED BY <2>1, <2>2, SlotsFinite
<1> QED BY <1>11, <1>12, <1>13 DEF T

LEMMA PendingOther ==
    ASSUME NEW s, at'[s] = at[s], item'[s] = item[s], left'[s] = left[s]
    PROVE  \A k, x : Pending(s, k, x)' <=> Pending(s, k, x)
BY DEF Pending, To

\* A step of t that sends no cell any further.
LEMMA CellsSame ==
    ASSUME CellsInv, NEW t \in Threads, UNCHANGED <<ring, free, count>>,
           \A s \in Threads \ {t} : at'[s] = at[s] /\ item'[s] = item[s] /\ left'[s] = left[s],
           \A c \in Cells, k \in Buckets : Pending(t, k, c)' <=> Pending(t, k, c)
    PROVE  CellsInv'
<1>1. ASSUME NEW c \in Cells PROVE CellAt(c)'
  <2>1. \A s \in Threads, k \in Buckets : Pending(s, k, c)' <=> Pending(s, k, c)
    BY PendingOther
  <2>2. Due(c)' = Due(c) BY <2>1, DueSame
  <2>3. Slots(c)' = Slots(c) BY SlotsSame
  <2> QED BY <2>2, <2>3 DEF CellsInv, CellAt
<1> QED BY <1>1 DEF CellsInv

LEMMA CellsClaim ==
    ASSUME BaseInv, CellsInv, NEW t \in Threads, ClaimCell(t)
    PROVE  CellsInv'
<1> USE DEF BaseInv
<1>1. /\ at[t] = "claim" /\ item[t] = Clear /\ left[t] # {} /\ UNCHANGED ring
      /\ left[t] \subseteq Buckets
  BY DEF ClaimCell, SendAt, SendTypes
<1>2. CASE at' = [at EXCEPT ![t] = "release"] /\ UNCHANGED <<free, count, item>>
           /\ left' = [left EXCEPT ![t] = {}]
  <2>1. \A c \in Cells, k \in Buckets : Pending(t, k, c)' <=> Pending(t, k, c)
    BY <1>1, <1>2 DEF Pending
  <2>2. \A s \in Threads \ {t} : at'[s] = at[s] /\ item'[s] = item[s] /\ left'[s] = left[s]
    BY <1>2 DEF SendTypes
  <2> QED BY <1>1, <1>2, <2>1, <2>2, CellsSame
<1>3. ASSUME NEW c \in Cells, free[c] > 0, UNCHANGED left,
             free' = [free EXCEPT ![c] = @ - 1],
             count' = [count EXCEPT ![c] = Cardinality(left[t])],
             item' = [item EXCEPT ![t] = c], at' = [at EXCEPT ![t] = "test"]
      PROVE  CellsInv'
  <2>1. \A s \in Threads \ {t} : at'[s] = at[s] /\ item'[s] = item[s] /\ left'[s] = left[s]
    BY <1>3 DEF SendTypes
  <2>2. ASSUME NEW d \in Cells, d # c PROVE CellAt(d)'
    <3>1. \A k \in Buckets : Pending(t, k, d)' <=> Pending(t, k, d)
      BY <1>1, <1>3, <2>2 DEF Pending, SendTypes
    <3>2. Due(d)' = Due(d) BY <2>1, <3>1, PendingOther, DueSame
    <3>3. Slots(d)' = Slots(d) BY <1>1, SlotsSame
    <3>4. free'[d] = free[d] /\ count'[d] = count[d] BY <1>3, <2>2 DEF SlabTypes
    <3> QED BY <3>2, <3>3, <3>4 DEF CellsInv, CellAt
  <2>3. CellAt(c)'
    <3>1. free[c] = 1 /\ Slots(c) = {} /\ Due(c) = {}
      <4>1. count[c] = 0 /\ free[c] = 1 BY <1>3 DEF CellsInv, CellAt
      <4>2. Cardinality(Slots(c)) = 0 /\ Cardinality(Due(c)) = 0
        BY <4>1, SlotsFinite, DueFinite DEF CellsInv, CellAt
      <4> QED BY <4>1, <4>2, SlotsFinite, DueFinite, FS_EmptySet
    <3>2. Cardinality(Slots(c)') = 0 BY <1>1, <3>1, SlotsSame, FS_EmptySet
    <3>3. Due(c)' = {t} \X left[t]
      <4>1. ASSUME NEW w \in Threads \X Buckets PROVE w \in Due(c)' <=> w \in {t} \X left[t]
        <5>1. w \in Due(c)' <=> Pending(w[1], w[2], c)' BY DEF Due, Pending
        <5>2. CASE w[1] = t
          <6>1. Pending(t, w[2], c)' <=> w[2] \in left[t]
            BY <1>3 DEF Pending, SendTypes
          <6> QED BY <5>1, <5>2, <6>1
        <5>3. CASE w[1] # t
          <6>1. ~Pending(w[1], w[2], c) BY <3>1, DueMember
          <6>2. ~Pending(w[1], w[2], c)' BY <2>1, <5>3, <6>1, PendingOther
          <6> QED BY <5>1, <5>3, <6>2
        <5> QED BY <5>2, <5>3
      <4>2. Due(c)' \subseteq Threads \X Buckets BY DEF Due
      <4>3. {t} \X left[t] \subseteq Threads \X Buckets BY <1>1
      <4> QED BY <4>1, <4>2, <4>3
    <3>4. IsFiniteSet(left[t])
      <4>1. IsFiniteSet(Buckets) BY FS_Interval
      <4> QED BY <1>1, <4>1, FS_Subset
    <3>5. Cardinality(Due(c)') = Cardinality(left[t])
      <4>1. IsFiniteSet({t}) /\ Cardinality({t}) = 1 BY FS_Singleton
      <4>2. Cardinality({t} \X left[t]) = 1 * Cardinality(left[t]) BY <3>4, <4>1, FS_Product
      <4> QED BY <3>3, <3>4, <4>2, FS_CardinalityType
    <3>6. Cardinality(left[t]) \in Nat /\ Cardinality(left[t]) # 0
      BY <1>1, <3>4, FS_CardinalityType, FS_EmptySet
    <3>7. free'[c] = 0 /\ count'[c] = Cardinality(left[t]) BY <1>3, <3>1 DEF SlabTypes
    <3> QED BY <3>2, <3>5, <3>6, <3>7 DEF CellAt
  <2> QED BY <1>1, <2>2, <2>3 DEF CellsInv
<1> QED BY <1>2, <1>3 DEF ClaimCell

\* A cell gives one of its references back; where it was counted, it is no more.
LEMMA CellsReleased ==
    ASSUME BaseInv, CellsInv, NEW c \in Cells, ReleaseCell(c),
           \A k \in Buckets : Len(ring'[k]) <= Depth,
           /\ (Cardinality(Slots(c)) + Cardinality(Due(c)))' =
                Cardinality(Slots(c)) + Cardinality(Due(c)) - 1
           /\ Cardinality(Slots(c)) + Cardinality(Due(c)) > 0,
           \A d \in Cells \ {c} :
             (Cardinality(Slots(d)) + Cardinality(Due(d)))' = Cardinality(Slots(d)) + Cardinality(Due(d))
    PROVE  CellsInv'
<1>1. \A d \in Cells \ {c} : CellAt(d)'
  <2> TAKE d \in Cells \ {c}
  <2>1. count'[d] = count[d] BY DEF ReleaseCell, BaseInv, SlabTypes
  <2>2. free'[d] = free[d]
    <3>1. CASE count[c] = 1 BY <3>1 DEF ReleaseCell, BaseInv, SlabTypes
    <3>2. CASE count[c] # 1 BY <3>2 DEF ReleaseCell
    <3> QED BY <3>1, <3>2
  <2> QED BY <2>1, <2>2 DEF CellsInv, CellAt
<1>2. CellAt(c)'
  <2> PICK n : n = Cardinality(Slots(c)) + Cardinality(Due(c)) OBVIOUS
  <2>1. n \in Nat /\ n > 0 /\ (Cardinality(Slots(c)) + Cardinality(Due(c)))' = n - 1
    BY SlotsFinite, DueFinite
  <2>2. count[c] = n /\ free[c] = 0 BY <2>1 DEF CellsInv, CellAt
  <2>3. count'[c] = n - 1 BY <2>1, <2>2 DEF ReleaseCell, BaseInv, SlabTypes
  <2>4. free'[c] = IF n = 1 THEN 1 ELSE 0
    <3>1. CASE n = 1 BY <2>2, <3>1 DEF ReleaseCell, BaseInv, SlabTypes
    <3>2. CASE n # 1 BY <2>2, <3>2 DEF ReleaseCell
    <3> QED BY <3>1, <3>2
  <2> QED BY <2>1, <2>3, <2>4 DEF CellAt
<1> QED BY <1>1, <1>2 DEF CellsInv

\* What t has to try is one target less.
LEMMA TargetTried ==
    ASSUME BaseInv, NEW t \in Threads, at[t] \in {"test", "put"}, NEW c \in Cells, item[t] = c,
           item' = item,
           \/ NextTarget(t)
           \/ left' = left /\ at' = [at EXCEPT ![t] = "wake"]
    PROVE  /\ Cardinality(Due(c)') = Cardinality(Due(c)) - 1 /\ Cardinality(Due(c)) > 0
           /\ \A d \in Cells \ {c} : Due(d)' = Due(d)
<1> USE DEF BaseInv
<1>1. left[t] # {} BY DEF SendAt
<1>2. To(t) \in left[t] /\ To(t) \in Buckets BY <1>1, TargetMade
<1>3. \A s \in Threads \ {t} : at'[s] = at[s] /\ item'[s] = item[s] /\ left'[s] = left[s]
  BY DEF NextTarget, SendTypes
<1>4. ASSUME NEW k \in Buckets PROVE Pending(t, k, c)' <=> Pending(t, k, c) /\ k # To(t)
  <2>1. CASE NextTarget(t)
    <3>1. left'[t] = left[t] \ {To(t)} /\ at'[t] = IF left[t] = {To(t)} THEN "release" ELSE "test"
      BY <2>1 DEF NextTarget, SendTypes
    <3>2. Pending(t, k, c) <=> k \in left[t] BY DEF Pending
    <3>3. at'[t] = "release" => left'[t] = {} BY <1>2, <3>1
    <3> QED BY <3>1, <3>2, <3>3 DEF Pending
  <2>2. CASE left' = left /\ at' = [at EXCEPT ![t] = "wake"]
    <3>1. at'[t] = "wake" /\ left'[t] = left[t] /\ To(t)' = To(t) BY <2>2 DEF SendTypes, To
    <3> QED BY <3>1 DEF Pending
  <2> QED BY <2>1, <2>2
<1>5. Pending(t, To(t), c) BY <1>2 DEF Pending
<1>6. \A s \in Threads, k \in Buckets :
        Pending(s, k, c)' <=> Pending(s, k, c) /\ <<s, k>> # <<t, To(t)>>
  BY <1>3, <1>4, PendingOther
<1>7. \A d \in Cells \ {c} : Due(d)' = Due(d)
  <2> TAKE d \in Cells \ {c}
  <2>1. \A k : ~Pending(t, k, d) /\ ~Pending(t, k, d)' BY DEF Pending
  <2> QED BY <1>3, <2>1, PendingOther, DueSame
<1>8. Cardinality(Due(c)') = Cardinality(Due(c)) - 1 /\ Cardinality(Due(c)) > 0
  BY <1>2, <1>5, <1>6, DueLess
<1> QED BY <1>7, <1>8

LEMMA CellsRefused ==
    ASSUME BaseInv, CellsInv, NEW t \in Threads, at[t] \in {"test", "put"}, Refused(t),
           UNCHANGED <<ring, item>>
    PROVE  CellsInv'
<1>1. CASE item[t] = Clear
  <2>1. UNCHANGED <<left, free, count>> /\ at' = [at EXCEPT ![t] = "wake"] BY <1>1, RefusedCases
  <2>2. \A c \in Cells, k \in Buckets : Pending(t, k, c)' <=> Pending(t, k, c)
    BY <1>1 DEF Pending
  <2>3. \A s \in Threads \ {t} : at'[s] = at[s] BY <2>1 DEF BaseInv, SendTypes
  <2> QED BY <2>1, <2>2, <2>3, CellsSame
<1>2. CASE item[t] # Clear
  <2> PICK c : c = item[t] OBVIOUS
  <2>1. c \in Cells /\ ReleaseCell(c) /\ NextTarget(t)
    BY <1>2, RefusedCases DEF BaseInv, SendTypes
  <2>2. /\ Cardinality(Due(c)') = Cardinality(Due(c)) - 1 /\ Cardinality(Due(c)) > 0
        /\ \A d \in Cells \ {c} : Due(d)' = Due(d)
    BY <2>1, TargetTried
  <2>3. \A d \in Cells : Slots(d)' = Slots(d) BY SlotsSame
  <2>4. Cardinality(Slots(c)) \in Nat /\ Cardinality(Due(c)) \in Nat BY SlotsFinite, DueFinite
  <2>5. /\ (Cardinality(Slots(c)) + Cardinality(Due(c)))' =
             Cardinality(Slots(c)) + Cardinality(Due(c)) - 1
        /\ Cardinality(Slots(c)) + Cardinality(Due(c)) > 0
    BY <2>1, <2>2, <2>3, <2>4
  <2> QED BY <2>1, <2>2, <2>3, <2>5, CellsReleased DEF CellsInv
<1> QED BY <1>1, <1>2

LEMMA CellsPut ==
    ASSUME BaseInv, CellsInv, NEW t \in Threads, Put(t)
    PROVE  CellsInv'
<1> USE DEF BaseInv
<1>1. left[t] # {} /\ at[t] = "put" /\ UNCHANGED item BY DEF Put, SendAt
<1>2. To(t) \in Buckets BY <1>1, TargetMade
<1>3. CASE Len(ring[To(t)]) < Depth
  <2>1. /\ ring' = [ring EXCEPT ![To(t)] = Append(@, item[t])] /\ at' = [at EXCEPT ![t] = "wake"]
        /\ UNCHANGED <<left, free, count>>
    BY <1>3 DEF Put
  <2>2. \A k \in Buckets : Len(ring'[k]) <= Depth
    <3> TAKE k \in Buckets
    <3>1. ring[k] \in Seq(Cells \cup {Clear}) /\ item[t] \in Cells \cup {Clear} BY RingTypes DEF SendTypes
    <3>2. k = To(t) => ring'[k] = Append(ring[k], item[t]) BY <1>2, <2>1 DEF BucketTypes
    <3>3. k # To(t) => ring'[k] = ring[k] BY <2>1 DEF BucketTypes
    <3> QED BY <1>3, <3>1, <3>2, <3>3 DEF CellsInv
  <2>3. ASSUME NEW c \in Cells
        PROVE  Cardinality(Slots(c)') = Cardinality(Slots(c)) + (IF c = item[t] THEN 1 ELSE 0)
    BY <1>2, <1>3, <2>1, SlotsMore DEF SendTypes
  <2>4. ASSUME NEW c \in Cells PROVE CellAt(c)'
    <3>1. Cardinality(Slots(c)) \in Nat /\ Cardinality(Due(c)) \in Nat BY SlotsFinite, DueFinite
    <3>2. CASE c = item[t]
      <4>1. Cardinality(Due(c)') = Cardinality(Due(c)) - 1 BY <1>1, <2>1, <3>2, TargetTried
      <4> QED BY <2>1, <2>3, <3>1, <3>2, <4>1 DEF CellsInv, CellAt
    <3>3. CASE c # item[t]
      <4>1. Due(c)' = Due(c)
        <5>1. \A k : ~Pending(t, k, c) /\ ~Pending(t, k, c)' BY <1>1, <3>3 DEF Pending
        <5>2. \A s \in Threads \ {t} : at'[s] = at[s] /\ item'[s] = item[s] /\ left'[s] = left[s]
          BY <1>1, <2>1 DEF SendTypes
        <5> QED BY <5>1, <5>2, PendingOther, DueSame
      <4> QED BY <2>1, <2>3, <3>1, <3>3, <4>1 DEF CellsInv, CellAt
    <3> QED BY <3>2, <3>3
  <2> QED BY <2>2, <2>4 DEF CellsInv
<1>4. CASE ~(Len(ring[To(t)]) < Depth)
  <2>1. Refused(t) /\ UNCHANGED ring BY <1>4 DEF Put
  <2> QED BY <1>1, <2>1, CellsRefused
<1> QED BY <1>3, <1>4

LEMMA CellsTestClosed ==
    ASSUME BaseInv, CellsInv, NEW t \in Threads, TestClosed(t)
    PROVE  CellsInv'
<1>1. at[t] = "test" /\ UNCHANGED <<ring, item>> BY DEF TestClosed
<1>2. CASE closed[To(t)]
  <2>1. Refused(t) BY <1>2 DEF TestClosed
  <2> QED BY <1>1, <2>1, CellsRefused
<1>3. CASE ~closed[To(t)]
  <2>1. at' = [at EXCEPT ![t] = "put"] /\ UNCHANGED <<left, free, count>>
    BY <1>3 DEF TestClosed
  <2>2. at'[t] = "put" /\ \A s \in Threads \ {t} : at'[s] = at[s]
    BY <2>1 DEF BaseInv, SendTypes
  <2>3. \A c \in Cells, k \in Buckets : Pending(t, k, c)' <=> Pending(t, k, c)
    BY <1>1, <2>1, <2>2 DEF Pending
  <2> QED BY <1>1, <2>1, <2>2, <2>3, CellsSame
<1> QED BY <1>2, <1>3

LEMMA CellsWake ==
    ASSUME BaseInv, CellsInv, NEW t \in Threads, Wake(t)
    PROVE  CellsInv'
<1> USE DEF BaseInv
<1>1. at[t] = "wake" /\ UNCHANGED <<ring, item, free, count>> /\ left[t] # {} /\ AfterWake(t)
  BY DEF Wake, SendAt
<1>2. To(t) \in left[t] BY <1>1, TargetMade
<1>3. CASE item[t] = Clear
  <2>1. at' = [at EXCEPT ![t] = "release"] /\ UNCHANGED left BY <1>1, <1>3 DEF AfterWake
  <2>2. \A s \in Threads \ {t} : at'[s] = at[s] BY <2>1 DEF SendTypes
  <2>3. \A c \in Cells, k \in Buckets : Pending(t, k, c)' <=> Pending(t, k, c)
    BY <1>1, <1>3 DEF Pending
  <2> QED BY <1>1, <2>1, <2>2, <2>3, CellsSame
<1>4. CASE item[t] # Clear
  <2>1. NextTarget(t) BY <1>1, <1>4 DEF AfterWake
  <2>2. /\ left'[t] = left[t] \ {To(t)} /\ at'[t] = IF left[t] = {To(t)} THEN "release" ELSE "test"
        /\ \A s \in Threads \ {t} : at'[s] = at[s] /\ left'[s] = left[s]
    BY <2>1 DEF NextTarget, SendTypes
  <2>3. at'[t] = "release" => left'[t] = {} BY <2>2
  <2>4. \A c \in Cells, k \in Buckets : Pending(t, k, c)' <=> Pending(t, k, c)
    BY <1>1, <2>2, <2>3 DEF Pending
  <2> QED BY <1>1, <2>2, <2>4, CellsSame
<1> QED BY <1>3, <1>4

LEMMA CellsPoll ==
    ASSUME BaseInv, CellsInv, NEW t \in Threads, NEW k \in Buckets,
           PollValue(t, k) \/ PollClear(t, k)
    PROVE  CellsInv'
<1> USE DEF BaseInv
<1>1. /\ ring[k] # <<>> /\ ring' = [ring EXCEPT ![k] = Tail(@)]
      /\ UNCHANGED <<at, item, left>>
  BY DEF PollValue, PollClear
<1>2. \A j \in Buckets : Len(ring'[j]) <= Depth
  <2> TAKE j \in Buckets
  <2>1. ring[j] \in Seq(Cells \cup {Clear}) BY RingTypes
  <2>2. j # k => ring'[j] = ring[j] BY <1>1 DEF BucketTypes
  <2>3. j = k => ring'[j] = Tail(ring[j]) /\ ring[j] # <<>> BY <1>1 DEF BucketTypes
  <2>4. Len(ring[j]) \in Nat /\ Len(ring[j]) <= Depth BY <2>1 DEF CellsInv
  <2>5. ring[j] # <<>> => Len(Tail(ring[j])) = Len(ring[j]) - 1 BY <2>1
  <2>6. CASE j = k
    <3>1. Len(ring'[j]) = Len(ring[j]) - 1 BY <2>3, <2>5, <2>6
    <3> QED BY <2>4, <3>1
  <2>7. CASE j # k BY <2>2, <2>4, <2>7
  <2> QED BY <2>6, <2>7
<1>3. \A c \in Cells : Due(c)' = Due(c) BY <1>1, PendingOther, DueSame
<1>4. ASSUME NEW c \in Cells
      PROVE  /\ Cardinality(Slots(c)') = Cardinality(Slots(c)) - (IF Head(ring[k]) = c THEN 1 ELSE 0)
             /\ Head(ring[k]) = c => Cardinality(Slots(c)) > 0
             /\ Cardinality(Slots(c)) \in Nat /\ Cardinality(Due(c)) \in Nat
  BY <1>1, SlotsLess, SlotsFinite, DueFinite DEF CellsInv
<1>5. CASE PollValue(t, k)
  <2> PICK c : c = Head(ring[k]) OBVIOUS
  <2>1. c \in Cells BY <1>1, <1>5, RingTypes DEF PollValue
  <2>2. ReleaseCell(c) BY <1>5 DEF PollValue
  <2>3. /\ (Cardinality(Slots(c)) + Cardinality(Due(c)))' =
             Cardinality(Slots(c)) + Cardinality(Due(c)) - 1
        /\ Cardinality(Slots(c)) + Cardinality(Due(c)) > 0
    BY <1>3, <1>4, <2>1
  <2>4. \A d \in Cells \ {c} :
          (Cardinality(Slots(d)) + Cardinality(Due(d)))' = Cardinality(Slots(d)) + Cardinality(Due(d))
    BY <1>3, <1>4
  <2> QED BY <1>2, <2>1, <2>2, <2>3, <2>4, CellsReleased
<1>6. CASE PollClear(t, k)
  <2>1. Head(ring[k]) = Clear /\ UNCHANGED <<free, count>> BY <1>6 DEF PollClear
  <2>2. \A c \in Cells : Cardinality(Slots(c)') = Cardinality(Slots(c))
    BY <1>4, <2>1
  <2> QED BY <1>2, <1>3, <2>1, <2>2 DEF CellsInv, CellAt
<1> QED BY <1>5, <1>6

LEMMA CellsStep ==
    ASSUME BaseInv, CellsInv, [Next]_vars
    PROVE  CellsInv'
<1> USE DEF BaseInv
<1>0. ASSUME UNCHANGED <<ring, free, count, at, item, left>> PROVE CellsInv'
  <2>1. \A c \in Cells : Due(c)' = Due(c) /\ Slots(c)' = Slots(c)
    BY <1>0, PendingOther, DueSame, SlotsSame
  <2> QED BY <1>0, <2>1 DEF CellsInv, CellAt
<1>1. ASSUME NEW t \in Threads, User(t) PROVE CellsInv'
  <2>1. CASE Emit(t) \/ DropAllListeners(t)
    <3>1. /\ UNCHANGED <<ring, free, count>> /\ item[t] = Clear
          /\ item' = item \/ item' = [item EXCEPT ![t] = Clear]
          /\ at' = at \/ \E a : at' = [at EXCEPT ![t] = a]
          /\ \E K : left' = [left EXCEPT ![t] = K]
      BY <2>1 DEF Emit, DropAllListeners, UserCode, SendAt
    <3>2. /\ item'[t] = Clear
          /\ \A s \in Threads \ {t} : at'[s] = at[s] /\ item'[s] = item[s] /\ left'[s] = left[s]
      BY <3>1 DEF SendTypes
    <3>3. \A c \in Cells, k \in Buckets : Pending(t, k, c)' <=> Pending(t, k, c)
      BY <3>1, <3>2 DEF Pending
    <3> QED BY <3>1, <3>2, <3>3, CellsSame
  <2> QED BY <1>0, <1>1, <2>1 DEF User, Listen, DropListener, StartShutdown
<1>2. ASSUME NEW t \in Threads, Send(t) PROVE CellsInv'
  <2>1. CASE ReleaseLeases(t)
    <3>1. /\ UNCHANGED <<ring, free, count>>
          /\ \E K : left' = [left EXCEPT ![t] = @ \ K]
          /\ item' = item \/ item' = [item EXCEPT ![t] = Clear]
          /\ \E a : at' = [at EXCEPT ![t] = a]
      BY <2>1 DEF ReleaseLeases
    <3>2. \A s \in Threads \ {t} : at'[s] = at[s] /\ item'[s] = item[s] /\ left'[s] = left[s]
      BY <3>1 DEF SendTypes
    <3>3. left[t] = {} \/ item[t] = Clear BY <2>1 DEF ReleaseLeases, SendAt
    <3>4. left'[t] \subseteq left[t] /\ item'[t] \in {Clear, item[t]} BY <3>1 DEF SendTypes
    <3>5. \A c \in Cells, k \in Buckets : Pending(t, k, c)' <=> Pending(t, k, c)
      BY <3>3, <3>4 DEF Pending
    <3> QED BY <3>1, <3>2, <3>5, CellsSame
  <2> QED BY <1>2, <2>1, CellsClaim, CellsTestClosed, CellsPut, CellsWake DEF Send
<1>3. ASSUME NEW t \in Threads, Dispatch(t) PROVE CellsInv'
  BY <1>0, <1>3, CellsPoll DEF Dispatch, WakeUp, HandlerYields, PassEnds, PollEmpty, PollRetires
<1>4. ASSUME NEW t \in Threads, EndShutdown(t) \/ GiveUpShutdown(t) PROVE CellsInv'
  BY <1>0, <1>4 DEF EndShutdown, GiveUpShutdown, LeaveShutdown
<1>5. CASE UNCHANGED vars BY <1>0, <1>5 DEF vars
<1> QED BY <1>1, <1>2, <1>3, <1>4, <1>5 DEF Next

LEMMA CellsInit == Init => CellsInv
<1> SUFFICES ASSUME Init PROVE CellsInv
    OBVIOUS
<1>1. ASSUME NEW c \in Cells PROVE CellAt(c)
  <2>1. Slots(c) = {} /\ Due(c) = {} BY DEF Init, Slots, Due
  <2> QED BY <2>1, FS_EmptySet DEF Init, CellAt
<1>2. \A k \in Buckets : Len(ring[k]) <= Depth BY DEF Init
<1> QED BY <1>1, <1>2 DEF CellsInv

\* A cell is free, once, exactly when no ring has still to consume it or be
\* tried, whatever rings refuse it and however many threads share the slab
\* (claimCell, releaseCellRef, pollCell).
THEOREM CellsAreCounted == Spec => []CellsCounted
<1>1. Init => BaseInv /\ CellsInv BY BaseInit, CellsInit
<1>2. BaseInv /\ CellsInv /\ [Next]_vars => (BaseInv /\ CellsInv)' BY BaseStep, CellsStep
<1>3. CellsInv => CellsCounted BY DEF CellsInv, CellAt, CellsCounted
<1> QED BY <1>1, <1>2, <1>3, PTL DEF Spec

-----------------------------------------------------------------------------
(* Wake-ups.                                                               *)

\* Thread t, which polls k, will look at it: it has been woken, or is about to
\* be, or makes a pass that reaches k or is followed by another.
LooksAt(t, k) ==
    \/ woken[t]
    \/ \E s \in Threads : at[s] = "wake" /\ To(s) = k
    \/ loop[t] \in {"polling", "handler"} /\ (k \in todo[t] \/ work[t])

WakeInv ==
    \A t \in Threads : \A k \in pollers[t] : ring[k] # <<>> \/ closed[k] => LooksAt(t, k)

\* A step of t that has nothing to do with the loops.
LEMMA WakeSame ==
    ASSUME WakeInv, NEW t \in Threads, UNCHANGED <<ring, closed, loopVars, woken>>, at[t] # "wake",
           \A s \in Threads \ {t} : at'[s] = at[s] /\ left'[s] = left[s]
    PROVE  WakeInv'
<1>1. \A s \in Threads \ {t} : To(s)' = To(s) BY DEF To
<1>2. ASSUME NEW u \in Threads, NEW k, LooksAt(u, k) PROVE LooksAt(u, k)'
  <2>1. ASSUME NEW s \in Threads, at[s] = "wake", To(s) = k PROVE at'[s] = "wake" /\ To(s)' = k
    BY <1>1, <2>1
  <2> QED BY <1>2, <2>1 DEF LooksAt
<1> QED BY <1>2 DEF WakeInv

LEMMA WakeListen ==
    ASSUME BaseInv, WakeInv, NEW t \in Threads, MakeBucket(t),
           UNCHANGED <<closed, ring, at, left, woken, work>>
    PROVE  WakeInv'
<1> PICK b : b = made + 1 OBVIOUS
<1>1. /\ b \in Buckets /\ pollers' = [pollers EXCEPT ![t] = @ \cup {b}]
      /\ \/ loop[t] = "off" /\ loop' = [loop EXCEPT ![t] = "polling"] /\ todo' = [todo EXCEPT ![t] = {b}]
         \/ loop' = loop /\ (todo' = todo \/ todo' = [todo EXCEPT ![t] = @ \cup {b}])
  BY DEF MakeBucket
<1>2. ~closed[b] /\ ring[b] = <<>>
  BY <1>1, MadeBuckets DEF BaseInv, BucketAt
<1>3. ASSUME NEW u \in Threads, NEW k \in pollers'[u], ring[k] # <<>> \/ closed[k]
      PROVE  LooksAt(u, k)'
  <2>1. k \in pollers[u]
    BY <1>1, <1>2, <1>3 DEF BaseInv, LoopTypes
  <2>2. LooksAt(u, k) BY <1>3, <2>1 DEF WakeInv
  <2>3. \A s \in Threads : To(s)' = To(s) BY DEF To
  <2>4. loop[u] \in {"polling", "handler"} => loop'[u] = loop[u] /\ todo[u] \subseteq todo'[u]
    <3>1. CASE u = t BY <1>1, <3>1 DEF BaseInv, LoopTypes
    <3>2. CASE u # t BY <1>1, <3>2 DEF BaseInv, LoopTypes
    <3> QED BY <3>1, <3>2
  <2> QED BY <2>2, <2>3, <2>4 DEF LooksAt
<1> QED BY <1>3 DEF WakeInv

LEMMA WakeShutdown ==
    ASSUME BaseInv, WakeInv, NEW t \in Threads, StartShutdown(t)
    PROVE  WakeInv'
<1> USE DEF BaseInv
<1>1. /\ closed' = [k \in Buckets |-> closed[k] \/ k \in Own(t)]
      /\ woken' = [u \in Threads |-> woken[u] \/ (u \in {t} /\ loop[u] # "off")]
      /\ UNCHANGED <<ring, pollers, loop, todo, work, at, left>>
  BY DEF StartShutdown, Fire
<1>2. ASSUME NEW u \in Threads, NEW k \in pollers[u], ring[k] # <<>> \/ closed'[k]
      PROVE  LooksAt(u, k)'
  <2>1. k \in Buckets /\ owner[k] = u /\ loop[u] # "off" BY DEF LoopAt, LoopTypes
  <2>2. CASE u = t BY <1>1, <2>1, <2>2 DEF LooksAt
  <2>3. CASE u # t
    <3>1. k \notin Own(t) BY <2>1, <2>3 DEF Own
    <3>2. LooksAt(u, k) BY <1>1, <1>2, <2>1, <3>1 DEF WakeInv
    <3>3. \A s \in Threads : To(s)' = To(s) BY <1>1 DEF To
    <3> QED BY <1>1, <3>2, <3>3 DEF LooksAt
  <2> QED BY <2>2, <2>3
<1> QED BY <1>1, <1>2 DEF WakeInv

\* To be woken next is what a sender does after it put something, or was refused.
LEMMA WakePut ==
    ASSUME BaseInv, WakeInv, NEW t \in Threads, TestClosed(t) \/ Put(t)
    PROVE  WakeInv'
<1> USE DEF BaseInv
<1>1. /\ UNCHANGED <<closed, loopVars, woken>> /\ left[t] # {} /\ at[t] \in {"test", "put"}
      /\ \A s \in Threads \ {t} : at'[s] = at[s] /\ left'[s] = left[s]
  <2>1. UNCHANGED <<closed, loopVars, woken>> /\ left[t] # {} /\ at[t] \in {"test", "put"}
    BY DEF TestClosed, Put, SendAt
  <2>2. \A s \in Threads \ {t} : at'[s] = at[s] /\ left'[s] = left[s]
    <3>1. CASE Refused(t) BY <3>1, RefusedCases DEF NextTarget, SendTypes
    <3>2. CASE TestClosed(t) /\ ~closed[To(t)] BY <3>2 DEF TestClosed, SendTypes
    <3>3. CASE Put(t) /\ Len(ring[To(t)]) < Depth BY <3>3 DEF Put, SendTypes
    <3> QED BY <3>1, <3>2, <3>3 DEF TestClosed, Put
  <2> QED BY <2>1, <2>2
<1>2. CASE UNCHANGED ring
  <2>1. at[t] # "wake" BY <1>1
  <2> QED BY <1>1, <1>2, <2>1, WakeSame
<1>3. CASE Put(t) /\ Len(ring[To(t)]) < Depth
  <2>1. /\ ring' = [ring EXCEPT ![To(t)] = Append(@, item[t])]
        /\ at' = [at EXCEPT ![t] = "wake"] /\ UNCHANGED left
    BY <1>3 DEF Put
  <2>2. ASSUME NEW u \in Threads, NEW k \in pollers[u], ring'[k] # <<>> \/ closed[k]
        PROVE  LooksAt(u, k)'
    <3>1. at'[t] = "wake" /\ To(t)' = To(t) BY <2>1 DEF SendTypes, To
    <3>2. CASE k = To(t) BY <3>1, <3>2 DEF LooksAt
    <3>3. CASE k # To(t)
      <4>1. ring'[k] = ring[k] BY <2>1, <3>3 DEF BucketTypes, LoopTypes
      <4>2. LooksAt(u, k) BY <2>2, <4>1 DEF WakeInv
      <4>3. \A s \in Threads : To(s)' = To(s) /\ (at[s] = "wake" => at'[s] = "wake")
        BY <1>1, <2>1, <3>1 DEF To
      <4> QED BY <1>1, <4>2, <4>3 DEF LooksAt
    <3> QED BY <3>2, <3>3
  <2> QED BY <1>1, <2>2 DEF WakeInv
<1> QED BY <1>2, <1>3 DEF TestClosed, Put

LEMMA WakeWakes ==
    ASSUME BaseInv, WakeInv, NEW t \in Threads, Wake(t)
    PROVE  WakeInv'
<1> USE DEF BaseInv
<1>1. /\ UNCHANGED <<ring, closed, loopVars>> /\ at[t] = "wake" /\ AfterWake(t)
      /\ woken' = [u \in Threads |-> woken[u] \/ (u \in {owner[To(t)]} /\ loop[u] # "off")]
  BY DEF Wake, Fire
<1>2. \A s \in Threads \ {t} : at'[s] = at[s] /\ left'[s] = left[s]
  <2>1. CASE item[t] = Clear BY <1>1, <2>1 DEF AfterWake, SendTypes
  <2>2. CASE item[t] # Clear BY <1>1, <2>2 DEF AfterWake, NextTarget, SendTypes
  <2> QED BY <2>1, <2>2
<1>3. ASSUME NEW u \in Threads, NEW k \in pollers[u], ring[k] # <<>> \/ closed[k]
      PROVE  LooksAt(u, k)'
  <2>1. k \in Buckets /\ owner[k] = u /\ loop[u] # "off" BY DEF LoopAt, LoopTypes
  <2>2. LooksAt(u, k) BY <1>3 DEF WakeInv
  <2>3. CASE k = To(t) BY <1>1, <2>1, <2>3 DEF LooksAt
  <2>4. CASE k # To(t)
    <3>1. \A s \in Threads : at[s] = "wake" /\ To(s) = k => at'[s] = "wake" /\ To(s)' = k
      BY <1>2, <2>4 DEF To
    <3> QED BY <1>1, <2>2, <3>1 DEF LooksAt
  <2> QED BY <2>3, <2>4
<1> QED BY <1>1, <1>3 DEF WakeInv

LEMMA WakeDispatch ==
    ASSUME BaseInv, WakeInv, NEW t \in Threads, Dispatch(t)
    PROVE  WakeInv'
<1> USE DEF BaseInv
<1>1. UNCHANGED <<closed, at, left>>
  BY DEF Dispatch, WakeUp, HandlerYields, PassEnds, PollValue, PollClear, PollEmpty, PollRetires
<1>2. \A s \in Threads : To(s)' = To(s) BY <1>1 DEF To
<1>3. ASSUME \A u \in Threads \ {t} : /\ woken'[u] = woken[u] /\ loop'[u] = loop[u]
                                      /\ todo'[u] = todo[u] /\ work'[u] = work[u]
                                      /\ pollers'[u] = pollers[u],
             \A u \in Threads \ {t} : \A k \in pollers[u] : ring'[k] = ring[k],
             \A k \in pollers'[t] : ring'[k] # <<>> \/ closed[k] => LooksAt(t, k)'
      PROVE  WakeInv'
  <2>1. ASSUME NEW u \in Threads, NEW k \in pollers'[u], ring'[k] # <<>> \/ closed[k]
        PROVE  LooksAt(u, k)'
    <3>1. CASE u = t BY <1>3, <2>1, <3>1
    <3>2. CASE u # t
      <4>1. k \in pollers[u] /\ ring'[k] = ring[k] BY <1>3, <3>2
      <4>2. LooksAt(u, k) BY <2>1, <4>1 DEF WakeInv
      <4> QED BY <1>1, <1>2, <1>3, <3>2, <4>2 DEF LooksAt
    <3> QED BY <3>1, <3>2
  <2> QED BY <1>1, <2>1 DEF WakeInv
<1>4. CASE WakeUp(t)
  <2>1. UNCHANGED <<ring, pollers>> BY <1>4 DEF WakeUp
  <2>2. \A u \in Threads \ {t} : /\ woken'[u] = woken[u] /\ loop'[u] = loop[u]
                                 /\ todo'[u] = todo[u] /\ work'[u] = work[u]
    BY <1>4 DEF WakeUp, LoopTypes
  <2>3. loop'[t] = "polling" /\ todo'[t] = pollers[t] BY <1>4 DEF WakeUp, LoopTypes
  <2>4. \A k \in pollers'[t] : LooksAt(t, k)' BY <2>1, <2>3 DEF LooksAt
  <2> QED BY <1>3, <2>1, <2>2, <2>4
<1>5. CASE HandlerYields(t)
  <2>1. UNCHANGED <<ring, pollers, todo, work, woken>> BY <1>5 DEF HandlerYields
  <2>2. loop'[t] = "polling" /\ \A u \in Threads \ {t} : loop'[u] = loop[u]
    BY <1>5 DEF HandlerYields, LoopTypes
  <2>3. ASSUME NEW k \in pollers[t], ring[k] # <<>> \/ closed[k] PROVE LooksAt(t, k)'
    <3>1. LooksAt(t, k) BY <2>3 DEF WakeInv
    <3> QED BY <1>1, <1>2, <2>1, <2>2, <3>1 DEF LooksAt
  <2> QED BY <1>3, <2>1, <2>2, <2>3
<1>6. CASE PassEnds(t)
  <2>1. UNCHANGED <<ring, pollers, woken>> /\ todo[t] = {} BY <1>6 DEF PassEnds
  <2>2. CASE work[t]
    <3>1. /\ todo'[t] = pollers[t] /\ loop'[t] = "polling"
          /\ \A u \in Threads \ {t} : loop'[u] = loop[u] /\ todo'[u] = todo[u] /\ work'[u] = work[u]
      BY <1>6, <2>2 DEF PassEnds, LoopTypes
    <3>2. \A k \in pollers'[t] : LooksAt(t, k)' BY <2>1, <3>1 DEF LooksAt
    <3> QED BY <1>3, <2>1, <3>1, <3>2
  <2>3. CASE ~work[t]
    <3>1. /\ UNCHANGED <<todo, work>> /\ \A u \in Threads \ {t} : loop'[u] = loop[u]
      BY <1>6, <2>3 DEF PassEnds, LoopTypes
    <3>2. ASSUME NEW k \in pollers[t], ring[k] # <<>> \/ closed[k] PROVE LooksAt(t, k)'
      <4>1. LooksAt(t, k) BY <3>2 DEF WakeInv
      <4> QED BY <1>1, <1>2, <2>1, <2>3, <4>1 DEF LooksAt
    <3> QED BY <1>3, <2>1, <3>1, <3>2
  <2> QED BY <2>2, <2>3
<1>7. ASSUME NEW k \in Buckets, Polls(t, k)
      PROVE  /\ todo'[t] = todo[t] \ {k} /\ k \in pollers[t] /\ loop[t] = "polling"
             /\ \A u \in Threads \ {t} : todo'[u] = todo[u] /\ k \notin pollers[u]
  <2>1. /\ todo'[t] = todo[t] \ {k} /\ k \in pollers[t] /\ loop[t] = "polling"
        /\ \A u \in Threads \ {t} : todo'[u] = todo[u]
    BY <1>7 DEF Polls, LoopTypes, LoopAt
  <2>2. owner[k] = t BY <2>1 DEF LoopAt
  <2>3. \A u \in Threads \ {t} : k \notin pollers[u] BY <2>2 DEF LoopAt
  <2> QED BY <2>1, <2>3
<1>8. ASSUME NEW k \in Buckets, PollValue(t, k) \/ PollClear(t, k) PROVE WakeInv'
  <2>1. /\ Polls(t, k) /\ ring' = [ring EXCEPT ![k] = Tail(@)]
        /\ work' = [work EXCEPT ![t] = TRUE] /\ UNCHANGED <<pollers, woken>>
        /\ loop' = loop \/ loop' = [loop EXCEPT ![t] = "handler"]
    BY <1>8 DEF PollValue, PollClear
  <2>2. /\ work'[t] /\ loop'[t] \in {"polling", "handler"}
        /\ \A u \in Threads \ {t} : loop'[u] = loop[u] /\ work'[u] = work[u]
    BY <1>7, <2>1 DEF LoopTypes
  <2>3. \A u \in Threads \ {t} : \A j \in pollers[u] : ring'[j] = ring[j]
    BY <1>7, <2>1 DEF BucketTypes, LoopTypes
  <2>4. \A j : LooksAt(t, j)' BY <2>2 DEF LooksAt
  <2> QED BY <1>3, <1>7, <2>1, <2>2, <2>3, <2>4
<1>9. ASSUME NEW k \in Buckets, PollEmpty(t, k) \/ PollRetires(t, k) PROVE WakeInv'
  <2>1. /\ Polls(t, k) /\ UNCHANGED <<ring, work, woken, loop>>
        /\ \/ ring[k] = <<>> /\ ~closed[k] /\ pollers' = pollers
           \/ pollers' = [pollers EXCEPT ![t] = @ \ {k}]
    BY <1>9 DEF PollEmpty, PollRetires
  <2>2. ASSUME NEW j \in pollers'[t], ring[j] # <<>> \/ closed[j] PROVE LooksAt(t, j)'
    <3>1. j \in pollers[t] /\ j # k BY <2>1, <2>2 DEF LoopTypes
    <3>2. LooksAt(t, j) BY <2>2, <3>1 DEF WakeInv
    <3> QED BY <1>1, <1>2, <1>7, <2>1, <3>1, <3>2 DEF LooksAt
  <2>3. \A u \in Threads \ {t} : pollers'[u] = pollers[u] BY <2>1 DEF LoopTypes
  <2> QED BY <1>3, <1>7, <2>1, <2>2, <2>3
<1> QED BY <1>4, <1>5, <1>6, <1>8, <1>9 DEF Dispatch

LEMMA WakeStep ==
    ASSUME BaseInv, WakeInv, [Next]_vars
    PROVE  WakeInv'
<1> USE DEF BaseInv
<1>0. ASSUME UNCHANGED <<ring, closed, loopVars, woken, at, left>> PROVE WakeInv'
  <2>1. \A s : To(s)' = To(s) BY <1>0 DEF To
  <2> QED BY <1>0, <2>1 DEF WakeInv, LooksAt
<1>1. ASSUME NEW t \in Threads, User(t) PROVE WakeInv'
  <2>1. CASE Listen(t)
    <3>1. CASE Own(t) # {} BY <1>0, <2>1, <3>1 DEF Listen
    <3>2. CASE MakeBucket(t) BY <2>1, <3>2, WakeListen DEF Listen
    <3> QED BY <2>1, <3>1, <3>2 DEF Listen
  <2>2. CASE Emit(t) \/ DropAllListeners(t)
    <3>1. /\ UNCHANGED <<ring, closed, loopVars, woken>> /\ at[t] # "wake"
          /\ at' = at \/ \E a : at' = [at EXCEPT ![t] = a]
          /\ \E K : left' = [left EXCEPT ![t] = K]
      BY <2>2 DEF Emit, DropAllListeners, UserCode
    <3>2. \A s \in Threads \ {t} : at'[s] = at[s] /\ left'[s] = left[s] BY <3>1 DEF SendTypes
    <3> QED BY <3>1, <3>2, WakeSame
  <2>3. ASSUME NEW h, DropListener(t, h) PROVE WakeInv' BY <1>0, <2>3 DEF DropListener
  <2> QED BY <1>1, <2>1, <2>2, <2>3, WakeShutdown DEF User
<1>2. ASSUME NEW t \in Threads, Send(t) PROVE WakeInv'
  <2>1. CASE ClaimCell(t) \/ ReleaseLeases(t)
    <3>1. /\ UNCHANGED <<ring, closed, loopVars, woken>> /\ at[t] # "wake"
          /\ \E a : at' = [at EXCEPT ![t] = a]
          /\ left' = left \/ \E K : left' = [left EXCEPT ![t] = K]
      BY <2>1 DEF ClaimCell, ReleaseLeases
    <3>2. \A s \in Threads \ {t} : at'[s] = at[s] /\ left'[s] = left[s] BY <3>1 DEF SendTypes
    <3> QED BY <3>1, <3>2, WakeSame
  <2> QED BY <1>2, <2>1, WakePut, WakeWakes DEF Send
<1>3. ASSUME NEW t \in Threads, EndShutdown(t) \/ GiveUpShutdown(t) PROVE WakeInv'
  BY <1>0, <1>3 DEF EndShutdown, GiveUpShutdown, LeaveShutdown
<1>4. CASE UNCHANGED vars BY <1>0, <1>4 DEF vars
<1> QED BY <1>1, <1>2, <1>3, <1>4, WakeDispatch DEF Next

\* No wake-up is lost, for any number of threads and buckets: one that arrives
\* while a pass is made is kept, and the pass that finds nothing is followed by
\* no other only if nothing came (fireBrokerSignal, drainBrokerPollers).
THEOREM NoWakeUpLost == Spec => []WakeNotLost
<1>1. Init => BaseInv /\ WakeInv
  <2>1. Init => WakeInv BY DEF Init, WakeInv
  <2> QED BY <2>1, BaseInit
<1>2. BaseInv /\ WakeInv /\ [Next]_vars => (BaseInv /\ WakeInv)' BY BaseStep, WakeStep
<1>3. WakeInv => WakeNotLost BY DEF WakeInv, LooksAt, WakeNotLost
<1> QED BY <1>1, <1>2, <1>3, PTL DEF Spec

-----------------------------------------------------------------------------
(* Control values.                                                         *)

InRing(k, x) == \E i \in 1 .. Len(ring[k]) : ring[k][i] = x

\* A control value is in ring k or will be tried on it.
ClearOn(k) == InRing(k, Clear) \/ \E s \in Threads : Pending(s, k, Clear)

DropAt(k) ==
    handlers[owner[k]] # {} /\ ~hasListeners[k] => owner[k] \in refused \/ ClearOn(k)

DropInv == \A k \in listed : DropAt(k)

\* What thread s has to try is what it had.
LEMMA ClearSame ==
    ASSUME NEW k, ClearOn(k), InRing(k, Clear) => InRing(k, Clear)',
           \A s \in Threads : Pending(s, k, Clear) => Pending(s, k, Clear)'
    PROVE  ClearOn(k)'
BY DEF ClearOn

\* A step that takes no listeners from a bucket and no control value from its ring.
LEMMA DropSame ==
    ASSUME BaseInv, DropInv, NEW t \in Threads, UNCHANGED <<listed, owner, hasListeners, ring, handlers>>,
           refused \subseteq refused',
           \A s \in Threads \ {t} : at'[s] = at[s] /\ item'[s] = item[s] /\ left'[s] = left[s],
           \A k \in listed : Pending(t, k, Clear) =>
               Pending(t, k, Clear)' \/ owner[k] \in refused'
    PROVE  DropInv'
<1>1. ASSUME NEW k \in listed, handlers[owner[k]] # {}, ~hasListeners[k], owner[k] \notin refused'
      PROVE  ClearOn(k)'
  <2>1. ClearOn(k) BY <1>1 DEF DropInv, DropAt
  <2>2. \A s \in Threads : Pending(s, k, Clear) => Pending(s, k, Clear)'
    BY <1>1, PendingOther
  <2>3. InRing(k, Clear) => InRing(k, Clear)' BY DEF InRing
  <2> QED BY <2>1, <2>2, <2>3, ClearSame
<1> QED BY <1>1 DEF DropInv, DropAt

\* Buckets of other threads, or buckets with the listeners they had.
LEMMA DropUser ==
    ASSUME BaseInv, DropInv, NEW t \in Threads, User(t)
    PROVE  DropInv'
<1> USE DEF BaseInv
<1>1. /\ ring' = ring /\ refused' = refused /\ left[t] = {}
      /\ \A s \in Threads \ {t} : at'[s] = at[s] /\ item'[s] = item[s] /\ left'[s] = left[s]
      /\ \A s \in Threads \ {t} : handlers'[s] = handlers[s]
  <2>1. ring' = ring /\ refused' = refused /\ at[t] = "free"
    BY DEF User, Listen, DropListener, Emit, DropAllListeners, StartShutdown, UserCode
  <2>2. left[t] = {} BY <2>1 DEF SendAt
  <2>3. \A s \in Threads \ {t} : at'[s] = at[s] /\ item'[s] = item[s] /\ left'[s] = left[s]
    <3>1. CASE Listen(t) \/ StartShutdown(t) \/ \E h : DropListener(t, h)
      BY <3>1 DEF Listen, DropListener, StartShutdown
    <3>2. CASE Emit(t) \/ DropAllListeners(t)
      <4>1. /\ at' = at \/ \E a : at' = [at EXCEPT ![t] = a]
            /\ item' = item \/ \E a : item' = [item EXCEPT ![t] = a]
            /\ \E K : left' = [left EXCEPT ![t] = K]
        BY <3>2 DEF Emit, DropAllListeners
      <4> QED BY <4>1 DEF SendTypes
    <3> QED BY <3>1, <3>2 DEF User
  <2>4. handlers' = handlers \/ \E H : handlers' = [handlers EXCEPT ![t] = H]
    BY DEF User, Listen, DropListener, Emit, DropAllListeners, StartShutdown
  <2> QED BY <2>1, <2>2, <2>3, <2>4 DEF LoopTypes
<1>2. ASSUME NEW k, ClearOn(k) PROVE ClearOn(k)'
  <2>1. \A s \in Threads : Pending(s, k, Clear) => Pending(s, k, Clear)'
    <3>1. ~Pending(t, k, Clear) BY <1>1 DEF Pending
    <3> QED BY <1>1, <3>1, PendingOther
  <2>2. InRing(k, Clear) => InRing(k, Clear)' BY <1>1 DEF InRing
  <2> QED BY <1>2, <2>1, <2>2, ClearSame
<1>3. ASSUME NEW k \in listed, owner'[k] = owner[k],
             handlers'[owner[k]] # {} /\ ~hasListeners'[k] =>
               handlers[owner[k]] # {} /\ ~hasListeners[k]
      PROVE  DropAt(k)'
  <2>1. DropAt(k) BY DEF DropInv
  <2> QED BY <1>1, <1>2, <1>3, <2>1 DEF DropAt
<1>4. ASSUME NEW k \in listed PROVE k \in Buckets /\ owner[k] \in Threads
  BY MadeBuckets DEF BucketAt
<1>5. CASE Listen(t)
  <2>1. CASE Own(t) # {} /\ UNCHANGED <<listed, owner>>
    <3>1. hasListeners' = [k \in Buckets |-> hasListeners[k] \/ k \in Own(t)]
      BY <1>5, <2>1 DEF Listen, MakeBucket
    <3>2. ASSUME NEW k \in listed PROVE DropAt(k)'
      <4>1. CASE owner[k] = t BY <1>4, <2>1, <3>1, <4>1 DEF DropAt, Own
      <4>2. CASE owner[k] # t
        <5>1. handlers'[owner[k]] = handlers[owner[k]] BY <1>1, <1>4, <4>2
        <5>2. hasListeners[k] => hasListeners'[k] BY <1>4, <3>1
        <5> QED BY <1>3, <2>1, <5>1, <5>2
      <4> QED BY <4>1, <4>2
    <3> QED BY <2>1, <3>2 DEF DropInv
  <2>2. CASE MakeBucket(t) /\ Own(t) = {}
    <3> PICK b : b = made + 1 OBVIOUS
    <3>1. /\ b \in Buckets /\ listed' = listed \cup {b} /\ owner' = [owner EXCEPT ![b] = t]
          /\ hasListeners' = [hasListeners EXCEPT ![b] = TRUE]
      BY <2>2 DEF MakeBucket
    <3>2. DropAt(b)' BY <3>1 DEF DropAt, BucketTypes
    <3>3. ASSUME NEW k \in listed, k # b PROVE DropAt(k)'
      <4>1. owner[k] # t BY <2>2 DEF Own
      <4>2. handlers'[owner[k]] = handlers[owner[k]] BY <1>1, <1>4, <4>1
      <4>3. hasListeners'[k] = hasListeners[k] /\ owner'[k] = owner[k]
        BY <1>4, <3>1, <3>3 DEF BucketTypes
      <4> QED BY <1>3, <4>2, <4>3
    <3> QED BY <3>1, <3>2, <3>3 DEF DropInv
  <2> QED BY <1>5, <2>1, <2>2 DEF Listen
<1>6. ASSUME NEW h \in handlers[t], DropListener(t, h) PROVE DropInv'
  <2>1. /\ UNCHANGED <<listed, owner>> /\ handlers' = [handlers EXCEPT ![t] = @ \ {h}]
        /\ hasListeners' = [k \in Buckets |->
               hasListeners[k] /\ (k \in Own(t) => handlers[t] # {h})]
    BY <1>6 DEF DropListener
  <2>2. ASSUME NEW k \in listed PROVE DropAt(k)'
    <3>1. CASE owner[k] = t /\ handlers[t] = {h}
      <4>1. handlers'[t] = {} BY <2>1, <3>1 DEF LoopTypes
      <4> QED BY <2>1, <3>1, <4>1 DEF DropAt
    <3>2. CASE ~(owner[k] = t /\ handlers[t] = {h})
      <4>1. hasListeners'[k] = hasListeners[k] BY <1>4, <2>1, <3>2 DEF Own, BucketTypes
      <4>2. handlers'[owner[k]] # {} => handlers[owner[k]] # {}
        BY <1>4, <2>1 DEF LoopTypes
      <4> QED BY <1>3, <2>1, <4>1, <4>2
    <3> QED BY <3>1, <3>2
  <2> QED BY <2>1, <2>2 DEF DropInv
<1>7. CASE Emit(t) \/ StartShutdown(t)
  <2>1. UNCHANGED <<owner, handlers, hasListeners>> /\ listed' \subseteq listed
    BY <1>7 DEF Emit, StartShutdown
  <2>2. \A k \in listed : DropAt(k)' BY <1>3, <2>1
  <2> QED BY <2>1, <2>2 DEF DropInv
<1>8. CASE DropAllListeners(t)
  <2> PICK K : K = Targets \ Own(t) OBVIOUS
  <2>1. /\ UNCHANGED <<listed, owner>> /\ handlers' = [handlers EXCEPT ![t] = {}]
        /\ item' = [item EXCEPT ![t] = Clear] /\ left' = [left EXCEPT ![t] = K]
        /\ K # {} => at' = [at EXCEPT ![t] = "test"]
    BY <1>8 DEF DropAllListeners
  <2>2. ASSUME NEW k \in listed PROVE DropAt(k)'
    <3>1. CASE owner[k] = t
      <4>1. handlers'[t] = {} BY <2>1 DEF LoopTypes
      <4> QED BY <2>1, <3>1, <4>1 DEF DropAt
    <3>2. CASE owner[k] # t /\ hasListeners[k]
      <4>1. k \in K BY <3>2 DEF Targets, Own
      <4>2. at'[t] = "test" /\ item'[t] = Clear /\ left'[t] = K BY <2>1, <4>1 DEF SendTypes
      <4>3. Pending(t, k, Clear)' BY <4>1, <4>2 DEF Pending
      <4> QED BY <4>3 DEF DropAt, ClearOn
    <3>3. CASE owner[k] # t /\ ~hasListeners[k]
      <4>1. handlers'[owner[k]] = handlers[owner[k]] BY <1>1, <1>4, <3>3
      <4> QED BY <1>3, <2>1, <3>3, <4>1
    <3> QED BY <3>1, <3>2, <3>3
  <2> QED BY <2>1, <2>2 DEF DropInv
<1> QED BY <1>5, <1>6, <1>7, <1>8 DEF User

\* A control value leaves what is due when it is in the ring, or was refused.
LEMMA DropPut ==
    ASSUME BaseInv, DropInv, NEW t \in Threads, Put(t), Len(ring[To(t)]) < Depth
    PROVE  DropInv'
<1> USE DEF BaseInv
<1>1. /\ ring' = [ring EXCEPT ![To(t)] = Append(@, item[t])] /\ at' = [at EXCEPT ![t] = "wake"]
      /\ UNCHANGED <<listed, owner, hasListeners, handlers, item, left, refused>>
      /\ at[t] = "put" /\ left[t] # {}
  BY DEF Put, SendAt
<1>2. To(t) \in Buckets BY <1>1, TargetMade
<1>3. ASSUME NEW k \in listed, ClearOn(k) PROVE ClearOn(k)'
  <2>1. k \in Buckets BY MadeBuckets
  <2>2. CASE k # To(t)
    <3>1. ring'[k] = ring[k] BY <1>1, <2>1, <2>2 DEF BucketTypes
    <3>2. Pending(t, k, Clear) => Pending(t, k, Clear)' BY <1>1, <2>2 DEF Pending, SendTypes, To
    <3>3. \A s \in Threads \ {t} : Pending(s, k, Clear) => Pending(s, k, Clear)'
      BY <1>1, PendingOther DEF SendTypes
    <3> QED BY <1>3, <3>1, <3>2, <3>3, ClearSame DEF InRing
  <2>3. CASE k = To(t)
    <3> PICK n : n = Len(ring[k]) OBVIOUS
    <3>1. /\ ring[k] \in Seq(Cells \cup {Clear}) /\ n \in Nat /\ item[t] \in Cells \cup {Clear}
          /\ ring'[k] = Append(ring[k], item[t])
      <4>1. ring[k] \in Seq(Cells \cup {Clear}) BY <2>1, RingTypes
      <4>2. n \in Nat BY <4>1
      <4>3. ring'[k] = Append(ring[k], item[t]) BY <1>1, <2>1, <2>3 DEF BucketTypes
      <4> QED BY <4>1, <4>2, <4>3 DEF SendTypes
    <3>2. /\ Len(ring'[k]) = n + 1 /\ ring'[k][n + 1] = item[t]
          /\ \A i \in 1 .. n : ring'[k][i] = ring[k][i]
      BY <3>1
    <3>3. InRing(k, Clear) => InRing(k, Clear)'
      <4>1. \A i \in 1 .. n : i \in 1 .. n + 1 BY <3>1
      <4> QED BY <3>2, <4>1 DEF InRing
    <3>4. CASE item[t] = Clear
      <4>1. n + 1 \in 1 .. n + 1 BY <3>1
      <4> QED BY <3>2, <3>4, <4>1 DEF InRing, ClearOn
    <3>5. CASE item[t] # Clear
      <4>1. ~Pending(t, k, Clear) BY <3>5 DEF Pending
      <4>2. \A s \in Threads \ {t} : Pending(s, k, Clear) => Pending(s, k, Clear)'
        BY <1>1, PendingOther DEF SendTypes
      <4> QED BY <1>3, <3>3, <4>1, <4>2, ClearSame
    <3> QED BY <3>4, <3>5
  <2> QED BY <2>2, <2>3
<1> QED BY <1>1, <1>3 DEF DropInv, DropAt

LEMMA DropSend ==
    ASSUME BaseInv, DropInv, NEW t \in Threads, Send(t)
    PROVE  DropInv'
<1> USE DEF BaseInv
<1>1. /\ UNCHANGED <<listed, owner, hasListeners, handlers>>
      /\ \A s \in Threads \ {t} : at'[s] = at[s] /\ item'[s] = item[s] /\ left'[s] = left[s]
  <2>1. UNCHANGED <<listed, owner, hasListeners, handlers>>
    BY DEF Send, ClaimCell, TestClosed, Put, Wake, ReleaseLeases
  <2>2. /\ \E a : at' = [at EXCEPT ![t] = a]
        /\ item' = item \/ \E a : item' = [item EXCEPT ![t] = a]
        /\ left' = left \/ \E K : left' = [left EXCEPT ![t] = K]
    <3>1. CASE ClaimCell(t) \/ ReleaseLeases(t) BY <3>1 DEF ClaimCell, ReleaseLeases
    <3>2. CASE TestClosed(t) BY <3>2 DEF TestClosed, Refused, NextTarget
    <3>3. CASE Put(t) BY <3>3 DEF Put, Refused, NextTarget
    <3>4. CASE Wake(t) BY <3>4 DEF Wake, AfterWake, NextTarget
    <3> QED BY <3>1, <3>2, <3>3, <3>4 DEF Send
  <2> QED BY <2>1, <2>2 DEF SendTypes
<1>2. CASE ClaimCell(t)
  <2>1. \A k : ~Pending(t, k, Clear) BY <1>2 DEF ClaimCell, Pending
  <2> QED BY <1>1, <1>2, <2>1, DropSame DEF ClaimCell
<1>3. CASE (TestClosed(t) \/ Put(t)) /\ UNCHANGED ring
  <2>1. item' = item /\ at[t] \in {"test", "put"} BY <1>3 DEF TestClosed, Put
  <2>2. \/ refused' = refused \cup {owner[To(t)]} /\ at' = [at EXCEPT ![t] = "wake"] /\ left' = left
        \/ item[t] # Clear /\ refused' = refused
        \/ at' = [at EXCEPT ![t] = "put"] /\ left' = left /\ refused' = refused
    <3>1. CASE Refused(t) BY <3>1, RefusedCases
    <3>2. CASE TestClosed(t) /\ ~closed[To(t)] BY <3>2 DEF TestClosed
    <3>3. CASE Put(t) /\ Len(ring[To(t)]) < Depth
      <4>1. left[t] # {} BY <2>1 DEF SendAt
      <4>2. To(t) \in Buckets BY <4>1, TargetMade
      <4>3. ring[To(t)] \in Seq(Cells \cup {Clear}) BY <4>2, RingTypes
      <4>4. item[t] \in Cells \cup {Clear} BY DEF SendTypes
      <4>5. Len(Append(ring[To(t)], item[t])) = Len(ring[To(t)]) + 1 /\ Len(ring[To(t)]) \in Nat
        BY <4>3, <4>4
      <4>6. ring' = [ring EXCEPT ![To(t)] = Append(@, item[t])] BY <3>3 DEF Put
      <4>7. ring'[To(t)] = Append(ring[To(t)], item[t]) BY <4>2, <4>6 DEF BucketTypes
      <4>8. Append(ring[To(t)], item[t]) = ring[To(t)] BY <1>3, <4>7
      <4>9. Len(ring[To(t)]) = Len(ring[To(t)]) + 1 BY <4>5, <4>8
      <4> QED BY <4>5, <4>9
    <3> QED BY <1>3, <3>1, <3>2, <3>3 DEF TestClosed, Put
  <2>3. ASSUME NEW k \in listed, Pending(t, k, Clear), owner[k] \notin refused'
        PROVE  Pending(t, k, Clear)'
    <3>1. item[t] = Clear BY <2>3 DEF Pending
    <3>2. left' = left /\ To(t)' = To(t) BY <2>2, <3>1 DEF To
    <3> QED BY <2>1, <2>2, <2>3, <3>1, <3>2 DEF Pending, SendTypes
  <2> QED BY <1>1, <1>3, <2>2, <2>3, DropSame
<1>4. CASE Wake(t)
  <2>1. /\ UNCHANGED <<ring, item, refused>> /\ at[t] = "wake"
        /\ item[t] = Clear => left' = left /\ at' = [at EXCEPT ![t] = "release"]
    BY <1>4 DEF Wake, AfterWake
  <2>2. ASSUME NEW k, Pending(t, k, Clear) PROVE Pending(t, k, Clear)'
    <3>1. left' = left /\ at'[t] = "release" /\ To(t)' = To(t)
      BY <2>1, <2>2 DEF Pending, To, SendTypes
    <3> QED BY <2>1, <2>2, <3>1 DEF Pending
  <2> QED BY <1>1, <2>1, <2>2, DropSame
<1>5. CASE ReleaseLeases(t)
  <2>1. /\ UNCHANGED <<ring, refused>> /\ at[t] = "release"
        /\ left[t] # {} => left' = [left EXCEPT ![t] = @ \ {To(t)}]
        /\ ~(left[t] \subseteq {To(t)}) => at' = [at EXCEPT ![t] = "test"] /\ UNCHANGED item
    BY <1>5 DEF ReleaseLeases
  <2>2. ASSUME NEW k, Pending(t, k, Clear) PROVE Pending(t, k, Clear)'
    <3>1. k \in left[t] /\ k # To(t) /\ item[t] = Clear BY <2>1, <2>2 DEF Pending
    <3>2. k \in left'[t] /\ at'[t] = "test" /\ item'[t] = Clear BY <2>1, <3>1 DEF SendTypes
    <3> QED BY <3>2 DEF Pending
  <2> QED BY <1>1, <2>1, <2>2, DropSame
<1>6. TestClosed(t) \/ Put(t) => UNCHANGED ring \/ (Put(t) /\ Len(ring[To(t)]) < Depth)
  BY DEF TestClosed, Put
<1> QED BY <1>2, <1>3, <1>4, <1>5, <1>6, DropPut DEF Send

\* The control value is taken from the ring by the thread that clears its table.
LEMMA DropDispatch ==
    ASSUME BaseInv, DropInv, NEW t \in Threads, Dispatch(t)
    PROVE  DropInv'
<1> USE DEF BaseInv
<1>1. UNCHANGED <<listed, owner, hasListeners, at, item, left, refused>>
  BY DEF Dispatch, WakeUp, HandlerYields, PassEnds, PollValue, PollClear, PollEmpty, PollRetires
<1>2. \A k : \A s \in Threads : Pending(s, k, Clear) => Pending(s, k, Clear)'
  BY <1>1, PendingOther
<1>3. CASE UNCHANGED <<ring, handlers>>
  BY <1>1, <1>2, <1>3, DropSame
<1>4. ASSUME NEW k \in Buckets, PollValue(t, k) \/ PollClear(t, k) PROVE DropInv'
  <2>1. /\ ring' = [ring EXCEPT ![k] = Tail(@)] /\ ring[k] # <<>>
        /\ \/ handlers' = handlers /\ Head(ring[k]) # Clear
           \/ handlers' = [handlers EXCEPT ![t] = {}]
        /\ k \in todo[t]
    BY <1>4 DEF PollValue, PollClear, Polls
  <2>2. owner[k] = t BY <2>1 DEF LoopAt
  <2>3. ASSUME NEW j \in listed, handlers'[owner[j]] # {}, InRing(j, Clear) PROVE InRing(j, Clear)'
    <3>1. j \in Buckets /\ owner[j] \in Threads BY MadeBuckets DEF BucketAt
    <3>2. CASE j # k
      <4>1. ring'[j] = ring[j] BY <2>1, <3>1, <3>2 DEF BucketTypes
      <4> QED BY <2>3, <4>1 DEF InRing
    <3>3. CASE j = k
      <4>1. Head(ring[k]) # Clear
        BY <2>1, <2>2, <2>3, <3>3 DEF LoopTypes
      <4> PICK r : r = ring[k] OBVIOUS
      <4>2. r \in Seq(Cells \cup {Clear}) /\ r # <<>> /\ ring'[k] = Tail(r)
        BY <2>1, RingTypes DEF BucketTypes
      <4>3. PICK i \in 1 .. Len(r) : r[i] = Clear BY <2>3, <3>3 DEF InRing
      <4>4. r[1] # Clear BY <4>1, <4>2
      <4>5. i - 1 \in 1 .. Len(Tail(r)) /\ Tail(r)[i - 1] = r[i]
        BY <4>2, <4>3, <4>4
      <4> QED BY <3>3, <4>2, <4>3, <4>5 DEF InRing
    <3> QED BY <3>2, <3>3
  <2>4. ASSUME NEW j \in listed, handlers'[owner[j]] # {}, ~hasListeners[j], owner[j] \notin refused
        PROVE  ClearOn(j)'
    <3>1. owner[j] \in Threads BY MadeBuckets DEF BucketAt
    <3>2. handlers[owner[j]] # {} BY <2>1, <2>4, <3>1 DEF LoopTypes
    <3>3. ClearOn(j) BY <2>4, <3>2 DEF DropInv, DropAt
    <3> QED BY <1>2, <2>3, <2>4, <3>3, ClearSame
  <2> QED BY <1>1, <2>4 DEF DropInv, DropAt
<1>5. ASSUME NEW k \in Buckets, PollEmpty(t, k) \/ PollRetires(t, k) PROVE DropInv'
  BY <1>3, <1>5 DEF PollEmpty, PollRetires
<1>6. CASE WakeUp(t) \/ HandlerYields(t) \/ PassEnds(t)
  BY <1>3, <1>6 DEF WakeUp, HandlerYields, PassEnds
<1> QED BY <1>4, <1>5, <1>6 DEF Dispatch

LEMMA DropStep ==
    ASSUME BaseInv, DropInv, [Next]_vars
    PROVE  DropInv'
<1>1. ASSUME UNCHANGED <<listed, owner, hasListeners, ring, handlers, refused, at, item, left>>
      PROVE  DropInv'
  <2>1. \A k : \A s \in Threads : Pending(s, k, Clear)' <=> Pending(s, k, Clear)
    BY <1>1, PendingOther
  <2>2. \A k : InRing(k, Clear)' <=> InRing(k, Clear) BY <1>1 DEF InRing
  <2> QED BY <1>1, <2>1, <2>2 DEF DropInv, DropAt, ClearOn
<1>2. ASSUME NEW t \in Threads, EndShutdown(t) \/ GiveUpShutdown(t) PROVE DropInv'
  BY <1>1, <1>2 DEF EndShutdown, GiveUpShutdown, LeaveShutdown
<1>3. CASE UNCHANGED vars BY <1>1, <1>3 DEF vars
<1> QED BY <1>2, <1>3, DropUser, DropSend, DropDispatch DEF Next

\* dropAllListeners reaches every thread whose ring takes its control value,
\* whatever else is in the rings and whoever listens again meanwhile.
THEOREM DropsReach == Spec => []DropReaches
<1>1. Init => BaseInv /\ CellsInv /\ DropInv
  <2>1. Init => DropInv BY DEF Init, DropInv
  <2> QED BY <2>1, BaseInit, CellsInit
<1>2. BaseInv /\ CellsInv /\ DropInv /\ [Next]_vars => (BaseInv /\ CellsInv /\ DropInv)'
  BY BaseStep, CellsStep, DropStep
<1>3. BaseInv /\ CellsInv /\ DropInv => DropReaches
  <2> SUFFICES ASSUME BaseInv, CellsInv, DropInv, NEW k \in listed, handlers[owner[k]] # {},
                      ~hasListeners[k], owner[k] \notin refused
               PROVE  \/ \E i \in 1 .. Depth : <<k, i>> \in Slots(Clear)
                      \/ \E s \in Threads : <<s, k>> \in Due(Clear)
    BY DEF DropReaches
  <2>1. k \in Buckets /\ ClearOn(k) BY MadeBuckets DEF DropInv, DropAt
  <2>2. CASE InRing(k, Clear)
    <3>1. PICK i \in 1 .. Len(ring[k]) : ring[k][i] = Clear BY <2>2 DEF InRing
    <3>2. Len(ring[k]) <= Depth /\ Len(ring[k]) \in Nat BY <2>1, RingTypes DEF CellsInv
    <3>3. i \in 1 .. Depth BY <3>2
    <3>4. <<k, i>> \in Slots(Clear) BY <2>1, <3>1, <3>2, <3>3 DEF Slots
    <3> QED BY <3>3, <3>4
  <2>3. ASSUME NEW s \in Threads, Pending(s, k, Clear) PROVE <<s, k>> \in Due(Clear)
    BY <2>1, <2>3 DEF Due, Pending
  <2> QED BY <2>1, <2>2, <2>3 DEF ClearOn
<1> QED BY <1>1, <1>2, <1>3, PTL DEF Spec

-----------------------------------------------------------------------------
(* The order in which a thread hears events.  Every bucket is a stream:    *)
(* what its owner has heard through it, then what waits in its ring, then  *)
(* the events that are on their way to it, one of each emitter.            *)

\* Thread s has still to try its event on ring k.
ComesTo(s, k) ==
    IF at[s] = "claim" THEN k \in left[s] ELSE item[s] # Clear /\ Pending(s, k, item[s])

Heard(k, i, e) == i \in 1 .. Len(heard[owner[k]]) /\ heard[owner[k]][i] = <<k, e>>
Waits(k, i, e) == i \in 1 .. Len(ring[k]) /\ ring[k][i] # Clear /\ event[ring[k][i]] = e
Comes(k, e) == \E s \in Threads : ComesTo(s, k) /\ e = <<s, sent[s]>>

Arrived(k, e) == \E i \in Nat : Heard(k, i, e) \/ Waits(k, i, e)
On(k, e) == Arrived(k, e) \/ Comes(k, e)

\* Event e is before f on the stream of k.
Ahead(k, e, f) ==
    \/ \E i, j \in Nat : Heard(k, i, e) /\ Heard(k, j, f) /\ i < j
    \/ \E i, j \in Nat : Heard(k, i, e) /\ Waits(k, j, f)
    \/ \E i, j \in Nat : Waits(k, i, e) /\ Waits(k, j, f) /\ i < j
    \/ Arrived(k, e) /\ Comes(k, f)

\* A stream has events of other threads, those of one emitter in order, and no
\* event that is on another stream of its owner.
StreamAt(k) ==
    /\ \A e : On(k, e) => e \in Events /\ e[2] <= sent[e[1]] /\ e[1] # owner[k]
    /\ \A e, f : Ahead(k, e, f) /\ e[1] = f[1] => e[2] < f[2]
    /\ \A e : \A j \in 1 .. made : owner[j] = owner[k] /\ j # k => ~(On(k, e) /\ On(j, e))

\* What a thread has heard came through one of its buckets, or was its own.
OwnAt(t, j) ==
    /\ heard[t][j][2] \in Events /\ heard[t][j][2][1] = t /\ heard[t][j][2][2] <= sent[t]
    /\ \A i \in 1 .. j - 1 : heard[t][i][1] = 0 => heard[t][i][2][2] < heard[t][j][2][2]

HeardAt(t) ==
    \A j \in 1 .. Len(heard[t]) :
        IF heard[t][j][1] = 0 THEN OwnAt(t, j)
                              ELSE heard[t][j][1] \in 1 .. made /\ owner[heard[t][j][1]] = t

\* The cell a thread sends holds its last event.
CurrentAt(s) ==
    \A k \in Buckets : at[s] # "claim" /\ ComesTo(s, k) => event[item[s]] = <<s, sent[s]>>

OrderInv ==
    /\ \A k \in 1 .. made : StreamAt(k)
    /\ \A t \in Threads : HeardAt(t) /\ CurrentAt(t)

\* A cell without references is in no ring, and nobody sends it.
Unused(c) ==
    /\ \A k \in Buckets : \A i \in 1 .. Len(ring[k]) : ring[k][i] # c
    /\ \A s \in Threads, k \in Buckets : ~Pending(s, k, c)

LEMMA NoReferences == BaseInv /\ CellsInv => \A c \in Cells : count[c] = 0 => Unused(c)
<1> SUFFICES ASSUME BaseInv, CellsInv, NEW c \in Cells, count[c] = 0 PROVE Unused(c)
    OBVIOUS
<1>1. Cardinality(Slots(c)) = 0 /\ Cardinality(Due(c)) = 0
  BY SlotsFinite, DueFinite DEF CellsInv, CellAt
<1>2. Slots(c) = {} /\ Due(c) = {} BY <1>1, SlotsFinite, DueFinite, FS_EmptySet
<1>3. ASSUME NEW k \in Buckets, NEW i \in 1 .. Len(ring[k]) PROVE ring[k][i] # c
  <2>1. Len(ring[k]) <= Depth /\ Len(ring[k]) \in Nat BY RingTypes DEF CellsInv
  <2>2. i \in 1 .. Depth /\ i <= Len(ring[k]) BY <2>1
  <2>3. <<k, i>> \in Slots(c) <=> ring[k][i] = c BY <2>2 DEF Slots
  <2> QED BY <1>2, <2>3
<1>4. ASSUME NEW s \in Threads, NEW k \in Buckets PROVE ~Pending(s, k, c)
  <2>1. <<s, k>> \in Due(c) <=> Pending(s, k, c) BY DEF Due, Pending
  <2> QED BY <1>2, <2>1
<1> QED BY <1>3, <1>4 DEF Unused

LEMMA NoReferencesNext == (BaseInv /\ CellsInv => \A c \in Cells : count[c] = 0 => Unused(c))'
BY NoReferences, PTL

\* What a cell holds changes with its last reference.
LEMMA ReleasedEvent ==
    ASSUME BaseInv, NEW c \in Cells, ReleaseCell(c), BaseInv', CellsInv'
    PROVE  \A d \in Cells : event'[d] = event[d] \/ Unused(d)'
<1>1. CASE count[c] = 1
  <2>1. event' = [event EXCEPT ![c] = <<>>] /\ count'[c] = 0
    BY <1>1 DEF ReleaseCell, BaseInv, SlabTypes
  <2>2. Unused(c)' BY <2>1, NoReferencesNext
  <2> QED BY <2>1, <2>2 DEF BaseInv, SlabTypes
<1>2. CASE count[c] # 1 BY <1>2 DEF ReleaseCell
<1> QED BY <1>1, <1>2

\* Streams that only lose events, the others in the order they had.
LEMMA StreamLess ==
    ASSUME BaseInv, OrderInv, made' = made, owner' = owner,
           \A s \in Threads : sent[s] <= sent'[s] /\ sent'[s] \in Nat,
           \A k \in 1 .. made : \A e : On(k, e)' => On(k, e),
           \A k \in 1 .. made : \A e, f : Ahead(k, e, f)' /\ e[1] = f[1] => Ahead(k, e, f)
    PROVE  \A k \in 1 .. made' : StreamAt(k)'
<1> SUFFICES ASSUME NEW k \in 1 .. made PROVE StreamAt(k)'
    OBVIOUS
<1>0. StreamAt(k) BY DEF OrderInv
<1>1. ASSUME NEW e, On(k, e)' PROVE e \in Events /\ e[2] <= sent'[e[1]] /\ e[1] # owner[k]
  <2>1. e \in Events /\ e[2] <= sent[e[1]] /\ e[1] # owner[k] BY <1>0, <1>1 DEF StreamAt
  <2>2. e[1] \in Threads /\ e[2] \in Nat BY <2>1 DEF Events
  <2>3. sent[e[1]] \in Nat /\ sent'[e[1]] \in Nat /\ sent[e[1]] <= sent'[e[1]]
    BY <2>2 DEF BaseInv, SendTypes
  <2> QED BY <2>1, <2>2, <2>3
<1>2. ASSUME NEW e, NEW f, Ahead(k, e, f)', e[1] = f[1] PROVE e[2] < f[2]
  BY <1>0, <1>2 DEF StreamAt
<1>3. ASSUME NEW e, NEW j \in 1 .. made, owner[j] = owner[k], j # k PROVE ~(On(k, e)' /\ On(j, e)')
  BY <1>0, <1>3 DEF StreamAt
<1> QED BY <1>1, <1>2, <1>3 DEF StreamAt

\* Nothing is heard.
LEMMA StreamMoves ==
    ASSUME BaseInv, OrderInv, UNCHANGED <<made, owner, heard>>,
           \A s \in Threads : sent[s] <= sent'[s] /\ sent'[s] \in Nat,
           \A k \in 1 .. made : \A i, e : Waits(k, i, e)' => Waits(k, i, e),
           \A k \in 1 .. made : \A e : Comes(k, e)' => Comes(k, e)
    PROVE  \A k \in 1 .. made' : StreamAt(k)'
<1>1. ASSUME NEW k \in 1 .. made, NEW e PROVE \A i : Heard(k, i, e)' <=> Heard(k, i, e)
  BY DEF Heard
<1>2. ASSUME NEW k \in 1 .. made, NEW e
      PROVE  (Arrived(k, e)' => Arrived(k, e)) /\ (On(k, e)' => On(k, e))
  BY <1>1, <1>2 DEF Arrived, On
<1>3. ASSUME NEW k \in 1 .. made, NEW e, NEW f, Ahead(k, e, f)' PROVE Ahead(k, e, f)
  BY <1>1, <1>2, <1>3 DEF Ahead
<1> QED BY <1>2, <1>3, StreamLess

\* What comes is what came, if thread t sends nothing more and the others do nothing.
LEMMA ComesLess ==
    ASSUME NEW t \in Threads,
           \A s \in Threads \ {t} : /\ at'[s] = at[s] /\ item'[s] = item[s] /\ left'[s] = left[s]
                                    /\ sent'[s] = sent[s],
           NEW k, ComesTo(t, k)' => ComesTo(t, k) /\ sent'[t] = sent[t]
    PROVE  /\ \A s \in Threads : ComesTo(s, k)' => ComesTo(s, k) /\ sent'[s] = sent[s]
           /\ \A e : Comes(k, e)' => Comes(k, e)
<1>1. ASSUME NEW s \in Threads, ComesTo(s, k)' PROVE ComesTo(s, k) /\ sent'[s] = sent[s]
  <2>1. CASE s = t BY <1>1, <2>1
  <2>2. CASE s # t BY <1>1, <2>2, PendingOther DEF ComesTo
  <2> QED BY <2>1, <2>2
<1>2. ASSUME NEW e, Comes(k, e)' PROVE Comes(k, e)
  BY <1>1, <1>2 DEF Comes
<1> QED BY <1>1, <1>2

LEMMA CurrentOther ==
    ASSUME OrderInv, BaseInv, NEW t \in Threads, CurrentAt(t)',
           \A s \in Threads \ {t} : /\ at'[s] = at[s] /\ item'[s] = item[s] /\ left'[s] = left[s]
                                    /\ sent'[s] = sent[s],
           \A c \in Cells : event'[c] = event[c] \/ Unused(c)'
    PROVE  \A s \in Threads : CurrentAt(s)'
<1>1. ASSUME NEW s \in Threads, s # t, NEW k \in Buckets, at'[s] # "claim", ComesTo(s, k)'
      PROVE  event'[item'[s]] = <<s, sent'[s]>>
  <2>1. ComesTo(s, k) /\ at[s] # "claim" /\ item'[s] = item[s] /\ sent'[s] = sent[s]
    BY <1>1, PendingOther DEF ComesTo
  <2>2. event[item[s]] = <<s, sent[s]>> BY <2>1 DEF OrderInv, CurrentAt
  <2>3. PICK c : c = item[s] OBVIOUS
  <2>4. c \in Cells /\ Pending(s, k, c)'
    BY <1>1, <2>1, <2>3 DEF BaseInv, SendTypes, ComesTo
  <2>5. ~Unused(c)' BY <2>4 DEF Unused
  <2> QED BY <2>1, <2>2, <2>3, <2>4, <2>5
<1> QED BY <1>1 DEF CurrentAt

\* Cells in rings hold what they held.
LEMMA WaitsKept ==
    ASSUME BaseInv', NEW k \in Buckets, \A c \in Cells : event'[c] = event[c] \/ Unused(c)'
    PROVE  \A i, e : Waits(k, i, e)' => /\ i \in 1 .. Len(ring'[k]) /\ ring'[k][i] # Clear
                                        /\ ring'[k][i] \in Cells /\ event[ring'[k][i]] = e
<1> SUFFICES ASSUME NEW i, NEW e, Waits(k, i, e)' PROVE ring'[k][i] \in Cells /\ event[ring'[k][i]] = e
    BY DEF Waits
<1>1. ring'[k] \in Seq(Cells \cup {Clear}) BY DEF BaseInv, BucketTypes
<1>2. i \in 1 .. Len(ring'[k]) /\ ring'[k][i] # Clear /\ event'[ring'[k][i]] = e BY DEF Waits
<1>3. ring'[k][i] \in Cells BY <1>1, <1>2
<1>4. PICK c : c = ring'[k][i] OBVIOUS
<1>5. ~Unused(c)' BY <1>2, <1>4 DEF Unused
<1> QED BY <1>2, <1>3, <1>4, <1>5

LEMMA HeardSame ==
    ASSUME OrderInv, BaseInv, UNCHANGED heard, made <= made', made' \in Nat,
           \A k \in 1 .. made : owner'[k] = owner[k],
           \A s \in Threads : sent[s] <= sent'[s] /\ sent'[s] \in Nat
    PROVE  \A t \in Threads : HeardAt(t)'
<1> SUFFICES ASSUME NEW t \in Threads, NEW j \in 1 .. Len(heard[t])
             PROVE  IF heard[t][j][1] = 0 THEN OwnAt(t, j)'
                    ELSE heard[t][j][1] \in 1 .. made' /\ owner'[heard[t][j][1]] = t
    BY DEF HeardAt
<1>1. HeardAt(t) BY DEF OrderInv
<1>2. CASE heard[t][j][1] = 0
  <2>1. OwnAt(t, j) BY <1>1, <1>2 DEF HeardAt
  <2>2. sent[t] \in Nat /\ sent'[t] \in Nat /\ sent[t] <= sent'[t] BY DEF BaseInv, SendTypes
  <2>3. heard[t][j][2][2] \in Nat BY <2>1 DEF OwnAt, Events
  <2> QED BY <1>2, <2>1, <2>2, <2>3 DEF OwnAt
<1>3. CASE heard[t][j][1] # 0
  <2>1. heard[t][j][1] \in 1 .. made /\ owner[heard[t][j][1]] = t BY <1>1, <1>3 DEF HeardAt
  <2>2. heard[t][j][1] \in 1 .. made' BY <2>1, MadeBuckets
  <2> QED BY <1>3, <2>1, <2>2
<1> QED BY <1>2, <1>3

\* A step that sends, and puts nothing into a ring.
LEMMA OrderSends ==
    ASSUME BaseInv, OrderInv, BaseInv', NEW t \in Threads, UNCHANGED <<made, owner, heard, ring>>,
           \A s \in Threads \ {t} : /\ at'[s] = at[s] /\ item'[s] = item[s] /\ left'[s] = left[s]
                                    /\ sent'[s] = sent[s],
           sent[t] <= sent'[t],
           \A k \in Buckets : ComesTo(t, k)' => ComesTo(t, k) /\ sent'[t] = sent[t],
           \A c \in Cells : event'[c] = event[c] \/ Unused(c)' \/ Unused(c),
           CurrentAt(t)', \A s \in Threads \ {t} : CurrentAt(s)'
    PROVE  OrderInv'
<1>1. \A s \in Threads : sent[s] <= sent'[s] /\ sent'[s] \in Nat
  BY DEF BaseInv, SendTypes
<1>2. \A t_1 \in Threads : HeardAt(t_1)'
  <2>1. made \in Nat BY MadeBuckets
  <2> QED BY <1>1, <2>1, HeardSame
<1>3. ASSUME NEW k \in 1 .. made, NEW i, NEW e, Waits(k, i, e)' PROVE Waits(k, i, e)
  <2>1. k \in Buckets BY MadeBuckets
  <2>2. ring[k] \in Seq(Cells \cup {Clear}) BY <2>1, RingTypes
  <2>3. i \in 1 .. Len(ring[k]) /\ ring[k][i] # Clear /\ event'[ring[k][i]] = e BY <1>3 DEF Waits
  <2>4. PICK c \in Cells : c = ring[k][i] BY <2>2, <2>3
  <2>5. ~Unused(c) /\ ~Unused(c)' BY <2>1, <2>3, <2>4 DEF Unused
  <2> QED BY <2>3, <2>4, <2>5 DEF Waits
<1>4. ASSUME NEW k \in 1 .. made PROVE \A e : Comes(k, e)' => Comes(k, e)
  <2>1. k \in Buckets BY MadeBuckets
  <2> QED BY <2>1, ComesLess
<1>5. \A k \in 1 .. made' : StreamAt(k)' BY <1>1, <1>3, <1>4, StreamMoves
<1> QED BY <1>2, <1>5 DEF OrderInv

\* Nothing of this changes.
LEMMA OrderSame ==
    ASSUME OrderInv, UNCHANGED <<made, owner, heard, ring, event, at, item, left, sent>>
    PROVE  OrderInv'
<1>1. \A s, k, x : Pending(s, k, x)' <=> Pending(s, k, x) BY PendingOther
<1>2. \A s, k : ComesTo(s, k)' <=> ComesTo(s, k) BY <1>1 DEF ComesTo
<1>3. \A k, e : Comes(k, e)' <=> Comes(k, e) BY <1>2 DEF Comes
<1>4. \A k, i, e : (Heard(k, i, e)' <=> Heard(k, i, e)) /\ (Waits(k, i, e)' <=> Waits(k, i, e))
  BY DEF Heard, Waits
<1>5. \A k, e : Arrived(k, e)' <=> Arrived(k, e) BY <1>4 DEF Arrived
<1>6. \A k, e : On(k, e)' <=> On(k, e) BY <1>3, <1>5 DEF On
<1>7. ASSUME NEW k, NEW e, NEW f, Ahead(k, e, f)' PROVE Ahead(k, e, f)
  BY <1>3, <1>4, <1>5, <1>7 DEF Ahead
<1>8. \A k \in 1 .. made : StreamAt(k)' BY <1>6, <1>7 DEF OrderInv, StreamAt
<1>9. \A t \in Threads : HeardAt(t)' BY DEF OrderInv, HeardAt, OwnAt
<1>10. \A t \in Threads : CurrentAt(t)' BY <1>2 DEF OrderInv, CurrentAt
<1> QED BY <1>8, <1>9, <1>10 DEF OrderInv

\* The stream of a new bucket is empty.
LEMMA OrderListen ==
    ASSUME BaseInv, OrderInv, BaseInv', NEW t \in Threads, MakeBucket(t),
           UNCHANGED <<heard, ring, event, at, item, left, sent>>
    PROVE  OrderInv'
<1> PICK b : b = made + 1 OBVIOUS
<1>1. /\ b \in Buckets /\ made' = b /\ owner' = [owner EXCEPT ![b] = t] /\ made \in Nat
      /\ made <= made' /\ made' \in Nat
  BY MadeBuckets DEF MakeBucket
<1>2. \A k \in 1 .. made : owner'[k] = owner[k] /\ k # b BY <1>1, MadeBuckets DEF BaseInv, BucketTypes
<1>3. \A s \in Threads : sent[s] <= sent'[s] /\ sent'[s] \in Nat BY DEF BaseInv, SendTypes
<1>4. \A u \in Threads : HeardAt(u)' BY <1>1, <1>2, <1>3, HeardSame
<1>5. \A s, k : ComesTo(s, k)' <=> ComesTo(s, k) BY PendingOther DEF ComesTo
<1>6. \A k, e : Comes(k, e)' <=> Comes(k, e) BY <1>5 DEF Comes
<1>7. ASSUME NEW k \in 1 .. made, NEW i, NEW e
      PROVE  (Heard(k, i, e)' <=> Heard(k, i, e)) /\ (Waits(k, i, e)' <=> Waits(k, i, e))
  BY <1>2 DEF Heard, Waits
<1>8. ASSUME NEW k \in 1 .. made, NEW e
      PROVE  (Arrived(k, e)' <=> Arrived(k, e)) /\ (On(k, e)' <=> On(k, e))
  BY <1>6, <1>7 DEF Arrived, On
<1>9. ASSUME NEW k \in 1 .. made, NEW e, NEW f, Ahead(k, e, f)' PROVE Ahead(k, e, f)
  BY <1>6, <1>7, <1>8, <1>9 DEF Ahead
<1>10. ASSUME NEW e PROVE ~On(b, e)'
  <2>1. ring[b] = <<>> BY <1>1 DEF BaseInv, BucketAt
  <2>2. \A i : ~Waits(b, i, e)' BY <2>1 DEF Waits
  <2>3. ASSUME NEW i, Heard(b, i, e)' PROVE FALSE
    <3>1. owner'[b] = t BY <1>1 DEF BaseInv, BucketTypes
    <3>2. i \in 1 .. Len(heard[t]) /\ heard[t][i][1] = b BY <2>3, <3>1 DEF Heard
    <3>3. b # 0 BY <1>1
    <3>4. HeardAt(t) BY DEF OrderInv
    <3>5. b \in 1 .. made BY <3>2, <3>3, <3>4 DEF HeardAt
    <3> QED BY <1>1, <3>5
  <2>4. ASSUME NEW s \in Threads, ComesTo(s, b) PROVE FALSE
    <3>1. b \in left[s] BY <2>4 DEF ComesTo, Pending
    <3>2. b \in 1 .. made BY <3>1 DEF BaseInv, SendAt
    <3> QED BY <1>1, <3>2
  <2> QED BY <1>5, <2>2, <2>3, <2>4 DEF On, Arrived, Comes
<1>11. ASSUME NEW e, NEW f, Ahead(b, e, f)' PROVE FALSE
  BY <1>10, <1>11 DEF Ahead, On, Arrived
<1>12. StreamAt(b)' BY <1>10, <1>11 DEF StreamAt
<1>13. ASSUME NEW k \in 1 .. made PROVE StreamAt(k)'
  <2>1. StreamAt(k) BY DEF OrderInv
  <2>2. \A e : On(k, e)' => e \in Events /\ e[2] <= sent'[e[1]] /\ e[1] # owner'[k]
    BY <1>2, <1>8, <2>1 DEF StreamAt
  <2>3. \A e, f : Ahead(k, e, f)' /\ e[1] = f[1] => e[2] < f[2] BY <1>9, <2>1 DEF StreamAt
  <2>4. ASSUME NEW e, NEW j \in 1 .. b, owner'[j] = owner'[k], j # k PROVE ~(On(k, e)' /\ On(j, e)')
    <3>1. CASE j = b BY <1>10, <3>1
    <3>2. CASE j # b
      <4>1. j \in 1 .. made BY <1>1, <3>2
      <4> QED BY <1>2, <1>8, <2>1, <2>4, <4>1 DEF StreamAt
    <3> QED BY <3>1, <3>2
  <2> QED BY <1>1, <2>2, <2>3, <2>4 DEF StreamAt
<1>14. \A k \in 1 .. b : k \in 1 .. made \/ k = b BY <1>1
<1>15. \A u \in Threads : CurrentAt(u)' BY <1>5 DEF OrderInv, CurrentAt
<1> QED BY <1>1, <1>4, <1>12, <1>13, <1>14, <1>15 DEF OrderInv

\* A new event goes to the end of the streams it is for, one of each thread.
LEMMA OrderEmit ==
    ASSUME BaseInv, OrderInv, BaseInv', NEW t \in Threads, Emit(t)
    PROVE  OrderInv'
<1> PICK K : K = Targets \ Own(t) OBVIOUS
<1> PICK n : n = sent[t] + 1 OBVIOUS
<1> PICK x : x = <<t, n>> OBVIOUS
<1>1. /\ UNCHANGED <<made, owner, ring, event, item>> /\ at[t] = "free" /\ t \in Emitting
      /\ sent' = [sent EXCEPT ![t] = @ + 1] /\ sent[t] < MaxSends
      /\ left' = [left EXCEPT ![t] = K]
      /\ at' = IF K = {} THEN at ELSE [at EXCEPT ![t] = "claim"]
      /\ heard' = heard \/ heard' = [heard EXCEPT ![t] = Append(@, <<0, x>>)]
  BY DEF Emit, UserCode
<1>2. /\ sent[t] \in Nat /\ n \in Nat /\ sent'[t] = n /\ x \in Events /\ x[1] = t /\ x[2] = n
      /\ \A s \in Threads \ {t} : sent'[s] = sent[s]
  <2>1. sent[t] \in Nat /\ n \in 1 .. MaxSends BY <1>1 DEF BaseInv, SendTypes
  <2>2. x \in Events BY <1>1, <2>1 DEF Events
  <2> QED BY <1>1, <2>1, <2>2 DEF BaseInv, SendTypes
<1>3. \A k \in K : k \in listed /\ owner[k] # t BY DEF Targets, Own
<1>4. ASSUME NEW k \in Buckets, ComesTo(t, k) PROVE FALSE
  <2>1. left[t] = {} BY <1>1 DEF BaseInv, SendAt
  <2> QED BY <1>4, <2>1 DEF ComesTo, Pending
<1>5. ASSUME NEW k \in Buckets, ComesTo(t, k)' PROVE k \in K /\ at'[t] = "claim"
  <2>1. left'[t] = K BY <1>1 DEF BaseInv, SendTypes
  <2>2. k \in K BY <1>5, <2>1 DEF ComesTo, Pending
  <2> QED BY <1>1, <2>2 DEF BaseInv, SendTypes
<1>6. \A s \in Threads \ {t} : /\ at'[s] = at[s] /\ item'[s] = item[s] /\ left'[s] = left[s]
                               /\ sent'[s] = sent[s]
  BY <1>1 DEF BaseInv, SendTypes
<1>7. ASSUME NEW k \in Buckets, NEW e, Comes(k, e)' PROVE Comes(k, e) \/ (k \in K /\ e = x)
  <2>1. PICK s \in Threads : ComesTo(s, k)' /\ e = <<s, sent'[s]>> BY <1>7 DEF Comes
  <2>2. CASE s = t BY <1>2, <1>5, <2>1, <2>2
  <2>3. CASE s # t BY <1>6, <2>1, <2>3, PendingOther DEF ComesTo, Comes
  <2> QED BY <2>2, <2>3
<1>8. ASSUME NEW k \in 1 .. made, NEW i, NEW e, Heard(k, i, e)' PROVE Heard(k, i, e)
  <2>1. k \in Buckets /\ k # 0 /\ owner[k] \in Threads BY MadeBuckets DEF BaseInv, BucketAt
  <2>2. CASE heard' = heard \/ owner[k] # t BY <1>1, <1>8, <2>1, <2>2 DEF Heard, BaseInv, HeardTypes
  <2>3. CASE owner[k] = t /\ heard' = [heard EXCEPT ![t] = Append(@, <<0, x>>)]
    <3> PICK h : h = heard[t] OBVIOUS
    <3>1. h \in Seq((0 .. MaxBuckets) \X (Events \cup {<<>>})) BY DEF BaseInv, HeardTypes
    <3>2. heard'[t] = Append(h, <<0, x>>) BY <2>3 DEF BaseInv, HeardTypes
    <3>3. i \in 1 .. Len(Append(h, <<0, x>>)) /\ Append(h, <<0, x>>)[i] = <<k, e>>
      BY <1>1, <1>8, <2>3, <3>2 DEF Heard
    <3>4. Append(h, <<0, x>>)[Len(h) + 1] = <<0, x>> BY <3>1
    <3>5. i # Len(h) + 1 BY <2>1, <3>3, <3>4
    <3>6. i \in 1 .. Len(h) /\ h[i] = <<k, e>> BY <3>1, <3>3, <3>5
    <3> QED BY <2>3, <3>6 DEF Heard
  <2> QED BY <1>1, <2>2, <2>3
<1>9. \A k, i, e : Waits(k, i, e)' <=> Waits(k, i, e) BY <1>1 DEF Waits
<1>10. ASSUME NEW k \in 1 .. made, NEW e, Arrived(k, e)' PROVE Arrived(k, e)
  BY <1>8, <1>9, <1>10 DEF Arrived
<1>11. ASSUME NEW k \in 1 .. made, NEW e, On(k, e)' PROVE On(k, e) \/ (k \in K /\ e = x)
  BY <1>7, <1>10, <1>11, MadeBuckets DEF On
<1>12. ASSUME NEW k \in 1 .. made, NEW e, NEW f, Ahead(k, e, f)'
       PROVE  Ahead(k, e, f) \/ (Arrived(k, e) /\ f = x)
  <2>1. CASE Arrived(k, e)' /\ Comes(k, f)'
    BY <1>7, <1>10, <2>1, MadeBuckets DEF Ahead
  <2>2. CASE ~(Arrived(k, e)' /\ Comes(k, f)') BY <1>8, <1>9, <1>12, <2>2 DEF Ahead
  <2> QED BY <2>1, <2>2
<1>13. ASSUME NEW k \in 1 .. made, NEW e, On(k, e) PROVE e \in Events /\ e[2] <= sent[e[1]] /\ e[1] # owner[k]
  BY <1>13 DEF OrderInv, StreamAt
<1>14. ASSUME NEW k \in 1 .. made PROVE StreamAt(k)'
  <2>1. ASSUME NEW e, On(k, e)' PROVE e \in Events /\ e[2] <= sent'[e[1]] /\ e[1] # owner'[k]
    <3>1. CASE On(k, e)
      <4>1. e \in Events /\ e[2] <= sent[e[1]] /\ e[1] # owner[k] BY <1>13, <3>1
      <4>2. e[1] \in Threads /\ e[2] \in Nat BY <4>1 DEF Events
      <4>3. sent[e[1]] \in Nat BY <4>2 DEF BaseInv, SendTypes
      <4>4. sent'[e[1]] = sent[e[1]] \/ (e[1] = t /\ sent'[e[1]] = sent[e[1]] + 1)
        BY <1>2, <4>2
      <4> QED BY <1>1, <4>1, <4>2, <4>3, <4>4
    <3>2. CASE k \in K /\ e = x BY <1>1, <1>2, <1>3, <3>2
    <3> QED BY <1>11, <2>1, <3>1, <3>2
  <2>2. ASSUME NEW e, NEW f, Ahead(k, e, f)', e[1] = f[1] PROVE e[2] < f[2]
    <3>1. CASE Ahead(k, e, f) BY <2>2, <3>1 DEF OrderInv, StreamAt
    <3>2. CASE Arrived(k, e) /\ f = x
      <4>1. e \in Events /\ e[2] <= sent[t] BY <1>2, <1>13, <2>2, <3>2 DEF On
      <4>2. e[2] \in Nat BY <4>1 DEF Events
      <4> QED BY <1>2, <3>2, <4>1, <4>2
    <3> QED BY <1>12, <2>2, <3>1, <3>2
  <2>3. ASSUME NEW e, NEW j \in 1 .. made, owner[j] = owner[k], j # k, On(k, e)', On(j, e)'
        PROVE  FALSE
    <3>1. ~(On(k, e) /\ On(j, e)) BY <2>3 DEF OrderInv, StreamAt
    <3>2. CASE e = x
      <4>1. ~(x[2] <= sent[t]) BY <1>2
      <4>2. ~On(k, x) /\ ~On(j, x) BY <1>2, <1>13, <4>1
      <4>3. k \in K /\ j \in K BY <1>11, <2>3, <3>2, <4>2
      <4> QED BY <1>3, <2>3, <4>3 DEF BaseInv, OneListed
    <3>3. CASE e # x BY <1>11, <2>3, <3>1, <3>3
    <3> QED BY <3>2, <3>3
  <2> QED BY <1>1, <2>1, <2>2, <2>3 DEF StreamAt
<1>15. ASSUME NEW u \in Threads PROVE HeardAt(u)'
  <2>1. HeardAt(u) BY DEF OrderInv
  <2>2. sent[u] \in Nat /\ sent'[u] \in Nat /\ sent[u] <= sent'[u] BY <1>2 DEF BaseInv, SendTypes
  <2>3. ASSUME NEW j \in 1 .. Len(heard[u]), heard[u][j][1] = 0
        PROVE  /\ heard[u][j][2] \in Events /\ heard[u][j][2][1] = u
               /\ heard[u][j][2][2] \in Nat /\ heard[u][j][2][2] <= sent[u] /\ heard[u][j][2][2] <= sent'[u]
               /\ \A i \in 1 .. j - 1 : heard[u][i][1] = 0 => heard[u][i][2][2] < heard[u][j][2][2]
    <3>1. OwnAt(u, j) BY <2>1, <2>3 DEF HeardAt
    <3>2. heard[u][j][2][2] \in Nat BY <3>1 DEF OwnAt, Events
    <3> QED BY <2>2, <3>1, <3>2 DEF OwnAt
  <2>4. CASE heard'[u] = heard[u]
    <3>1. ASSUME NEW j \in 1 .. Len(heard'[u]), heard'[u][j][1] = 0 PROVE OwnAt(u, j)'
      BY <2>3, <2>4, <3>1 DEF OwnAt
    <3> QED BY <1>1, <2>1, <2>4, <3>1 DEF HeardAt
  <2>5. CASE u = t /\ heard' = [heard EXCEPT ![t] = Append(@, <<0, x>>)]
    <3> PICK h : h = heard[t] OBVIOUS
    <3> PICK g : g = heard'[t] OBVIOUS
    <3>1. h \in Seq((0 .. MaxBuckets) \X (Events \cup {<<>>})) BY DEF BaseInv, HeardTypes
    <3>2. g = Append(h, <<0, x>>) BY <2>5 DEF BaseInv, HeardTypes
    <3>3. /\ Len(h) \in Nat /\ Len(g) = Len(h) + 1 /\ g[Len(h) + 1] = <<0, x>>
          /\ \A j \in 1 .. Len(h) : g[j] = h[j]
      BY <3>1, <3>2
    <3>4. ASSUME NEW j \in 1 .. Len(g), g[j][1] = 0 PROVE OwnAt(u, j)'
      <4>1. CASE j = Len(h) + 1
        <5>1. g[j][2] = x BY <3>3, <4>1
        <5>2. ASSUME NEW i \in 1 .. j - 1, g[i][1] = 0 PROVE g[i][2][2] < n
          <6>1. i \in 1 .. Len(h) /\ g[i] = h[i] BY <3>3, <4>1
          <6>2. h[i][2][2] \in Nat /\ h[i][2][2] <= sent[t] BY <2>3, <2>5, <5>2, <6>1
          <6> QED BY <1>2, <6>1, <6>2
        <5>3. /\ g[j][2] \in Events /\ g[j][2][1] = t /\ g[j][2][2] <= sent'[t]
              /\ \A i \in 1 .. j - 1 : g[i][1] = 0 => g[i][2][2] < g[j][2][2]
          BY <1>2, <5>1, <5>2
        <5> QED BY <2>5, <5>3 DEF OwnAt
      <4>2. CASE j # Len(h) + 1
        <5>1. j \in 1 .. Len(h) /\ g[j] = h[j] BY <3>3, <4>2
        <5>2. \A i \in 1 .. j - 1 : g[i] = h[i] BY <3>3, <5>1
        <5> QED BY <2>3, <2>5, <3>4, <5>1, <5>2 DEF OwnAt
      <4> QED BY <4>1, <4>2
    <3>5. ASSUME NEW j \in 1 .. Len(g), g[j][1] # 0 PROVE g[j][1] \in 1 .. made /\ owner[g[j][1]] = u
      <4>1. g[Len(h) + 1][1] = 0 BY <3>3
      <4>2. j \in 1 .. Len(h) /\ g[j] = h[j] BY <3>3, <3>5, <4>1
      <4> QED BY <2>1, <2>5, <3>5, <4>2 DEF HeardAt
    <3> QED BY <1>1, <2>5, <3>4, <3>5 DEF HeardAt
  <2>6. heard'[u] = heard[u] \/ (u = t /\ heard' = [heard EXCEPT ![t] = Append(@, <<0, x>>)])
    BY <1>1 DEF BaseInv, HeardTypes
  <2> QED BY <2>4, <2>5, <2>6
<1>16. CurrentAt(t)' BY <1>5 DEF CurrentAt
<1>17. \A s \in Threads : CurrentAt(s)' BY <1>1, <1>6, <1>16, CurrentOther
<1> QED BY <1>1, <1>14, <1>15, <1>17 DEF OrderInv

LEMMA OrderDropAll ==
    ASSUME BaseInv, OrderInv, BaseInv', NEW t \in Threads, DropAllListeners(t)
    PROVE  OrderInv'
<1> PICK K : K = Targets \ Own(t) OBVIOUS
<1>1. /\ UNCHANGED <<made, owner, ring, heard, event>>
      /\ sent' = [sent EXCEPT ![t] = @ + 1] /\ left' = [left EXCEPT ![t] = K]
      /\ item' = [item EXCEPT ![t] = Clear] /\ at[t] = "free"
      /\ at' = at \/ at' = [at EXCEPT ![t] = "test"]
  BY DEF DropAllListeners, UserCode
<1>2. item'[t] = Clear /\ at'[t] # "claim" BY <1>1 DEF BaseInv, SendTypes
<1>3. \A k : ~ComesTo(t, k)' BY <1>2 DEF ComesTo
<1>4. \A s \in Threads \ {t} : /\ at'[s] = at[s] /\ item'[s] = item[s] /\ left'[s] = left[s]
                               /\ sent'[s] = sent[s]
  BY <1>1 DEF BaseInv, SendTypes
<1>5. CurrentAt(t)' BY <1>3 DEF CurrentAt
<1>6. \A s \in Threads : CurrentAt(s)' BY <1>1, <1>4, <1>5, CurrentOther
<1>7. sent[t] <= sent'[t] BY <1>1 DEF BaseInv, SendTypes
<1> QED BY <1>1, <1>3, <1>4, <1>6, <1>7, OrderSends

LEMMA OrderClaim ==
    ASSUME BaseInv, CellsInv, OrderInv, BaseInv', NEW t \in Threads, ClaimCell(t)
    PROVE  OrderInv'
<1>1. at[t] = "claim" /\ UNCHANGED <<made, owner, ring, heard, sent>>
  BY DEF ClaimCell
<1>2. \/ \E c \in Cells : /\ free[c] > 0 /\ event' = [event EXCEPT ![c] = <<t, sent[t]>>]
                          /\ item' = [item EXCEPT ![t] = c] /\ at' = [at EXCEPT ![t] = "test"]
                          /\ left' = left
      \/ /\ at' = [at EXCEPT ![t] = "release"] /\ left' = [left EXCEPT ![t] = {}]
         /\ UNCHANGED <<event, item>>
  BY DEF ClaimCell
<1>3. \A s \in Threads \ {t} : /\ at'[s] = at[s] /\ item'[s] = item[s] /\ left'[s] = left[s]
                               /\ sent'[s] = sent[s]
  BY <1>1, <1>2 DEF BaseInv, SendTypes
<1>4. ASSUME NEW k, ComesTo(t, k)' PROVE ComesTo(t, k)
  <2>1. k \in left'[t] /\ left'[t] \subseteq left[t]
    BY <1>2, <1>4 DEF ComesTo, Pending, BaseInv, SendTypes
  <2> QED BY <1>1, <2>1 DEF ComesTo
<1>5. CASE UNCHANGED <<event, item>> /\ left' = [left EXCEPT ![t] = {}] 
  <2>1. left'[t] = {} BY <1>5 DEF BaseInv, SendTypes
  <2>2. \A k : ~ComesTo(t, k)' BY <2>1 DEF ComesTo, Pending
  <2>3. CurrentAt(t)' BY <2>2 DEF CurrentAt
  <2>4. \A s \in Threads : CurrentAt(s)' BY <1>3, <1>5, <2>3, CurrentOther
  <2>5. sent[t] <= sent'[t] BY <1>1 DEF BaseInv, SendTypes
  <2> QED BY <1>1, <1>3, <1>5, <2>2, <2>4, <2>5, OrderSends
<1>6. ASSUME NEW c \in Cells, free[c] > 0, event' = [event EXCEPT ![c] = <<t, sent[t]>>],
             item' = [item EXCEPT ![t] = c]
      PROVE  OrderInv'
  <2>1. count[c] = 0 BY <1>6 DEF CellsInv, CellAt
  <2>2. Unused(c) BY <2>1, NoReferences
  <2>3. \A d \in Cells : event'[d] = event[d] \/ Unused(d) BY <1>6, <2>2 DEF BaseInv, SlabTypes
  <2>4. event'[c] = <<t, sent[t]>> /\ item'[t] = c BY <1>6 DEF BaseInv, SlabTypes, SendTypes
  <2>5. CurrentAt(t)' BY <1>1, <2>4 DEF CurrentAt
  <2>6. ASSUME NEW s \in Threads, s # t PROVE CurrentAt(s)'
    <3>1. ASSUME NEW k \in Buckets, at'[s] # "claim", ComesTo(s, k)'
          PROVE  event'[item'[s]] = <<s, sent'[s]>>
      <4>1. ComesTo(s, k) /\ at[s] # "claim" /\ item'[s] = item[s] /\ sent'[s] = sent[s]
        BY <1>3, <2>6, <3>1, PendingOther DEF ComesTo
      <4>2. event[item[s]] = <<s, sent[s]>> BY <4>1 DEF OrderInv, CurrentAt
      <4>3. Pending(s, k, item[s]) /\ item[s] \in Cells BY <4>1 DEF ComesTo, BaseInv, SendTypes
      <4>4. ~Unused(item[s]) BY <4>3 DEF Unused
      <4> QED BY <2>3, <4>1, <4>2, <4>3, <4>4
    <3> QED BY <3>1 DEF CurrentAt
  <2>7. sent[t] <= sent'[t] BY <1>1 DEF BaseInv, SendTypes
  <2> QED BY <1>1, <1>3, <1>4, <2>3, <2>5, <2>6, <2>7, OrderSends
<1> QED BY <1>2, <1>5, <1>6

\* The thread goes on with what it sends, or has tried a target.
LEMMA OrderTries ==
    ASSUME BaseInv, CellsInv, OrderInv, BaseInv', CellsInv', NEW t \in Threads,
           \/ (TestClosed(t) \/ Put(t)) /\ UNCHANGED ring
           \/ Wake(t) \/ ReleaseLeases(t)
    PROVE  OrderInv'
<1>1. /\ UNCHANGED <<made, owner, heard, ring, sent>> /\ at[t] \in {"test", "put", "wake", "release"}
      /\ item' = item \/ item' = [item EXCEPT ![t] = Clear]
  BY DEF TestClosed, Put, Wake, ReleaseLeases
<1>2. /\ at' = [at EXCEPT ![t] = at'[t]] /\ left' = [left EXCEPT ![t] = left'[t]]
      /\ at'[t] # "claim"
      /\ left'[t] # {} /\ item'[t] # Clear =>
           \/ left'[t] = left[t] /\ at[t] \in {"test", "put"}
           \/ left'[t] = left[t] \ {To(t)} /\ at'[t] = "test"
  <2>1. CASE TestClosed(t) /\ ~closed[To(t)]
    BY <2>1 DEF TestClosed, BaseInv, SendTypes
  <2>2. CASE Refused(t) /\ item[t] = Clear
    <3>1. item'[t] = Clear BY <1>1, <2>2 DEF BaseInv, SendTypes
    <3> QED BY <2>2, <3>1, RefusedCases DEF BaseInv, SendTypes
  <2>3. CASE Refused(t) /\ item[t] # Clear
    <3>1. NextTarget(t) BY <2>3, RefusedCases
    <3> QED BY <3>1, ToLeft DEF NextTarget, BaseInv, SendTypes
  <2>4. CASE Wake(t)
    <3>1. CASE item[t] = Clear
      <4>1. at' = [at EXCEPT ![t] = "release"] /\ left' = left /\ item' = item
        BY <2>4, <3>1 DEF Wake, AfterWake
      <4> QED BY <3>1, <4>1 DEF BaseInv, SendTypes
    <3>2. CASE item[t] # Clear
      <4>1. NextTarget(t) BY <2>4, <3>2 DEF Wake, AfterWake
      <4> QED BY <4>1, ToLeft DEF NextTarget, BaseInv, SendTypes
    <3> QED BY <3>1, <3>2
  <2>5. CASE ReleaseLeases(t)
    <3>1. left[t] # {} => item[t] = Clear BY <2>5 DEF ReleaseLeases, BaseInv, SendAt
    <3>2. /\ \E a \in {"free", "test"} : at' = [at EXCEPT ![t] = a]
          /\ \E L : left' = [left EXCEPT ![t] = @ \ L]
      BY <2>5 DEF ReleaseLeases
    <3>3. left'[t] \subseteq left[t] BY <3>2 DEF BaseInv, SendTypes
    <3>4. item'[t] # Clear => item[t] # Clear BY <1>1 DEF BaseInv, SendTypes
    <3> QED BY <3>1, <3>2, <3>3, <3>4 DEF BaseInv, SendTypes
  <2>6. CASE Put(t) /\ Len(ring[To(t)]) < Depth
    <3>1. left' = left /\ at' = [at EXCEPT ![t] = "wake"] /\ at[t] = "put"
      BY <2>6 DEF Put
    <3> QED BY <3>1 DEF BaseInv, SendTypes
  <2> QED BY <2>1, <2>2, <2>3, <2>4, <2>5, <2>6 DEF TestClosed, Put
<1>3. ASSUME NEW k, ComesTo(t, k)' PROVE ComesTo(t, k) /\ item'[t] = item[t]
  <2>1. k \in left'[t] /\ item'[t] # Clear /\ (at'[t] \in {"wake", "release"} => k # To(t)')
    BY <1>2, <1>3 DEF ComesTo, Pending
  <2>2. item'[t] = item[t] BY <1>1, <2>1 DEF BaseInv, SendTypes
  <2>3. left'[t] = left[t] => To(t)' = To(t) BY DEF To
  <2>4. k \in left[t] /\ (at[t] \in {"wake", "release"} => k # To(t)) BY <1>2, <2>1, <2>3
  <2> QED BY <1>1, <2>1, <2>2, <2>4 DEF ComesTo, Pending
<1>4. \A s \in Threads \ {t} : /\ at'[s] = at[s] /\ item'[s] = item[s] /\ left'[s] = left[s]
                               /\ sent'[s] = sent[s]
  BY <1>1, <1>2 DEF BaseInv, SendTypes
<1>5. \A c \in Cells : event'[c] = event[c] \/ Unused(c)'
  <2>1. CASE UNCHANGED event BY <2>1
  <2>2. CASE item[t] # Clear /\ ReleaseCell(item[t])
    <3>1. item[t] \in Cells BY <2>2 DEF BaseInv, SendTypes
    <3> QED BY <2>2, <3>1, ReleasedEvent
  <2>3. UNCHANGED event \/ (item[t] # Clear /\ ReleaseCell(item[t]))
    BY RefusedOr, RefusedCases DEF Wake, ReleaseLeases
  <2> QED BY <2>1, <2>2, <2>3
<1>6. CurrentAt(t)'
  <2>1. ASSUME NEW k \in Buckets, ComesTo(t, k)' PROVE event'[item'[t]] = <<t, sent'[t]>>
    <3>1. ComesTo(t, k) /\ item'[t] = item[t] /\ sent'[t] = sent[t] BY <1>1, <1>3, <2>1
    <3>2. event[item[t]] = <<t, sent[t]>> BY <1>1, <3>1 DEF OrderInv, CurrentAt
    <3>3. PICK c : c = item'[t] OBVIOUS
    <3>4. c \in Cells /\ Pending(t, k, c)' BY <1>2, <2>1, <3>3 DEF ComesTo, BaseInv, SendTypes
    <3>5. ~Unused(c)' BY <3>4 DEF Unused
    <3> QED BY <1>5, <3>1, <3>2, <3>3, <3>4, <3>5
  <2> QED BY <2>1 DEF CurrentAt
<1>7. \A s \in Threads : CurrentAt(s)' BY <1>4, <1>5, <1>6, CurrentOther
<1>8. sent[t] <= sent'[t] BY <1>1 DEF BaseInv, SendTypes
<1> QED BY <1>1, <1>3, <1>4, <1>5, <1>7, <1>8, OrderSends

\* An event that came is the last in the ring.
LEMMA OrderPut ==
    ASSUME BaseInv, OrderInv, BaseInv', NEW t \in Threads, Put(t), Len(ring[To(t)]) < Depth
    PROVE  OrderInv'
<1> PICK b : b = To(t) OBVIOUS
<1> PICK n : n = Len(ring[b]) OBVIOUS
<1> PICK x : x = <<t, sent[t]>> OBVIOUS
<1>1. /\ UNCHANGED <<made, owner, heard, event, item, left, sent>> /\ at[t] = "put"
      /\ ring' = [ring EXCEPT ![b] = Append(@, item[t])] /\ at' = [at EXCEPT ![t] = "wake"]
  BY DEF Put
<1>2. left[t] # {} /\ b \in left[t] /\ b \in Buckets
  <2>1. left[t] # {} BY <1>1 DEF BaseInv, SendAt
  <2> QED BY <2>1, TargetMade
<1>3. /\ ring[b] \in Seq(Cells \cup {Clear}) /\ n \in Nat /\ item[t] \in Cells \cup {Clear}
      /\ ring'[b] = Append(ring[b], item[t])
  <2>1. ring[b] \in Seq(Cells \cup {Clear}) BY <1>2, RingTypes
  <2>2. n \in Nat BY <2>1
  <2>3. ring'[b] = Append(ring[b], item[t]) BY <1>1, <1>2 DEF BaseInv, BucketTypes
  <2> QED BY <2>1, <2>2, <2>3 DEF BaseInv, SendTypes
<1>4. /\ Len(ring'[b]) = n + 1 /\ ring'[b][n + 1] = item[t]
      /\ \A i \in 1 .. n : ring'[b][i] = ring[b][i]
  BY <1>3
<1>5. at'[t] = "wake" /\ To(t)' = b BY <1>1 DEF BaseInv, SendTypes, To
<1>6. \A k : ComesTo(t, k)' => ComesTo(t, k) /\ k # b
  BY <1>1, <1>5 DEF ComesTo, Pending
<1>7. \A s \in Threads \ {t} : /\ at'[s] = at[s] /\ item'[s] = item[s] /\ left'[s] = left[s]
                               /\ sent'[s] = sent[s]
  BY <1>1 DEF BaseInv, SendTypes
<1>8. ASSUME NEW k PROVE \A e : Comes(k, e)' => Comes(k, e)
  BY <1>1, <1>6, <1>7, ComesLess
<1>9. ASSUME item[t] # Clear PROVE ComesTo(t, b) /\ Comes(b, x) /\ event[item[t]] = x
  <2>1. ComesTo(t, b) BY <1>1, <1>2, <1>9 DEF ComesTo, Pending
  <2> QED BY <1>1, <1>2, <2>1 DEF Comes, OrderInv, CurrentAt
<1>10. ASSUME NEW k \in 1 .. made, NEW i, NEW e, Waits(k, i, e)'
       PROVE  Waits(k, i, e) \/ (k = b /\ i = n + 1 /\ item[t] # Clear /\ e = x)
  <2>1. k \in Buckets BY MadeBuckets
  <2>2. CASE k # b
    <3>1. ring'[k] = ring[k] BY <1>1, <2>1, <2>2 DEF BaseInv, BucketTypes
    <3> QED BY <1>1, <1>10, <3>1 DEF Waits
  <2>3. CASE k = b /\ i = n + 1 BY <1>1, <1>4, <1>9, <1>10, <2>3 DEF Waits
  <2>4. CASE k = b /\ i # n + 1
    <3>1. i \in 1 .. n BY <1>3, <1>4, <1>10, <2>4 DEF Waits
    <3> QED BY <1>1, <1>4, <1>10, <2>4, <3>1 DEF Waits
  <2> QED BY <2>2, <2>3, <2>4
<1>11. \A k, i, e : Heard(k, i, e)' <=> Heard(k, i, e) BY <1>1 DEF Heard
<1>12. ASSUME NEW k \in 1 .. made, NEW e, Arrived(k, e)'
       PROVE  Arrived(k, e) \/ (k = b /\ item[t] # Clear /\ e = x)
  BY <1>10, <1>11, <1>12 DEF Arrived
<1>13. ASSUME NEW k \in 1 .. made, NEW e, On(k, e)' PROVE On(k, e)
  BY <1>8, <1>9, <1>12, <1>13 DEF On
<1>14. ASSUME NEW k \in 1 .. made, NEW e, NEW f, Ahead(k, e, f)', e[1] = f[1] PROVE Ahead(k, e, f)
  <2>1. ASSUME NEW i \in Nat, NEW j \in Nat, Heard(k, i, e)', Heard(k, j, f)', i < j PROVE Ahead(k, e, f)
    BY <1>11, <2>1 DEF Ahead
  <2>2. ASSUME NEW i \in Nat, NEW j \in Nat, Heard(k, i, e)', Waits(k, j, f)' PROVE Ahead(k, e, f)
    <3>1. Heard(k, i, e) /\ Arrived(k, e) BY <1>11, <2>2 DEF Arrived
    <3>2. CASE Waits(k, j, f) BY <3>1, <3>2 DEF Ahead
    <3>3. CASE k = b /\ item[t] # Clear /\ f = x BY <1>9, <3>1, <3>3 DEF Ahead
    <3> QED BY <1>10, <2>2, <3>2, <3>3
  <2>3. ASSUME NEW i \in Nat, NEW j \in Nat, Waits(k, i, e)', Waits(k, j, f)', i < j PROVE Ahead(k, e, f)
    <3>1. CASE Waits(k, i, e) /\ Waits(k, j, f) BY <2>3, <3>1 DEF Ahead
    <3>2. CASE Waits(k, i, e) /\ k = b /\ item[t] # Clear /\ f = x
      BY <1>9, <3>2 DEF Ahead, Arrived
    <3>3. CASE k = b /\ i = n + 1
      <4>1. j \in 1 .. n + 1 BY <1>4, <2>3, <3>3 DEF Waits
      <4> QED BY <1>3, <2>3, <3>3, <4>1
    <3> QED BY <1>10, <2>3, <3>1, <3>2, <3>3
  <2>4. CASE Arrived(k, e)' /\ Comes(k, f)'
    <3>1. CASE Arrived(k, e) BY <1>8, <2>4, <3>1 DEF Ahead
    <3>2. CASE k = b /\ e = x
      <4>1. PICK s \in Threads : ComesTo(s, b)' /\ f = <<s, sent'[s]>> BY <2>4, <3>2 DEF Comes
      <4>2. s # t BY <1>6, <4>1
      <4> QED BY <1>14, <3>2, <4>1, <4>2
    <3> QED BY <1>12, <2>4, <3>1, <3>2
  <2> QED BY <1>14, <2>1, <2>2, <2>3, <2>4 DEF Ahead
<1>15. \A s \in Threads : sent[s] <= sent'[s] /\ sent'[s] \in Nat BY <1>1 DEF BaseInv, SendTypes
<1>16. \A k \in 1 .. made' : StreamAt(k)' BY <1>1, <1>13, <1>14, <1>15, StreamLess
<1>17. \A u \in Threads : HeardAt(u)'
  <2>1. made \in Nat BY MadeBuckets
  <2> QED BY <1>1, <1>15, <2>1, HeardSame
<1>18. CurrentAt(t)' BY <1>1, <1>6 DEF CurrentAt, OrderInv
<1>19. \A s \in Threads : CurrentAt(s)' BY <1>1, <1>7, <1>18, CurrentOther
<1> QED BY <1>16, <1>17, <1>19 DEF OrderInv

\* The first in the ring is the last that was heard, or is nothing to anybody.
LEMMA OrderPolls ==
    ASSUME BaseInv, OrderInv, BaseInv', NEW t \in Threads, NEW b \in pollers[t], ring[b] # <<>>,
           ring' = [ring EXCEPT ![b] = Tail(@)], UNCHANGED <<made, owner, at, item, left, sent>>,
           \A c \in Cells : event'[c] = event[c] \/ Unused(c)',
           \/ heard' = heard
           \/ /\ Head(ring[b]) # Clear
              /\ heard' = [heard EXCEPT ![t] = Append(@, <<b, event[Head(ring[b])]>>)]
    PROVE  OrderInv'
<1> PICK h : h = heard[t] OBVIOUS
<1> PICK r : r = ring[b] OBVIOUS
<1> PICK x : x = event[Head(r)] OBVIOUS
<1>1. b \in Buckets /\ b \in 1 .. made /\ owner[b] = t
  <2>1. b \in Buckets /\ b <= made /\ owner[b] = t BY DEF BaseInv, LoopTypes, LoopAt
  <2> QED BY <2>1, MadeBuckets
<1>2. r \in Seq(Cells \cup {Clear}) /\ r # <<>> /\ ring'[b] = Tail(r)
  BY <1>1, RingTypes DEF BaseInv, BucketTypes
<1>3. /\ Len(r) \in Nat /\ Len(Tail(r)) = Len(r) - 1 /\ Head(r) = r[1] /\ Len(r) > 0
      /\ \A i \in 1 .. Len(Tail(r)) : i + 1 \in 1 .. Len(r) /\ Tail(r)[i] = r[i + 1]
  BY <1>2
<1>4. h \in Seq((0 .. MaxBuckets) \X (Events \cup {<<>>})) /\ Len(h) \in Nat
  BY DEF BaseInv, HeardTypes
<1>5. heard' = heard \/ (heard'[t] = Append(h, <<b, x>>) /\ Waits(b, 1, x))
  <2>1. CASE Head(r) # Clear
    <3>1. Waits(b, 1, x) BY <1>3, <2>1 DEF Waits
    <3> QED BY <3>1 DEF BaseInv, HeardTypes
  <2> QED BY <2>1
<1>6. /\ Len(Append(h, <<b, x>>)) = Len(h) + 1 /\ Append(h, <<b, x>>)[Len(h) + 1] = <<b, x>>
      /\ \A i \in 1 .. Len(h) : Append(h, <<b, x>>)[i] = h[i]
  BY <1>4
<1>7. \A u \in Threads \ {t} : heard'[u] = heard[u] BY DEF BaseInv, HeardTypes
<1>8. ASSUME NEW k \in 1 .. made, NEW i, NEW e, Heard(k, i, e)'
      PROVE  Heard(k, i, e) \/ (k = b /\ i = Len(h) + 1 /\ e = x /\ Waits(b, 1, x))
  <2>1. owner[k] \in Threads BY MadeBuckets DEF BaseInv, BucketAt
  <2>2. i \in 1 .. Len(heard'[owner[k]]) /\ heard'[owner[k]][i] = <<k, e>>
    BY <1>8 DEF Heard
  <2>3. CASE heard' = heard \/ owner[k] # t BY <1>7, <2>1, <2>2, <2>3 DEF Heard
  <2>4. CASE owner[k] = t /\ heard'[t] = Append(h, <<b, x>>) /\ Waits(b, 1, x)
    <3>1. CASE i = Len(h) + 1 BY <1>6, <2>2, <2>4, <3>1
    <3>2. CASE i # Len(h) + 1
      <4>1. i \in 1 .. Len(h) BY <1>4, <1>6, <2>2, <2>4, <3>2
      <4> QED BY <1>6, <2>2, <2>4, <4>1 DEF Heard
    <3> QED BY <3>1, <3>2
  <2> QED BY <1>5, <2>3, <2>4
<1>9. ASSUME NEW k \in 1 .. made, NEW i, NEW e, Waits(k, i, e)'
      PROVE  IF k = b THEN i + 1 \in Nat /\ i \in Nat /\ i >= 1 /\ Waits(b, i + 1, e) ELSE Waits(k, i, e)
  <2>1. k \in Buckets BY MadeBuckets
  <2>2. /\ i \in 1 .. Len(ring'[k]) /\ ring'[k][i] # Clear /\ event[ring'[k][i]] = e
    BY <1>9, <2>1, WaitsKept
  <2>3. CASE k = b
    <3>1. i \in 1 .. Len(Tail(r)) /\ Tail(r)[i] # Clear /\ event[Tail(r)[i]] = e
      BY <1>2, <2>2, <2>3
    <3>2. i + 1 \in 1 .. Len(r) /\ r[i + 1] # Clear /\ event[r[i + 1]] = e BY <1>3, <3>1
    <3>3. i \in Nat /\ i >= 1 /\ i + 1 \in Nat BY <1>3, <3>1
    <3> QED BY <2>3, <3>2, <3>3 DEF Waits
  <2>4. CASE k # b
    <3>1. ring'[k] = ring[k] BY <2>1, <2>4 DEF BaseInv, BucketTypes
    <3> QED BY <2>2, <2>4, <3>1 DEF Waits
  <2> QED BY <2>3, <2>4
<1>10. ASSUME NEW k, NEW e, Comes(k, e)' PROVE Comes(k, e)
  <2>1. \A s : ComesTo(s, k)' => ComesTo(s, k) BY PendingOther DEF ComesTo
  <2> QED BY <1>10, <2>1 DEF Comes
<1>11. ASSUME NEW k \in 1 .. made, NEW e, Arrived(k, e)' PROVE Arrived(k, e)
  <2>1. ASSUME NEW i \in Nat, Heard(k, i, e)' PROVE Arrived(k, e)
    BY <1>8, <2>1 DEF Arrived
  <2>2. ASSUME NEW i \in Nat, Waits(k, i, e)' PROVE Arrived(k, e)
    BY <1>9, <2>2 DEF Arrived
  <2> QED BY <1>11, <2>1, <2>2 DEF Arrived
<1>12. ASSUME NEW k \in 1 .. made, NEW e, On(k, e)' PROVE On(k, e)
  BY <1>10, <1>11, <1>12 DEF On
<1>13. ASSUME NEW k \in 1 .. made, NEW e, NEW f, Ahead(k, e, f)' PROVE Ahead(k, e, f)
  <2>1. ASSUME NEW i \in Nat, NEW j \in Nat, Heard(k, i, e)', Heard(k, j, f)', i < j PROVE Ahead(k, e, f)
    <3>1. CASE Heard(k, i, e) /\ Heard(k, j, f) BY <2>1, <3>1 DEF Ahead
    <3>2. CASE Heard(k, i, e) /\ k = b /\ f = x /\ Waits(b, 1, x) BY <3>2 DEF Ahead
    <3>3. CASE k = b /\ i = Len(h) + 1
      <4>1. j \in 1 .. Len(heard'[t]) BY <1>1, <2>1, <3>3 DEF Heard
      <4> QED BY <1>4, <1>5, <1>6, <2>1, <3>3, <4>1
    <3> QED BY <1>8, <2>1, <3>1, <3>2, <3>3
  <2>2. ASSUME NEW i \in Nat, NEW j \in Nat, Heard(k, i, e)', Waits(k, j, f)' PROVE Ahead(k, e, f)
    <3>1. PICK m \in Nat : Waits(k, m, f) /\ (k = b => m > 1) BY <1>9, <2>2
    <3>2. CASE Heard(k, i, e) BY <3>1, <3>2 DEF Ahead
    <3>3. CASE k = b /\ e = x /\ Waits(b, 1, x) BY <3>1, <3>3 DEF Ahead
    <3> QED BY <1>8, <2>2, <3>2, <3>3
  <2>3. ASSUME NEW i \in Nat, NEW j \in Nat, Waits(k, i, e)', Waits(k, j, f)', i < j PROVE Ahead(k, e, f)
    <3>1. CASE k = b
      <4>1. Waits(k, i + 1, e) /\ Waits(k, j + 1, f) /\ i + 1 < j + 1 /\ i + 1 \in Nat /\ j + 1 \in Nat
        BY <1>9, <2>3, <3>1
      <4> QED BY <4>1 DEF Ahead
    <3>2. CASE k # b BY <1>9, <2>3, <3>2 DEF Ahead
    <3> QED BY <3>1, <3>2
  <2>4. CASE Arrived(k, e)' /\ Comes(k, f)' BY <1>10, <1>11, <2>4 DEF Ahead
  <2> QED BY <1>13, <2>1, <2>2, <2>3, <2>4 DEF Ahead
<1>14. \A s \in Threads : sent[s] <= sent'[s] /\ sent'[s] \in Nat BY DEF BaseInv, SendTypes
<1>15. \A k \in 1 .. made' : StreamAt(k)' BY <1>12, <1>13, <1>14, StreamLess
<1>16. ASSUME NEW u \in Threads PROVE HeardAt(u)'
  <2>1. HeardAt(u) BY DEF OrderInv
  <2>2. CASE heard'[u] = heard[u]
    <3>1. \A j \in 1 .. Len(heard[u]) : OwnAt(u, j) => OwnAt(u, j)' BY <2>2 DEF OwnAt
    <3> QED BY <2>1, <2>2, <3>1 DEF HeardAt
  <2>3. CASE u = t /\ heard'[t] = Append(h, <<b, x>>)
    <3> PICK g : g = heard'[t] OBVIOUS
    <3> PICK z : z = <<b, x>> OBVIOUS
    <3>1. /\ Len(g) = Len(h) + 1 /\ g[Len(h) + 1] = <<b, x>> /\ \A i \in 1 .. Len(h) : g[i] = h[i]
      <4>1. g = Append(h, z) BY <2>3
      <4> QED BY <1>6, <4>1
    <3>2. ASSUME NEW j \in 1 .. Len(h)
          PROVE  IF g[j][1] = 0 THEN OwnAt(t, j)' ELSE g[j][1] \in 1 .. made /\ owner[g[j][1]] = t
      <4>1. g[j] = h[j] /\ \A i \in 1 .. j - 1 : g[i] = h[i] BY <1>4, <3>1
      <4>2. IF h[j][1] = 0 THEN OwnAt(t, j) ELSE h[j][1] \in 1 .. made /\ owner[h[j][1]] = t
        BY <2>1, <2>3 DEF HeardAt
      <4> QED BY <4>1, <4>2 DEF OwnAt
    <3>3. g[Len(h) + 1][1] = b /\ b # 0 BY <1>1, <3>1
    <3>4. \A j \in 1 .. Len(g) : j \in 1 .. Len(h) \/ j = Len(h) + 1 BY <1>4, <3>1
    <3> QED BY <1>1, <2>3, <3>2, <3>3, <3>4 DEF HeardAt
  <2> QED BY <1>5, <1>7, <2>2, <2>3
<1>17. CurrentAt(t)'
  <2>1. ASSUME NEW k \in Buckets, at[t] # "claim", ComesTo(t, k)' PROVE event'[item[t]] = <<t, sent[t]>>
    <3>1. ComesTo(t, k) BY <2>1, PendingOther DEF ComesTo
    <3>2. event[item[t]] = <<t, sent[t]>> BY <2>1, <3>1 DEF OrderInv, CurrentAt
    <3>3. PICK c : c = item'[t] OBVIOUS
    <3>4. c \in Cells /\ Pending(t, k, c)' BY <2>1, <3>3 DEF ComesTo, BaseInv, SendTypes
    <3>5. ~Unused(c)' BY <3>4 DEF Unused
    <3> QED BY <3>2, <3>3, <3>4, <3>5
  <2> QED BY <2>1 DEF CurrentAt
<1>18. \A s \in Threads : CurrentAt(s)' BY <1>17, CurrentOther
<1> QED BY <1>15, <1>16, <1>18 DEF OrderInv

LEMMA OrderStep ==
    ASSUME BaseInv, CellsInv, OrderInv, BaseInv', CellsInv', [Next]_vars
    PROVE  OrderInv'
<1>1. ASSUME NEW t \in Threads, User(t) PROVE OrderInv'
  <2>1. CASE Listen(t)
    <3>1. CASE Own(t) # {} BY <2>1, <3>1, OrderSame DEF Listen
    <3>2. CASE MakeBucket(t) BY <2>1, <3>2, OrderListen DEF Listen
    <3> QED BY <2>1, <3>1, <3>2 DEF Listen
  <2>2. CASE StartShutdown(t) BY <2>2, OrderSame DEF StartShutdown
  <2>3. ASSUME NEW h, DropListener(t, h) PROVE OrderInv' BY <2>3, OrderSame DEF DropListener
  <2> QED BY <1>1, <2>1, <2>2, <2>3, OrderEmit, OrderDropAll DEF User
<1>2. ASSUME NEW t \in Threads, Send(t) PROVE OrderInv'
  <2>1. CASE Put(t) /\ ~UNCHANGED ring BY <2>1, OrderPut DEF Put
  <2>2. CASE TestClosed(t) BY <2>2, OrderTries DEF TestClosed
  <2> QED BY <1>2, <2>1, <2>2, OrderClaim, OrderTries DEF Send
<1>3. ASSUME NEW t \in Threads, Dispatch(t) PROVE OrderInv'
  <2>1. CASE WakeUp(t) \/ HandlerYields(t) \/ PassEnds(t)
    BY <2>1, OrderSame DEF WakeUp, HandlerYields, PassEnds
  <2>2. ASSUME NEW k \in Buckets, PollEmpty(t, k) \/ PollRetires(t, k) PROVE OrderInv'
    BY <2>2, OrderSame DEF PollEmpty, PollRetires
  <2>3. ASSUME NEW k \in Buckets, PollClear(t, k) PROVE OrderInv'
    <3>1. /\ k \in todo[t] /\ ring[k] # <<>> /\ ring' = [ring EXCEPT ![k] = Tail(@)]
          /\ UNCHANGED <<made, owner, at, item, left, sent, event, heard>>
      BY <2>3 DEF PollClear, Polls
    <3>2. k \in pollers[t] BY <3>1 DEF BaseInv, LoopAt
    <3> QED BY <3>1, <3>2, OrderPolls
  <2>4. ASSUME NEW k \in Buckets, PollValue(t, k) PROVE OrderInv'
    <3>1. /\ k \in todo[t] /\ ring[k] # <<>> /\ ring' = [ring EXCEPT ![k] = Tail(@)]
          /\ UNCHANGED <<made, owner, at, item, left, sent>>
          /\ Head(ring[k]) # Clear /\ ReleaseCell(Head(ring[k]))
          /\ \/ heard' = heard
             \/ heard' = [heard EXCEPT ![t] = Append(@, <<k, event[Head(ring[k])]>>)]
      BY <2>4 DEF PollValue, Polls
    <3>2. k \in pollers[t] BY <3>1 DEF BaseInv, LoopAt
    <3>3. Head(ring[k]) \in Cells BY <3>1, RingTypes
    <3>4. \A c \in Cells : event'[c] = event[c] \/ Unused(c)' BY <3>1, <3>3, ReleasedEvent
    <3> QED BY <3>1, <3>2, <3>4, OrderPolls
  <2> QED BY <1>3, <2>1, <2>2, <2>3, <2>4 DEF Dispatch
<1>4. ASSUME NEW t \in Threads, EndShutdown(t) \/ GiveUpShutdown(t) PROVE OrderInv'
  BY <1>4, OrderSame DEF EndShutdown, GiveUpShutdown, LeaveShutdown
<1>5. CASE UNCHANGED vars BY <1>5, OrderSame DEF vars
<1> QED BY <1>1, <1>2, <1>3, <1>4, <1>5 DEF Next

\* What was heard through a bucket is on its stream.
LEMMA HeardOn ==
    ASSUME BaseInv, OrderInv, NEW t \in Threads, NEW j \in 1 .. Len(heard[t]), heard[t][j][1] # 0
    PROVE  /\ heard[t][j][1] \in 1 .. made /\ owner[heard[t][j][1]] = t
           /\ Heard(heard[t][j][1], j, heard[t][j][2])
           /\ On(heard[t][j][1], heard[t][j][2])
<1> PICK k : k = heard[t][j][1] OBVIOUS
<1> PICK e : e = heard[t][j][2] OBVIOUS
<1>1. k \in 1 .. made /\ owner[k] = t BY DEF OrderInv, HeardAt
<1>2. heard[t] \in Seq((0 .. MaxBuckets) \X (Events \cup {<<>>})) BY DEF BaseInv, HeardTypes
<1>3. heard[t][j] \in (0 .. MaxBuckets) \X (Events \cup {<<>>}) /\ j \in Nat BY <1>2
<1>4. heard[t][j] = <<k, e>> BY <1>3
<1>5. Heard(k, j, e) BY <1>1, <1>4 DEF Heard
<1> QED BY <1>1, <1>3, <1>5 DEF On, Arrived

LEMMA HeardEvents ==
    ASSUME BaseInv, OrderInv, NEW t \in Threads, NEW j \in 1 .. Len(heard[t])
    PROVE  /\ heard[t][j][2] \in Events /\ heard[t][j][2][2] \in Nat
           /\ heard[t][j][1] = 0 <=> heard[t][j][2][1] = t
<1>1. CASE heard[t][j][1] = 0 BY <1>1 DEF OrderInv, HeardAt, OwnAt, Events
<1>2. CASE heard[t][j][1] # 0
  <2>1. StreamAt(heard[t][j][1]) BY <1>2, HeardOn DEF OrderInv
  <2>2. heard[t][j][2] \in Events /\ heard[t][j][2][1] # t BY <1>2, <2>1, HeardOn DEF StreamAt
  <2> QED BY <1>2, <2>2 DEF Events
<1> QED BY <1>1, <1>2

LEMMA OrderRight == BaseInv /\ OrderInv => InOrder
<1> DEFINE Right(t, i, j) ==
             heard[t][i][2][1] = heard[t][j][2][1] =>
               IF heard[t][i][1] = heard[t][j][1]
                 THEN heard[t][i][2][2] < heard[t][j][2][2]
                 ELSE heard[t][i][2][2] # heard[t][j][2][2]
<1>r. InOrder <=> \A t \in Threads : \A j \in 1 .. Len(heard[t]) :
                    heard[t][j][2] \in Events /\ \A i \in 1 .. j - 1 : Right(t, i, j)
  BY Zenon DEF InOrder
<1> HIDE DEF Right
<1> SUFFICES ASSUME BaseInv, OrderInv, NEW t \in Threads, NEW j \in 1 .. Len(heard[t])
             PROVE  heard[t][j][2] \in Events /\ \A i \in 1 .. j - 1 : Right(t, i, j)
  BY <1>r, Zenon
<1>h. heard[t][j][2] \in Events BY HeardEvents
<1> SUFFICES ASSUME NEW i \in 1 .. j - 1 PROVE Right(t, i, j)
  BY <1>h, Zenon
<1> SUFFICES ASSUME heard[t][i][2][1] = heard[t][j][2][1]
             PROVE  IF heard[t][i][1] = heard[t][j][1]
                      THEN heard[t][i][2][2] < heard[t][j][2][2]
                      ELSE heard[t][i][2][2] # heard[t][j][2][2]
  BY Zenon DEF Right
<1> PICK e : e = heard[t][i][2] OBVIOUS
<1> PICK f : f = heard[t][j][2] OBVIOUS
<1> PICK k : k = heard[t][i][1] OBVIOUS
<1> PICK m : m = heard[t][j][1] OBVIOUS
<1>1. i \in 1 .. Len(heard[t]) /\ i < j /\ i \in Nat /\ j \in Nat
  <2>1. heard[t] \in Seq((0 .. MaxBuckets) \X (Events \cup {<<>>})) BY DEF BaseInv, HeardTypes
  <2>2. Len(heard[t]) \in Nat BY <2>1
  <2> QED BY <2>2
<1>2. e \in Events /\ f \in Events /\ (k = 0 <=> e[1] = t) /\ (m = 0 <=> f[1] = t)
  BY <1>1, HeardEvents
<1>3. k = 0 <=> m = 0 BY <1>2
<1>4. CASE m = 0
  <2>1. HeardAt(t) BY DEF OrderInv
  <2>2. OwnAt(t, j) BY <1>4, <2>1 DEF HeardAt
  <2>3. e[2] < f[2] BY <1>3, <1>4, <2>2 DEF OwnAt
  <2> QED BY <1>3, <1>4, <2>3
<1>5. CASE m # 0
  <2>1. /\ k \in 1 .. made /\ owner[k] = t /\ Heard(k, i, e) /\ On(k, e)
        /\ m \in 1 .. made /\ owner[m] = t /\ Heard(m, j, f) /\ On(m, f)
    BY <1>1, <1>3, <1>5, HeardOn
  <2>2. StreamAt(m) BY <2>1 DEF OrderInv
  <2>3. CASE k = m
    <3>1. Ahead(m, e, f) BY <1>1, <2>1, <2>3 DEF Ahead
    <3> QED BY <2>2, <2>3, <3>1 DEF StreamAt
  <2>4. CASE k # m
    <3>1. e # f BY <2>1, <2>2, <2>4 DEF StreamAt
    <3>2. e[2] # f[2] BY <1>2, <3>1 DEF Events
    <3> QED BY <2>4, <3>2
  <2> QED BY <2>3, <2>4
<1> QED BY <1>4, <1>5

LEMMA OrderInit == Init => OrderInv
<1> SUFFICES ASSUME Init PROVE OrderInv
    OBVIOUS
<1>1. made = 0 BY DEF Init
<1>2. \A t \in Threads : HeardAt(t) BY DEF Init, HeardAt
<1>3. \A t \in Threads : CurrentAt(t) BY DEF Init, CurrentAt, ComesTo, Pending
<1> QED BY <1>1, <1>2, <1>3 DEF OrderInv

\* Every thread hears events that were emitted, none twice, and those of one
\* emitter through one ring in the order of the emits, whatever the number of
\* emitters, rings and cells and whichever rings refuse an event.
THEOREM EventsInOrder == Spec => []InOrder
<1>1. Init => BaseInv /\ CellsInv /\ OrderInv BY BaseInit, CellsInit, OrderInit
<1>2. BaseInv /\ CellsInv /\ OrderInv /\ [Next]_vars => (BaseInv /\ CellsInv /\ OrderInv)'
  <2> SUFFICES ASSUME BaseInv, CellsInv, OrderInv, [Next]_vars
               PROVE  BaseInv' /\ CellsInv' /\ OrderInv'
      OBVIOUS
  <2>1. BaseInv' /\ CellsInv' BY BaseStep, CellsStep
  <2> QED BY <2>1, OrderStep
<1>3. BaseInv /\ OrderInv => InOrder BY OrderRight
<1> QED BY <1>1, <1>2, <1>3, PTL DEF Spec

-----------------------------------------------------------------------------
(* Types: no counter is negative, since each counts something.             *)

UnmadeInv == \A k \in Buckets : k > made => refs[k] = 0

\* References are taken of rings that were made, and given back.
LEMMA UnmadeStep ==
    ASSUME BaseInv, UnmadeInv, [Next]_vars
    PROVE  UnmadeInv'
<1> USE DEF BaseInv
<1>0. ASSUME UNCHANGED <<made, refs>> PROVE UnmadeInv' BY <1>0 DEF UnmadeInv
<1>1. ASSUME NEW K, K \subseteq 1 .. made, made' = made, Acquire(K) \/ Release(K) PROVE UnmadeInv'
  <2>1. ASSUME NEW k \in Buckets, k > made PROVE refs'[k] = refs[k]
    <3>1. k \notin K BY <1>1, <2>1, MadeBuckets
    <3> QED BY <1>1, <3>1 DEF Acquire, Release
  <2> QED BY <1>1, <2>1 DEF UnmadeInv
<1>2. ASSUME NEW t \in Threads, User(t) PROVE UnmadeInv'
  <2>1. CASE Listen(t)
    <3>1. CASE Own(t) # {} BY <1>0, <2>1, <3>1 DEF Listen
    <3>2. CASE MakeBucket(t)
      <4>1. made' = made + 1 /\ refs' = [refs EXCEPT ![made + 1] = 2] /\ made \in Nat
        BY <3>2, MadeBuckets DEF MakeBucket
      <4> QED BY <4>1 DEF UnmadeInv, BucketTypes
    <3> QED BY <2>1, <3>1, <3>2 DEF Listen
  <2>2. CASE Emit(t) \/ DropAllListeners(t)
    <3>1. Targets \ Own(t) \subseteq 1 .. made BY MadeBuckets DEF Targets
    <3> QED BY <1>1, <2>2, <3>1 DEF Emit, DropAllListeners
  <2>3. CASE StartShutdown(t) BY <1>0, <2>3 DEF StartShutdown
  <2>4. ASSUME NEW h, DropListener(t, h) PROVE UnmadeInv' BY <1>0, <2>4 DEF DropListener
  <2> QED BY <1>2, <2>1, <2>2, <2>3, <2>4 DEF User
<1>3. ASSUME NEW t \in Threads, Send(t) PROVE UnmadeInv'
  <2>1. CASE ReleaseLeases(t)
    <3> PICK K : K = IF left[t] = {} THEN held[t] ELSE {To(t)} OBVIOUS
    <3>1. Release(K) /\ made' = made BY <2>1 DEF ReleaseLeases
    <3>2. K \subseteq 1 .. made BY TargetMade DEF SendAt
    <3> QED BY <1>1, <3>1, <3>2
  <2> QED BY <1>0, <1>3, <2>1 DEF Send, ClaimCell, TestClosed, Put, Wake
<1>4. ASSUME NEW t \in Threads, Dispatch(t) PROVE UnmadeInv'
  <2>1. ASSUME NEW k \in Buckets, PollRetires(t, k) PROVE UnmadeInv'
    <3>1. Release({k}) /\ k \in todo[t] /\ made' = made BY <2>1 DEF PollRetires, Polls
    <3>2. {k} \subseteq 1 .. made BY <3>1, MadeBuckets DEF LoopAt
    <3> QED BY <1>1, <3>1, <3>2
  <2> QED BY <1>0, <1>4, <2>1
          DEF Dispatch, WakeUp, HandlerYields, PassEnds, PollValue, PollClear, PollEmpty
<1>5. ASSUME NEW t \in Threads, EndShutdown(t) \/ GiveUpShutdown(t) PROVE UnmadeInv'
  <2>1. PICK k \in closing[t] : Release({k}) /\ made' = made
    BY <1>5 DEF EndShutdown, GiveUpShutdown, LeaveShutdown
  <2>2. {k} \subseteq 1 .. made BY MadeBuckets DEF LoopAt, LoopTypes
  <2> QED BY <1>1, <2>1, <2>2
<1>6. CASE UNCHANGED vars BY <1>0, <1>6 DEF vars
<1> QED BY <1>2, <1>3, <1>4, <1>5, <1>6 DEF Next

LEMMA TypesRight == BaseInv /\ RingsInv /\ CellsInv /\ OrderInv /\ UnmadeInv => TypeOK
<1> SUFFICES ASSUME BaseInv, RingsInv, CellsInv, OrderInv, UnmadeInv PROVE TypeOK
    OBVIOUS
<1>1. ASSUME NEW k \in Buckets PROVE refs[k] \in Nat
  <2>1. CASE k \in 1 .. made
    <3>1. RingAt(k) BY <2>1 DEF RingsInv
    <3> QED BY <3>1, LeasingFinite, OwnerRefsNat DEF RingAt
  <2>2. CASE k > made BY <2>2 DEF UnmadeInv
  <2> QED BY <2>1, <2>2, MadeBuckets
<1>2. ASSUME NEW c \in Cells PROVE count[c] \in Nat /\ free[c] \in 0 .. 1
  BY SlotsFinite, DueFinite DEF CellsInv, CellAt
<1>3. ASSUME NEW t \in Threads PROVE heard[t] \in Seq((0 .. MaxBuckets) \X Events)
  <2> PICK h : h = heard[t] OBVIOUS
  <2>1. h \in Seq((0 .. MaxBuckets) \X (Events \cup {<<>>})) BY DEF BaseInv, HeardTypes
  <2>2. ASSUME NEW j \in 1 .. Len(h) PROVE h[j] \in (0 .. MaxBuckets) \X Events
    <3>1. h[j] \in (0 .. MaxBuckets) \X (Events \cup {<<>>}) BY <2>1
    <3>2. h[j][2] \in Events BY HeardEvents
    <3> QED BY <3>1, <3>2
  <2>3. h = [j \in 1 .. Len(h) |-> h[j]] /\ Len(h) \in Nat BY <2>1
  <2> QED BY <2>2, <2>3
<1>4. /\ refs \in [Buckets -> Nat] /\ count \in [Cells -> Nat] /\ free \in [Cells -> 0 .. 1]
      /\ heard \in [Threads -> Seq((0 .. MaxBuckets) \X Events)]
  BY <1>1, <1>2, <1>3 DEF BaseInv, BucketTypes, SlabTypes, HeardTypes
<1> QED BY <1>4 DEF BaseInv, BucketTypes, SlabTypes, LoopTypes, SendTypes, HeardTypes, TypeOK

\* Every variable keeps its type; in particular no ring gets a reference back,
\* and no cell, that nobody had.
THEOREM TypeCorrect == Spec => []TypeOK
<1> DEFINE Inv == BaseInv /\ RingsInv /\ CellsInv /\ OrderInv /\ UnmadeInv
<1>1. Init => Inv
  <2>1. Init => UnmadeInv BY DEF Init, UnmadeInv
  <2> QED BY <2>1, BaseInit, RingsInit, CellsInit, OrderInit
<1>2. Inv /\ [Next]_vars => Inv'
  <2> SUFFICES ASSUME Inv, [Next]_vars PROVE Inv'
      OBVIOUS
  <2>1. BaseInv' /\ RingsInv' /\ CellsInv' /\ UnmadeInv'
    BY BaseStep, RingsStep, CellsStep, UnmadeStep
  <2> QED BY <2>1, OrderStep
<1>3. Inv => TypeOK BY TypesRight
<1> HIDE DEF Inv
<1> QED BY <1>1, <1>2, <1>3, PTL DEF Spec
=============================================================================
