-------------------------- MODULE VyukovRing_proofs --------------------------
(* Proofs about VyukovRing, for any number of producers, calls and slots:     *)
(* types, exclusive access to payloads, "full" only when full, and that the   *)
(* ring implements the queue of MpscQueue.                                    *)
EXTENDS VyukovRing, SequenceTheorems, TLAPS

\* A producer inside tryEnqueue is in one of its calls, so it has an item.
CallInv == \A p \in Producers : pc[p] # "idle" => calls[p] > 0

TypeInv == TypeOK /\ CallInv

LEMMA RingInit == Init => TypeInv
<1> SUFFICES ASSUME Init PROVE TypeInv
  OBVIOUS
<1>1. Slots \subseteq Nat
  BY CapacityAssumption DEF Slots
<1>2. seq \in [Slots -> Nat]
  BY <1>1 DEF Init
<1>3. log \in Seq(Item) /\ Len(log) = 0
  BY EmptySeq DEF Init
<1>4. delivered \in Seq(Item \cup {None}) /\ Len(delivered) = 0
  BY EmptySeq DEF Init
<1>5. calls \in [Producers -> 0 .. MaxCalls]
  BY MaxCallsAssumption DEF Init
<1> QED BY <1>2, <1>3, <1>4, <1>5 DEF Init, TypeInv, TypeOK, CallInv

LEMMA OwnItem ==
  ASSUME TypeInv, NEW p \in Producers, pc[p] # "idle"
  PROVE  ItemOf(p) \in Item
<1>1. calls[p] \in 1 .. MaxCalls
  BY MaxCallsAssumption DEF TypeInv, TypeOK, CallInv
<1> QED BY <1>1 DEF ItemOf, Item

LEMMA SlotIsNatural ==
  ASSUME NEW n \in Nat
  PROVE  Slot(n) \in Slots
BY CapacityAssumption DEF Slot, Slots

\* The steps of tryEnqueue: only a claim moves the tail, and it logs one item.
LEMMA ProducerTypes ==
  ASSUME TypeInv, NEW p \in Producers, Producer(p)
  PROVE  TypeInv'
<1> USE DEF Goto, producerVars, consumerVars
<1>1. CASE CheckClosed(p)
  BY <1>1, MaxCallsAssumption DEF CheckClosed, TypeInv, TypeOK, CallInv
<1>2. CASE LoadPos(p)
  BY <1>2 DEF LoadPos, TypeInv, TypeOK, CallInv
<1>3. CASE ReadSeq(p)
  BY <1>3 DEF ReadSeq, AfterDiff, TypeInv, TypeOK, CallInv
<1>4. CASE ClaimPos(p)
  <2>1. log' \in Seq(Item) /\ Len(log') = Len(log) + 1
    BY <1>4, OwnItem, AppendProperties DEF ClaimPos, TypeInv, TypeOK
  <2> QED BY <1>4, <2>1 DEF ClaimPos, TypeInv, TypeOK, CallInv
<1>5. CASE ClaimFails(p)
  BY <1>5 DEF ClaimFails, TypeInv, TypeOK, CallInv
<1>6. CASE WritePayload(p)
  <2>1. ItemOf(p) \in Item
    BY <1>6, OwnItem DEF WritePayload
  <2> QED BY <1>6, <2>1 DEF WritePayload, TypeInv, TypeOK, CallInv
<1>7. CASE Publish(p)
  <2>1. seq' \in [Slots -> Nat]
    <3>1. pos[p] + 1 \in Nat
      BY DEF TypeInv, TypeOK
    <3> QED BY <1>7, <3>1 DEF Publish, TypeInv, TypeOK
  <2> QED BY <1>7, <2>1 DEF Publish, TypeInv, TypeOK, CallInv
<1> QED BY <1>1, <1>2, <1>3, <1>4, <1>5, <1>6, <1>7 DEF Producer

\* The steps of the owner: only FreeSlot moves the head, and it delivers one item.
LEMMA ConsumerTypes ==
  ASSUME TypeInv, Consumer \/ Close
  PROVE  TypeInv'
<1> USE DEF producerVars, consumerVars
<1>1. CASE PollHit
  BY <1>1 DEF PollHit, TypeInv, TypeOK, CallInv
<1>2. CASE TakePayload
  <2>1. payload[Slot(deqPos)] \in Item \cup {None}
    BY SlotIsNatural DEF TypeInv, TypeOK
  <2> QED BY <1>2, <2>1 DEF TakePayload, TypeInv, TypeOK, CallInv
<1>3. CASE FreeSlot
  <2>1. delivered' \in Seq(Item \cup {None}) /\ Len(delivered') = Len(delivered) + 1
    BY <1>3, AppendProperties DEF FreeSlot, TypeInv, TypeOK
  <2>2. deqPos + Capacity \in Nat
    BY CapacityAssumption DEF TypeInv, TypeOK
  <2>3. seq' \in [Slots -> Nat]
    BY <1>3, <2>2 DEF FreeSlot, TypeInv, TypeOK
  <2> QED BY <1>3, <2>1, <2>3 DEF FreeSlot, TypeInv, TypeOK, CallInv
<1>4. CASE PollMiss
  BY <1>4 DEF PollMiss, TypeInv, TypeOK, CallInv
<1>5. CASE TestClosed
  BY <1>5 DEF TestClosed, TypeInv, TypeOK, CallInv
<1>6. CASE Close
  BY <1>6 DEF Close, TypeInv, TypeOK, CallInv
<1> QED BY <1>1, <1>2, <1>3, <1>4, <1>5, <1>6 DEF Consumer

LEMMA RingStep == TypeInv /\ [Next]_vars => TypeInv'
<1> SUFFICES ASSUME TypeInv, [Next]_vars PROVE TypeInv'
  OBVIOUS
<1>1. CASE \E p \in Producers : Producer(p)
  BY <1>1, ProducerTypes
<1>2. CASE Consumer \/ Close
  BY <1>2, ConsumerTypes
<1>3. CASE UNCHANGED vars
  BY <1>3 DEF vars, TypeInv, TypeOK, CallInv
<1> QED BY <1>1, <1>2, <1>3 DEF Next

\* Every variable of the ring keeps its type, and the histories stay as long as
\* enqPos and deqPos: each position is claimed once and freed once
\* (VyukovMpscRing, mt_queue.nim).
THEOREM RingTypes == Spec => []TypeOK
<1>1. TypeInv => TypeOK
  BY DEF TypeInv
<1> QED BY RingInit, RingStep, <1>1, PTL DEF Spec

------------------------------------------------------------------------------
(* Positions and slots.  Positions less than a lap apart have slots of their  *)
(* own, and a lap later the slot comes back.                                  *)

LEMMA LapsAddUp == \A laps \in Int : laps >= 1 => Capacity * laps >= Capacity
BY CapacityAssumption

LEMMA Lap ==
  ASSUME NEW n \in Nat
  PROVE  \E laps \in Int : n = Capacity * laps + Slot(n)
<1>1. n \div Capacity \in Int /\ n = Capacity * (n \div Capacity) + (n % Capacity)
  BY CapacityAssumption
<1> QED BY <1>1 DEF Slot

LEMMA SlotOfLap ==
  ASSUME NEW n \in Nat, NEW laps \in Int, NEW i \in Slots, n = Capacity * laps + i
  PROVE  Slot(n) = i
<1>1. PICK q \in Int : n = Capacity * q + Slot(n)
  BY Lap
<1>2. Slot(n) \in Slots
  BY SlotIsNatural
<1>3. /\ Capacity * (laps - q) = Capacity * laps - Capacity * q
      /\ Capacity * (q - laps) = Capacity * q - Capacity * laps
  BY CapacityAssumption
<1>4. ~(laps - q >= 1) /\ ~(q - laps >= 1)
  BY <1>1, <1>2, <1>3, LapsAddUp, CapacityAssumption DEF Slots
<1>5. q = laps
  BY <1>4
<1> QED BY <1>1, <1>2, <1>5, CapacityAssumption DEF Slots

LEMMA FirstLap == \A i \in Slots : Slot(i) = i
<1> SUFFICES ASSUME NEW i \in Slots PROVE Slot(i) = i
  OBVIOUS
<1>1. i \in Nat /\ i = Capacity * 0 + i
  BY CapacityAssumption DEF Slots
<1> QED BY <1>1, SlotOfLap

LEMMA NextLap ==
  ASSUME NEW n \in Nat
  PROVE  Slot(n + Capacity) = Slot(n)
<1>1. PICK q \in Int : n = Capacity * q + Slot(n)
  BY Lap
<1>2. Slot(n) \in Slots
  BY SlotIsNatural
<1>3. n + Capacity = Capacity * (q + 1) + Slot(n) /\ n + Capacity \in Nat /\ q + 1 \in Int
  BY <1>1, <1>2, CapacityAssumption DEF Slots
<1> QED BY <1>2, <1>3, SlotOfLap

LEMMA SlotsDiffer ==
  ASSUME NEW m \in Nat, NEW n \in Nat, m < n, n < m + Capacity
  PROVE  Slot(m) # Slot(n)
<1> SUFFICES ASSUME Slot(m) = Slot(n) PROVE FALSE
  OBVIOUS
<1>1. PICK q \in Int : m = Capacity * q + Slot(m)
  BY Lap
<1>2. PICK r \in Int : n = Capacity * r + Slot(n)
  BY Lap
<1>3. Slot(m) \in Slots /\ Slot(n) \in Slots
  BY SlotIsNatural
<1>4. Capacity * (r - q) = n - m /\ Capacity * (q - r) = m - n
  BY <1>1, <1>2, <1>3, CapacityAssumption DEF Slots
<1>5. ~(r - q >= 1) /\ ~(q - r >= 1)
  BY <1>4, LapsAddUp, CapacityAssumption
<1>6. q = r
  BY <1>5
<1> QED BY <1>1, <1>2, <1>3, <1>6, CapacityAssumption DEF Slots

LEMMA WindowSlots ==
  ASSUME NEW d \in Nat, NEW m \in d .. d + Capacity - 1, NEW n \in d .. d + Capacity - 1,
         m # n
  PROVE  Slot(m) # Slot(n)
<1>1. m \in Nat /\ n \in Nat
  BY CapacityAssumption
<1>2. CASE m < n
  BY <1>1, <1>2, SlotsDiffer, CapacityAssumption
<1>3. CASE n < m
  BY <1>1, <1>3, SlotsDiffer, CapacityAssumption
<1> QED BY <1>1, <1>2, <1>3

------------------------------------------------------------------------------
(* The inductive invariant.  A position is behind the head (freed), between   *)
(* head and tail (claimed: being written, or published), or in the lap before *)
(* the tail (free); the sequence number of its slot tells which.              *)

Writing(p) == pc[p] \in {"write", "publish"}

WindowInv == deqPos <= enqPos /\ enqPos <= deqPos + Capacity

\* No slot lags behind a position that was freed or may be claimed.
LagInv == \A n \in 0 .. deqPos + Capacity - 1 : seq[Slot(n)] >= n

FreeInv == \A n \in enqPos .. deqPos + Capacity - 1 : seq[Slot(n)] = n

ClaimedInv ==
    \A n \in deqPos .. enqPos - 1 :
        \/ seq[Slot(n)] = n
        \/ seq[Slot(n)] = n + 1 /\ payload[Slot(n)] = log[n + 1]

\* A writer has a claimed position that is not published, and has it alone.
WritersInv ==
    \A p \in Producers : Writing(p) =>
        /\ pos[p] \in deqPos .. enqPos - 1 /\ seq[Slot(pos[p])] = pos[p]
        /\ log[pos[p] + 1] = ItemOf(p)
        /\ pc[p] = "publish" => payload[Slot(pos[p])] = ItemOf(p)
        /\ \A q \in Producers \ {p} : Writing(q) => pos[q] # pos[p]

\* What the others have read may be stale, but only in one direction: a producer that found its
\* slot free stays less than a lap ahead of the head.
SeekersInv ==
    \A p \in Producers :
        /\ pc[p] = "seq" => pos[p] <= enqPos
        /\ pc[p] = "cas" => pos[p] < deqPos + Capacity

OwnerInv ==
    /\ cons \in {"take", "free"} => deqPos < enqPos /\ seq[Slot(deqPos)] = deqPos + 1
    /\ cons = "free" => outItem = log[deqPos + 1]

RingInv ==
    /\ TypeInv /\ WindowInv /\ LagInv /\ FreeInv /\ ClaimedInv
    /\ WritersInv /\ SeekersInv /\ OwnerInv

LEMMA Numbers ==
  ASSUME TypeInv
  PROVE  /\ enqPos \in Nat /\ deqPos \in Nat /\ Len(log) = enqPos /\ log \in Seq(Item)
         /\ seq \in [Slots -> Nat] /\ pos \in [Producers -> Nat]
         /\ payload \in [Slots -> Item \cup {None}]
         /\ pc \in [Producers -> {"idle", "load", "seq", "cas", "write", "publish"}]
         /\ Capacity \in Nat /\ Capacity > 1
BY CapacityAssumption DEF TypeInv, TypeOK

LEMMA InvInit == Init => RingInv
<1> SUFFICES ASSUME Init PROVE RingInv
  OBVIOUS
<1>1. TypeInv
  BY RingInit
<1>2. \A n \in 0 .. Capacity - 1 : seq[Slot(n)] = n
  BY FirstLap DEF Init, Slots
<1>3. WindowInv /\ SeekersInv /\ OwnerInv /\ WritersInv
  BY CapacityAssumption DEF Init, WindowInv, SeekersInv, OwnerInv, WritersInv, Writing
<1>4. enqPos = 0 /\ deqPos = 0 /\ Capacity \in Nat
  BY CapacityAssumption DEF Init
<1>5. LagInv /\ FreeInv /\ ClaimedInv
  BY <1>2, <1>4 DEF LagInv, FreeInv, ClaimedInv
<1> QED BY <1>1, <1>3, <1>5 DEF RingInv

\* The steps of a producer that only change what it has read, or where it is.
LEMMA SeekerStep ==
  ASSUME RingInv, NEW p \in Producers,
         CheckClosed(p) \/ LoadPos(p) \/ ReadSeq(p) \/ ClaimFails(p)
  PROVE  RingInv'
<1> USE Numbers DEF RingInv, Goto, consumerVars
<1> enqPos \in Nat /\ deqPos \in Nat /\ Capacity \in Nat /\ Capacity > 1
  OBVIOUS
<1>1. TypeInv'
  BY ProducerTypes DEF Producer
<1>2. UNCHANGED <<enqPos, deqPos, seq, payload, log, cons, outItem>>
  BY DEF CheckClosed, LoadPos, ReadSeq, ClaimFails
<1>3. ~Writing(p) /\ ~Writing(p)'
  BY DEF CheckClosed, LoadPos, ReadSeq, ClaimFails, AfterDiff, Writing
<1>4. \A q \in Producers \ {p} : pc'[q] = pc[q] /\ pos'[q] = pos[q] /\ calls'[q] = calls[q]
  BY DEF CheckClosed, LoadPos, ReadSeq, ClaimFails, TypeInv, TypeOK
<1>5. WindowInv' /\ LagInv' /\ FreeInv' /\ ClaimedInv' /\ OwnerInv'
  BY <1>2 DEF WindowInv, LagInv, FreeInv, ClaimedInv, OwnerInv
<1>6. WritersInv'
  <2>1. \A q \in Producers :
            Writing(q)' => q # p /\ Writing(q) /\ ItemOf(q)' = ItemOf(q) /\ pos'[q] = pos[q]
    BY <1>3, <1>4 DEF Writing, ItemOf
  <2> QED BY <1>2, <1>4, <2>1 DEF WritersInv
<1>7. pc'[p] = "seq" => pos'[p] <= enqPos
  BY DEF CheckClosed, LoadPos, ReadSeq, ClaimFails, AfterDiff
<1>8. pc'[p] = "cas" => pos'[p] < deqPos + Capacity
  <2> SUFFICES ASSUME pc'[p] = "cas" PROVE pos'[p] < deqPos + Capacity
    OBVIOUS
  <2>1. pos'[p] = pos[p] /\ pc[p] = "seq" /\ seq[Slot(pos[p])] - pos[p] = 0
    BY DEF CheckClosed, LoadPos, ReadSeq, ClaimFails, AfterDiff
  <2>2. pos[p] \in Nat /\ pos[p] <= enqPos /\ seq[Slot(pos[p])] \in Nat
    BY <2>1, SlotIsNatural DEF SeekersInv
  <2>3. pos[p] # deqPos + Capacity
    <3> SUFFICES ASSUME pos[p] = deqPos + Capacity PROVE FALSE
      OBVIOUS
    <3>1. Slot(pos[p]) = Slot(deqPos)
      BY NextLap
    <3>2. seq[Slot(deqPos)] \in {deqPos, deqPos + 1}
      <4>1. deqPos \in deqPos .. enqPos - 1
        BY <2>2
      <4> QED BY <4>1 DEF ClaimedInv
    <3> QED BY <2>1, <2>2, <3>1, <3>2
  <2>4. pos[p] <= deqPos + Capacity
    BY <2>2 DEF WindowInv
  <2>5. \A k, n \in Nat : k <= n /\ k # n => k < n
    OBVIOUS
  <2>6. pos[p] < deqPos + Capacity
    <3>1. deqPos + Capacity \in Nat
      OBVIOUS
    <3> QED BY <2>2, <2>3, <2>4, <2>5, <3>1
  <2> QED BY <2>1, <2>6
<1>9. SeekersInv'
  BY <1>2, <1>4, <1>7, <1>8 DEF SeekersInv
<1> QED BY <1>1, <1>5, <1>6, <1>9

LEMMA ClaimStep ==
  ASSUME RingInv, NEW p \in Producers, ClaimPos(p)
  PROVE  RingInv'
<1> USE Numbers DEF RingInv, Goto, consumerVars
<1> enqPos \in Nat /\ deqPos \in Nat /\ Capacity \in Nat /\ Capacity > 1
  OBVIOUS
<1>1. TypeInv'
  BY ProducerTypes DEF Producer
<1>2. /\ UNCHANGED <<closed, seq, payload, pos, calls, deqPos, cons, outItem>>
      /\ pc[p] = "cas" /\ pos[p] = enqPos /\ enqPos' = enqPos + 1
      /\ pc' = [pc EXCEPT ![p] = "write"]
  BY DEF ClaimPos
<1>3. enqPos < deqPos + Capacity
  BY <1>2 DEF SeekersInv
<1>4. (\A n \in 1 .. enqPos : log'[n] = log[n]) /\ log'[enqPos + 1] = ItemOf(p)
  BY <1>2, OwnItem, AppendProperties DEF ClaimPos
<1>5. seq[Slot(enqPos)] = enqPos
  BY <1>3 DEF FreeInv
<1>6. WindowInv' /\ LagInv' /\ FreeInv' /\ SeekersInv'
  BY <1>2, <1>3 DEF WindowInv, LagInv, FreeInv, SeekersInv
<1>7. ClaimedInv'
  <2> SUFFICES ASSUME NEW n \in deqPos .. enqPos
               PROVE  \/ seq[Slot(n)] = n
                      \/ seq[Slot(n)] = n + 1 /\ payload[Slot(n)] = log'[n + 1]
    BY <1>2 DEF ClaimedInv
  <2>1. CASE n = enqPos
    BY <2>1, <1>5
  <2>2. CASE n < enqPos
    <3>1. log'[n + 1] = log[n + 1]
      BY <1>4, <2>2
    <3> QED BY <2>2, <3>1 DEF ClaimedInv
  <2> QED BY <2>1, <2>2
<1>8. WritersInv'
  <2> SUFFICES ASSUME NEW w \in Producers, Writing(w)'
               PROVE  /\ pos[w] \in deqPos .. enqPos /\ seq[Slot(pos[w])] = pos[w]
                      /\ log'[pos[w] + 1] = ItemOf(w)
                      /\ pc'[w] = "publish" => payload[Slot(pos[w])] = ItemOf(w)
                      /\ \A q \in Producers \ {w} : Writing(q)' => pos[q] # pos[w]
    BY <1>2 DEF WritersInv, ItemOf
  <2>1. CASE w = p
    <3>1. \A q \in Producers \ {p} : Writing(q)' => pos[q] < enqPos
      BY <1>2 DEF WritersInv, Writing
    <3> QED BY <1>2, <1>3, <1>4, <1>5, <2>1, <3>1 DEF WindowInv
  <2>2. CASE w # p
    <3>1. Writing(w) /\ pc'[w] = pc[w]
      BY <1>2, <2>2 DEF Writing
    <3>2. pos[w] \in deqPos .. enqPos - 1 /\ log'[pos[w] + 1] = log[pos[w] + 1]
      BY <1>4, <3>1 DEF WritersInv
    <3>3. \A q \in Producers \ {w} : Writing(q)' => pos[q] # pos[w]
      BY <1>2, <3>1, <3>2 DEF WritersInv, Writing
    <3> QED BY <3>1, <3>2, <3>3 DEF WritersInv
  <2> QED BY <2>1, <2>2
<1>9. OwnerInv'
  BY <1>2, <1>4 DEF OwnerInv
<1> QED BY <1>1, <1>6, <1>7, <1>8, <1>9

\* Two writers have slots of their own; the owner is at neither.
LEMMA WritersApart ==
  ASSUME RingInv, NEW p \in Producers, Writing(p)
  PROVE  /\ pos[p] \in deqPos .. enqPos - 1 /\ pos[p] \in deqPos .. deqPos + Capacity - 1
         /\ \A n \in deqPos .. deqPos + Capacity - 1 : n # pos[p] => Slot(n) # Slot(pos[p])
         /\ \A q \in Producers \ {p} : Writing(q) => Slot(pos[q]) # Slot(pos[p])
         /\ cons \in {"take", "free"} => pos[p] # deqPos
<1> USE Numbers DEF RingInv
<1>1. pos[p] \in deqPos .. enqPos - 1 /\ pos[p] \in deqPos .. deqPos + Capacity - 1
  BY DEF WritersInv, WindowInv
<1>2. \A n \in deqPos .. deqPos + Capacity - 1 : n # pos[p] => Slot(n) # Slot(pos[p])
  BY <1>1, WindowSlots
<1>3. \A q \in Producers \ {p} : Writing(q) =>
          pos[q] # pos[p] /\ pos[q] \in deqPos .. deqPos + Capacity - 1
  BY DEF WritersInv, WindowInv
<1>4. cons \in {"take", "free"} => pos[p] # deqPos
  BY DEF WritersInv, OwnerInv
<1> QED BY <1>1, <1>2, <1>3, <1>4

LEMMA WriteStep ==
  ASSUME RingInv, NEW p \in Producers, WritePayload(p)
  PROVE  RingInv'
<1> USE Numbers DEF RingInv, Goto, consumerVars
<1> enqPos \in Nat /\ deqPos \in Nat /\ Capacity \in Nat /\ Capacity > 1
  OBVIOUS
<1>1. TypeInv'
  BY ProducerTypes DEF Producer
<1>2. /\ UNCHANGED <<closed, enqPos, seq, pos, calls, log, deqPos, cons, outItem>>
      /\ pc[p] = "write" /\ Writing(p) /\ pc' = [pc EXCEPT ![p] = "publish"]
      /\ payload' = [payload EXCEPT ![Slot(pos[p])] = ItemOf(p)]
  BY DEF WritePayload, Writing
<1>3. Slot(pos[p]) \in Slots
  BY SlotIsNatural
<1>4. WindowInv' /\ LagInv' /\ FreeInv' /\ SeekersInv' /\ OwnerInv'
  BY <1>2 DEF WindowInv, LagInv, FreeInv, SeekersInv, OwnerInv
<1>5. ClaimedInv'
  <2> SUFFICES ASSUME NEW n \in deqPos .. enqPos - 1
               PROVE  \/ seq[Slot(n)] = n
                      \/ seq[Slot(n)] = n + 1 /\ payload'[Slot(n)] = log[n + 1]
    BY <1>2 DEF ClaimedInv
  <2>1. CASE n = pos[p]
    BY <1>2, <2>1 DEF WritersInv
  <2>2. CASE n # pos[p]
    <3>1. n \in deqPos .. deqPos + Capacity - 1 /\ n \in Nat
      BY DEF WindowInv
    <3>2. Slot(n) \in Slots /\ Slot(n) # Slot(pos[p])
      BY <1>2, <2>2, <3>1, WritersApart, SlotIsNatural
    <3> QED BY <1>2, <3>2 DEF ClaimedInv
  <2> QED BY <2>1, <2>2
<1>6. WritersInv'
  <2>1. \A w \in Producers : Writing(w)' <=> Writing(w)
    BY <1>2 DEF Writing
  <2>2. \A w \in Producers \ {p} : Writing(w) =>
            payload'[Slot(pos[w])] = payload[Slot(pos[w])] /\ pc'[w] = pc[w]
    <3> SUFFICES ASSUME NEW w \in Producers \ {p}, Writing(w)
                 PROVE  payload'[Slot(pos[w])] = payload[Slot(pos[w])]
      BY <1>2
    <3>1. Slot(pos[w]) # Slot(pos[p]) /\ Slot(pos[w]) \in Slots
      BY <1>2, WritersApart, SlotIsNatural
    <3> QED BY <1>2, <3>1
  <2>3. payload'[Slot(pos[p])] = ItemOf(p)
    BY <1>2, <1>3
  <2> QED BY <1>2, <2>1, <2>2, <2>3 DEF WritersInv, ItemOf
<1> QED BY <1>1, <1>4, <1>5, <1>6

LEMMA PublishStep ==
  ASSUME RingInv, NEW p \in Producers, Publish(p)
  PROVE  RingInv'
<1> USE Numbers DEF RingInv, Goto, consumerVars
<1> enqPos \in Nat /\ deqPos \in Nat /\ Capacity \in Nat /\ Capacity > 1
  OBVIOUS
<1>1. TypeInv'
  BY ProducerTypes DEF Producer
<1>2. /\ UNCHANGED <<closed, enqPos, payload, pos, calls, log, deqPos, cons, outItem>>
      /\ pc[p] = "publish" /\ Writing(p) /\ pc' = [pc EXCEPT ![p] = "idle"]
      /\ seq' = [seq EXCEPT ![Slot(pos[p])] = pos[p] + 1]
  BY DEF Publish, Writing
<1>3. Slot(pos[p]) \in Slots /\ seq[Slot(pos[p])] = pos[p] /\ pos[p] \in Nat
  BY <1>2, SlotIsNatural DEF WritersInv
<1>4. \A n \in deqPos .. deqPos + Capacity - 1 :
          n # pos[p] => seq'[Slot(n)] = seq[Slot(n)]
  <2> SUFFICES ASSUME NEW n \in deqPos .. deqPos + Capacity - 1, n # pos[p]
               PROVE  seq'[Slot(n)] = seq[Slot(n)]
    OBVIOUS
  <2>1. Slot(n) # Slot(pos[p]) /\ Slot(n) \in Slots
    BY <1>2, WritersApart, SlotIsNatural
  <2> QED BY <1>2, <2>1
<1>5. WindowInv' /\ SeekersInv'
  BY <1>2 DEF WindowInv, SeekersInv
<1>6. LagInv'
  <2> SUFFICES ASSUME NEW n \in 0 .. deqPos + Capacity - 1 PROVE seq'[Slot(n)] >= n
    BY <1>2 DEF LagInv
  <2>1. seq[Slot(n)] >= n /\ Slot(n) \in Slots /\ n \in Nat
    BY SlotIsNatural DEF LagInv
  <2>2. seq'[Slot(n)] = seq[Slot(n)] \/ seq'[Slot(n)] = seq[Slot(n)] + 1
    BY <1>2, <1>3, <2>1
  <2> QED BY <2>1, <2>2
<1>7. FreeInv'
  <2>1. \A n \in enqPos .. deqPos + Capacity - 1 :
            n # pos[p] /\ n \in deqPos .. deqPos + Capacity - 1
    BY <1>2, WritersApart DEF WindowInv
  <2> QED BY <1>2, <1>4, <2>1 DEF FreeInv
<1>8. ClaimedInv'
  <2> SUFFICES ASSUME NEW n \in deqPos .. enqPos - 1
               PROVE  \/ seq'[Slot(n)] = n
                      \/ seq'[Slot(n)] = n + 1 /\ payload[Slot(n)] = log[n + 1]
    BY <1>2 DEF ClaimedInv
  <2>1. CASE n = pos[p]
    BY <1>2, <1>3, <2>1 DEF WritersInv
  <2>2. CASE n # pos[p]
    <3>1. seq'[Slot(n)] = seq[Slot(n)]
      BY <1>4, <2>2 DEF WindowInv
    <3> QED BY <3>1 DEF ClaimedInv
  <2> QED BY <2>1, <2>2
<1>9. WritersInv'
  <2>1. \A w \in Producers : Writing(w)' => w # p /\ Writing(w) /\ pc'[w] = pc[w]
    BY <1>2 DEF Writing
  <2>2. \A w \in Producers \ {p} : Writing(w) => seq'[Slot(pos[w])] = seq[Slot(pos[w])]
    <3> SUFFICES ASSUME NEW w \in Producers \ {p}, Writing(w)
                 PROVE  seq'[Slot(pos[w])] = seq[Slot(pos[w])]
      OBVIOUS
    <3>1. Slot(pos[w]) # Slot(pos[p]) /\ Slot(pos[w]) \in Slots
      BY <1>2, WritersApart, SlotIsNatural
    <3> QED BY <1>2, <3>1
  <2> QED BY <1>2, <2>1, <2>2 DEF WritersInv, ItemOf
<1>10. OwnerInv'
  <2>1. cons \in {"take", "free"} => seq'[Slot(deqPos)] = seq[Slot(deqPos)]
    <3> SUFFICES ASSUME cons \in {"take", "free"} PROVE seq'[Slot(deqPos)] = seq[Slot(deqPos)]
      OBVIOUS
    <3>1. deqPos # pos[p] /\ deqPos \in deqPos .. deqPos + Capacity - 1
      BY <1>2, WritersApart
    <3> QED BY <1>4, <3>1
  <2> QED BY <1>2, <2>1 DEF OwnerInv
<1> QED BY <1>1, <1>5, <1>6, <1>7, <1>8, <1>9, <1>10

\* The steps of the owner that leave the slots alone.
LEMMA OwnerLooks ==
  ASSUME RingInv, PollHit \/ TakePayload \/ PollMiss \/ TestClosed \/ Close
  PROVE  RingInv'
<1> USE Numbers DEF RingInv, producerVars, consumerVars
<1> enqPos \in Nat /\ deqPos \in Nat /\ Capacity \in Nat /\ Capacity > 1
  OBVIOUS
<1>1. TypeInv'
  BY ConsumerTypes DEF Consumer
<1>2. UNCHANGED <<enqPos, deqPos, seq, payload, pc, pos, calls, log>>
  BY DEF PollHit, TakePayload, PollMiss, TestClosed, Close
<1>3. WindowInv' /\ LagInv' /\ FreeInv' /\ ClaimedInv' /\ SeekersInv'
  BY <1>2 DEF WindowInv, LagInv, FreeInv, ClaimedInv, SeekersInv
<1>4. WritersInv'
  BY <1>2 DEF WritersInv, Writing, ItemOf
<1>5. OwnerInv'
  <2>1. HeadPublished => deqPos < enqPos
    <3>1. CASE deqPos = enqPos
      <4>1. seq[Slot(deqPos)] = deqPos
        BY <3>1 DEF FreeInv
      <4> QED BY <4>1 DEF HeadPublished
    <3> QED BY <3>1 DEF WindowInv
  <2>2. CASE PollHit
    BY <1>2, <2>1, <2>2 DEF PollHit, OwnerInv, HeadPublished
  <2>3. CASE TakePayload
    <3>1. payload[Slot(deqPos)] = log[deqPos + 1]
      <4>1. deqPos \in deqPos .. enqPos - 1 /\ seq[Slot(deqPos)] = deqPos + 1
        BY <2>3 DEF TakePayload, OwnerInv
      <4>2. deqPos + 1 # deqPos
        OBVIOUS
      <4> QED BY <4>1, <4>2 DEF ClaimedInv
    <3> QED BY <1>2, <2>3, <3>1 DEF TakePayload, OwnerInv
  <2>4. CASE PollMiss \/ TestClosed \/ Close
    BY <1>2, <2>4 DEF PollMiss, TestClosed, Close, OwnerInv
  <2> QED BY <2>2, <2>3, <2>4
<1> QED BY <1>1, <1>3, <1>4, <1>5

LEMMA FreeStep ==
  ASSUME RingInv, FreeSlot
  PROVE  RingInv'
<1> USE Numbers DEF RingInv, producerVars, consumerVars
<1> enqPos \in Nat /\ deqPos \in Nat /\ Capacity \in Nat /\ Capacity > 1
  OBVIOUS
<1>1. TypeInv'
  BY ConsumerTypes DEF Consumer
<1>2. /\ UNCHANGED <<closed, enqPos, payload, pc, pos, calls, log>>
      /\ cons = "free" /\ cons' = "poll" /\ deqPos' = deqPos + 1
      /\ seq' = [seq EXCEPT ![Slot(deqPos)] = deqPos + Capacity]
  BY DEF FreeSlot
<1>3. deqPos < enqPos /\ Slot(deqPos) \in Slots /\ seq[Slot(deqPos)] = deqPos + 1
  BY <1>2, SlotIsNatural DEF OwnerInv
<1>4. \A n \in deqPos + 1 .. deqPos + Capacity - 1 : seq'[Slot(n)] = seq[Slot(n)]
  <2> SUFFICES ASSUME NEW n \in deqPos + 1 .. deqPos + Capacity - 1
               PROVE  seq'[Slot(n)] = seq[Slot(n)]
    OBVIOUS
  <2>1. n \in Nat /\ deqPos < n /\ n < deqPos + Capacity
    OBVIOUS
  <2>2. Slot(n) # Slot(deqPos) /\ Slot(n) \in Slots
    BY <2>1, SlotsDiffer, SlotIsNatural
  <2> QED BY <1>2, <2>2
<1>5. seq'[Slot(deqPos + Capacity)] = deqPos + Capacity
  BY <1>2, <1>3, NextLap
<1>6. WindowInv' /\ SeekersInv' /\ OwnerInv'
  BY <1>2, <1>3 DEF WindowInv, SeekersInv, OwnerInv
<1>7. LagInv'
  <2> SUFFICES ASSUME NEW n \in 0 .. deqPos + Capacity PROVE seq'[Slot(n)] >= n
    BY <1>2 DEF LagInv
  <2>1. CASE n = deqPos + Capacity
    BY <1>5, <2>1
  <2>2. CASE n < deqPos + Capacity
    <3>1. seq[Slot(n)] >= n /\ Slot(n) \in Slots
      BY <2>2, SlotIsNatural DEF LagInv
    <3>2. CASE Slot(n) = Slot(deqPos)
      BY <1>2, <1>3, <2>2, <3>2
    <3>3. CASE Slot(n) # Slot(deqPos)
      BY <1>2, <3>1, <3>3
    <3> QED BY <3>2, <3>3
  <2> QED BY <2>1, <2>2
<1>8. FreeInv'
  <2> SUFFICES ASSUME NEW n \in enqPos .. deqPos + Capacity PROVE seq'[Slot(n)] = n
    BY <1>2 DEF FreeInv
  <2>1. CASE n = deqPos + Capacity
    BY <1>5, <2>1
  <2>2. CASE n < deqPos + Capacity
    BY <1>3, <1>4, <2>2 DEF FreeInv
  <2> QED BY <2>1, <2>2
<1>9. ClaimedInv'
  <2> SUFFICES ASSUME NEW n \in deqPos + 1 .. enqPos - 1
               PROVE  \/ seq'[Slot(n)] = n
                      \/ seq'[Slot(n)] = n + 1 /\ payload[Slot(n)] = log[n + 1]
    BY <1>2 DEF ClaimedInv
  <2>1. seq'[Slot(n)] = seq[Slot(n)]
    BY <1>4 DEF WindowInv
  <2> QED BY <2>1 DEF ClaimedInv
<1>10. WritersInv'
  <2>1. \A w \in Producers : Writing(w) =>
            /\ pos[w] \in deqPos + 1 .. enqPos - 1
            /\ seq'[Slot(pos[w])] = seq[Slot(pos[w])]
    <3> SUFFICES ASSUME NEW w \in Producers, Writing(w)
                 PROVE  /\ pos[w] \in deqPos + 1 .. enqPos - 1
                        /\ seq'[Slot(pos[w])] = seq[Slot(pos[w])]
      OBVIOUS
    <3>1. pos[w] \in deqPos + 1 .. enqPos - 1
      BY <1>2, WritersApart
    <3> QED BY <1>4, <3>1 DEF WindowInv
  <2> QED BY <1>2, <2>1 DEF WritersInv, Writing, ItemOf
<1> QED BY <1>1, <1>6, <1>7, <1>8, <1>9, <1>10

LEMMA InvStep == RingInv /\ [Next]_vars => RingInv'
<1> SUFFICES ASSUME RingInv, [Next]_vars PROVE RingInv'
  OBVIOUS
<1>1. ASSUME NEW p \in Producers, Producer(p) PROVE RingInv'
  BY <1>1, SeekerStep, ClaimStep, WriteStep, PublishStep DEF Producer
<1>2. CASE Consumer \/ Close
  BY <1>2, OwnerLooks, FreeStep DEF Consumer
<1>3. CASE UNCHANGED vars
  <2>1. TypeInv'
    BY <1>3, RingStep DEF RingInv
  <2>2. UNCHANGED <<enqPos, deqPos, seq, payload, pc, pos, calls, cons, outItem, log>>
    BY <1>3 DEF vars
  <2> QED BY <2>1, <2>2 DEF RingInv, WindowInv, LagInv, FreeInv, ClaimedInv, WritersInv,
        Writing, ItemOf, SeekersInv, OwnerInv
<1> QED BY <1>1, <1>2, <1>3 DEF Next

LEMMA RingInvHolds == Spec => []RingInv
BY InvInit, InvStep, PTL DEF Spec

\* The plain payload accesses of tryEnqueue and tryDequeue never race, however many producers
\* there are and however many slots (VyukovMpscRing, mt_queue.nim).
THEOREM SlotsAreExclusive == Spec => []SlotExclusive
<1>1. RingInv => SlotExclusive
  <2> SUFFICES ASSUME RingInv, NEW p \in Producers, Writing(p)
               PROVE  /\ \A q \in Producers \ {p} : Writing(q) => Slot(pos[q]) # Slot(pos[p])
                      /\ cons \in {"take", "free"} => Slot(pos[p]) # Slot(deqPos)
    BY DEF SlotExclusive, Writing
  <2>1. deqPos \in deqPos .. deqPos + Capacity - 1
    BY Numbers DEF RingInv
  <2> QED BY <2>1, WritersApart
<1> QED BY RingInvHolds, <1>1, PTL

\* tryEnqueue answers "full" only when every slot is claimed and not yet freed: a slot whose
\* sequence number lags behind the position is a lap behind, and the tail with it.
THEOREM FullOnlyWhenFull == Spec => FullMeansFull
<1>1. RingInv /\ [Next]_vars =>
        [\A p \in Producers :
           pc[p] = "seq" /\ pc'[p] = "idle" => enqPos - deqPos >= Capacity]_vars
  <2> SUFFICES ASSUME RingInv, [Next]_vars, NEW p \in Producers, pc[p] = "seq", pc'[p] = "idle"
               PROVE  enqPos - deqPos >= Capacity
    OBVIOUS
  <2> USE Numbers DEF RingInv
  <2>1. ReadSeq(p)
    <3>1. ASSUME NEW q \in Producers, Producer(q) PROVE q = p
      BY <3>1 DEF Producer, CheckClosed, LoadPos, ReadSeq, ClaimPos, ClaimFails, WritePayload,
           Publish, Goto
    <3>2. ~(Consumer \/ Close \/ UNCHANGED vars)
      BY DEF Consumer, PollHit, TakePayload, FreeSlot, PollMiss, TestClosed, Close, vars,
           producerVars
    <3>3. Producer(p)
      BY <3>1, <3>2 DEF Next
    <3> QED BY <3>3 DEF Producer, CheckClosed, LoadPos, ClaimPos, ClaimFails, WritePayload,
           Publish
  <2>2. pos[p] \in Nat /\ pos[p] <= enqPos /\ seq[Slot(pos[p])] \in Nat
    BY SlotIsNatural DEF SeekersInv
  <2>3. seq[Slot(pos[p])] < pos[p]
    BY <2>1, <2>2 DEF ReadSeq, AfterDiff, Goto
  <2>4. ~(pos[p] \in 0 .. deqPos + Capacity - 1)
    BY <2>2, <2>3 DEF LagInv
  <2> QED BY <2>2, <2>4
<1> QED BY RingInvHolds, <1>1, PTL DEF Spec, FullMeansFull

------------------------------------------------------------------------------
(* The ring implements the queue.                                             *)

Waiting == SubSeq(log, deqPos + 1, Len(log))

WaitingIsClaimed ==
    /\ Waiting \in Seq(Item) /\ Len(Waiting) = enqPos - deqPos
    /\ \A i \in 1 .. enqPos - deqPos : Waiting[i] = log[deqPos + i]

LEMMA WaitingItems == RingInv => WaitingIsClaimed
<1> SUFFICES ASSUME RingInv PROVE WaitingIsClaimed
  OBVIOUS
<1> USE Numbers DEF RingInv, WindowInv
<1> enqPos \in Nat /\ deqPos \in Nat /\ Capacity \in Nat /\ Capacity > 1
  OBVIOUS
<1>1. \A i \in deqPos + 1 .. enqPos : log[i] \in Item
  BY ElementOfSeq
<1>2. /\ SubSeq(log, deqPos + 1, enqPos) \in Seq(Item)
      /\ Len(SubSeq(log, deqPos + 1, enqPos))
           = IF deqPos + 1 <= enqPos THEN enqPos - (deqPos + 1) + 1 ELSE 0
      /\ \A i \in 1 .. enqPos - (deqPos + 1) + 1 :
             SubSeq(log, deqPos + 1, enqPos)[i] = log[deqPos + 1 + i - 1]
  BY <1>1, SubSeqProperties
<1>3. Len(log) = enqPos /\ deqPos \in Nat /\ enqPos \in Nat /\ deqPos <= enqPos
  OBVIOUS
<1> QED BY <1>2, <1>3 DEF Waiting, WaitingIsClaimed

\* A claim appends to the queue ...
LEMMA ClaimEnqueues ==
  ASSUME RingInv, RingInv', NEW p \in Producers, ClaimPos(p)
  PROVE  ItemOf(p) \in Item /\ Queue!Enqueue(ItemOf(p))
<1> USE Numbers
<1>1. /\ deqPos' = deqPos /\ delivered' = delivered /\ enqPos' = enqPos + 1
      /\ enqPos < deqPos + Capacity /\ log' = Append(log, ItemOf(p)) /\ pc[p] # "idle"
  BY DEF ClaimPos, consumerVars, RingInv, SeekersInv
<1>2. ItemOf(p) \in Item
  BY <1>1, OwnItem DEF RingInv
<1>3. /\ Waiting \in Seq(Item) /\ Len(Waiting) = enqPos - deqPos
      /\ \A i \in 1 .. enqPos - deqPos : Waiting[i] = log[deqPos + i]
  BY WaitingItems DEF WaitingIsClaimed
<1>4. WaitingIsClaimed'
  BY WaitingItems, PTL
<1>5. Waiting' = Append(Waiting, ItemOf(p))
  <2>1. /\ Append(Waiting, ItemOf(p)) \in Seq(Item)
        /\ Len(Append(Waiting, ItemOf(p))) = Len(Waiting) + 1
        /\ \A i \in 1 .. Len(Waiting) : Append(Waiting, ItemOf(p))[i] = Waiting[i]
        /\ Append(Waiting, ItemOf(p))[Len(Waiting) + 1] = ItemOf(p)
    BY <1>2, <1>3, AppendProperties
  <2>2. /\ \A i \in 1 .. enqPos : log'[i] = log[i]
        /\ log'[enqPos + 1] = ItemOf(p)
    BY <1>1, <1>2, AppendProperties DEF RingInv
  <2>3. deqPos \in Nat /\ enqPos \in Nat /\ deqPos <= enqPos
    BY DEF RingInv, WindowInv
  <2>4. Waiting' \in Seq(Item) /\ Len(Waiting') = enqPos - deqPos + 1
    BY <1>1, <1>4, <2>3 DEF WaitingIsClaimed
  <2>5. ASSUME NEW i \in 1 .. enqPos - deqPos + 1
        PROVE  Waiting'[i] = Append(Waiting, ItemOf(p))[i]
    <3>1. Waiting'[i] = log'[deqPos + i]
      <4>1. i \in 1 .. enqPos' - deqPos'
        BY <1>1, <2>3
      <4>2. Waiting'[i] = log'[deqPos' + i]
        BY <1>4, <4>1 DEF WaitingIsClaimed
      <4> QED BY <1>1, <4>2
    <3>2. CASE i = enqPos - deqPos + 1
      <4>1. Waiting'[i] = ItemOf(p)
        BY <2>2, <2>3, <3>1, <3>2
      <4>2. Append(Waiting, ItemOf(p))[i] = ItemOf(p)
        BY <1>3, <2>1, <2>3, <3>2
      <4> QED BY <4>1, <4>2
    <3>3. CASE i # enqPos - deqPos + 1
      <4>1. i \in 1 .. enqPos - deqPos /\ deqPos + i \in 1 .. enqPos
        BY <2>3, <3>3
      <4> QED BY <1>3, <2>1, <2>2, <3>1, <4>1
    <3> QED BY <3>2, <3>3
  <2> QED BY <1>3, <2>1, <2>3, <2>4, <2>5, SeqEqual
<1>6. Len(Waiting) < Capacity
  BY <1>1, <1>3 DEF RingInv
<1> QED BY <1>1, <1>2, <1>5, <1>6 DEF Queue!Enqueue, Waiting

\* ... freeing a slot takes the head off and delivers it ...
LEMMA FreeDequeues ==
  ASSUME RingInv, FreeSlot
  PROVE  Queue!Dequeue
<1> USE Numbers DEF RingInv
<1>1. /\ cons = "free" /\ deqPos' = deqPos + 1 /\ log' = log
      /\ delivered' = Append(delivered, outItem)
  BY DEF FreeSlot, producerVars
<1>2. deqPos < enqPos /\ outItem = log[deqPos + 1]
  BY <1>1 DEF OwnerInv
<1>3. deqPos + 1 \in 1 .. Len(log) /\ Len(log) \in deqPos + 1 .. Len(log)
  BY <1>2
<1>4. Head(Waiting) = log[deqPos + 1] /\ Tail(Waiting) = SubSeq(log, deqPos + 1 + 1, Len(log))
  BY <1>3, HeadTailOfSubSeq DEF Waiting
<1>5. Waiting # <<>>
  <2>1. Len(Waiting) # 0
    BY <1>2, WaitingItems DEF WaitingIsClaimed
  <2> QED BY <2>1
<1>6. Waiting' = Tail(Waiting)
  BY <1>1, <1>4 DEF Waiting
<1> QED BY <1>1, <1>2, <1>4, <1>5, <1>6 DEF Queue!Dequeue, Waiting

\* ... and no other step is seen by the queue's users.
LEMMA OthersStutter ==
  ASSUME RingInv, [Next]_vars, ~FreeSlot, \A p \in Producers : ~ClaimPos(p)
  PROVE  UNCHANGED <<log, deqPos, delivered>>
<1>1. ASSUME NEW p \in Producers, Producer(p) PROVE UNCHANGED <<log, deqPos, delivered>>
  BY <1>1 DEF Producer, CheckClosed, LoadPos, ReadSeq, ClaimFails, WritePayload, Publish,
       consumerVars
<1>2. CASE Consumer \/ Close
  BY <1>2 DEF Consumer, PollHit, TakePayload, PollMiss, TestClosed, Close, producerVars,
       consumerVars
<1> QED BY <1>1, <1>2 DEF Next, vars

\* The ring is a bounded FIFO queue: what is accepted is delivered at most once, in the order of
\* the claims, and nothing that waits is overwritten (tryEnqueue and tryDequeue, mt_queue.nim).
THEOREM RingIsQueue == Spec => ImplementsQueue
<1>1. Init => Queue!Init
  <2> SUFFICES ASSUME Init PROVE Waiting = <<>> /\ delivered = <<>>
    BY DEF Queue!Init, Waiting
  <2>1. log = <<>> /\ deqPos = 0 /\ Len(log) = 0
    BY DEF Init
  <2>2. SubSeq(log, 1, 0) = <<>>
    BY SubSeqEmpty
  <2> QED BY <2>1, <2>2 DEF Init, Waiting
<1>2. RingInv /\ RingInv' /\ [Next]_vars => [Queue!Next]_(Queue!vars)
  <2> SUFFICES ASSUME RingInv, RingInv', [Next]_vars PROVE [Queue!Next]_(Queue!vars)
    OBVIOUS
  <2>1. CASE \E p \in Producers : ClaimPos(p)
    BY <2>1, ClaimEnqueues DEF Queue!Next
  <2>2. CASE FreeSlot
    BY <2>2, FreeDequeues DEF Queue!Next
  <2>3. CASE ~FreeSlot /\ \A p \in Producers : ~ClaimPos(p)
    BY <2>3, OthersStutter DEF Queue!vars
  <2> QED BY <2>1, <2>2, <2>3
<1> QED BY RingInvHolds, <1>1, <1>2, PTL DEF Spec, ImplementsQueue, Queue!Spec
==============================================================================
