----------------------------- MODULE VyukovRing -----------------------------
(***************************************************************************)
(* VyukovMpscRing (brokers/internal/mt_queue.nim): the bounded ring that   *)
(* carries cell indices from any number of sender threads to the one       *)
(* thread that owns a bucket, and the poll fn that drains it and retires   *)
(* when it finds the ring closed and empty (pollCell, mt_transport.nim).   *)
(*                                                                         *)
(* One action per atomic access.  Atomics are sequentially consistent      *)
(* here; ring positions are unbounded (the code's are 64 bits wide).       *)
(***************************************************************************)
EXTENDS Integers, Sequences

CONSTANTS
    Producers,  \* threads that call tryEnqueue
    Capacity,   \* slots of the ring
    MaxCalls    \* bound: tryEnqueue calls per producer

\* Slot sequence numbers tell a published slot from a free one only if there
\* are two slots or more; the code asserts no more than a power of two.
ASSUME CapacityAssumption == Capacity \in Nat /\ Capacity > 1
ASSUME MaxCallsAssumption == MaxCalls \in Nat

VARIABLES
    closed, enqPos, deqPos,
    seq,        \* slots[i].seq
    payload,    \* slots[i].payload
    pc,         \* where producer p is in tryEnqueue
    pos,        \* its local `pos`
    calls,      \* tryEnqueue calls it has made: <<p, calls[p]>> is its item
    cons,       \* where the owner thread is: tryDequeue, pollCell or retired
    outItem,    \* the consumer's local copy of the payload
    log,        \* history: items in the order their slots were claimed
    delivered   \* history: items in the order they were dequeued

vars == <<closed, enqPos, deqPos, seq, payload, pc, pos, calls, cons, outItem,
          log, delivered>>

producerVars == <<enqPos, pc, pos, calls, log>>
consumerVars == <<deqPos, cons, outItem, delivered>>

Item == Producers \X (1 .. MaxCalls)
None == <<>>
Slot(n) == n % Capacity
Slots == 0 .. Capacity - 1
ItemOf(p) == <<p, calls[p]>>
Has(items, x) == \E k \in DOMAIN items : items[k] = x

Init ==
    /\ closed = FALSE
    /\ enqPos = 0 /\ deqPos = 0
    /\ seq = [i \in Slots |-> i]
    /\ payload = [i \in Slots |-> None]
    /\ pc = [p \in Producers |-> "idle"]
    /\ pos = [p \in Producers |-> 0]
    /\ calls = [p \in Producers |-> 0]
    /\ cons = "poll" /\ outItem = None
    /\ log = <<>> /\ delivered = <<>>

-----------------------------------------------------------------------------
(* tryEnqueue, by producer p.                                              *)

Goto(p, label) == pc' = [pc EXCEPT ![p] = label]

\* Call; the first step reads `closed` and gives up on a closed ring.
CheckClosed(p) ==
    /\ pc[p] = "idle" /\ calls[p] < MaxCalls
    /\ calls' = [calls EXCEPT ![p] = @ + 1]
    /\ Goto(p, IF closed THEN "idle" ELSE "load")
    /\ UNCHANGED <<closed, enqPos, seq, payload, pos, log, consumerVars>>

LoadPos(p) ==
    /\ pc[p] = "load"
    /\ pos' = [pos EXCEPT ![p] = enqPos]
    /\ Goto(p, "seq")
    /\ UNCHANGED <<closed, enqPos, seq, payload, calls, log, consumerVars>>

\* Mutant: every difference but 0 read as "full".
AfterDiff_AheadIsFull(diff) == IF diff = 0 THEN "cas" ELSE "idle"

\* diff = slot.seq - pos: 0 the slot is free, < 0 the ring is full (return
\* false), > 0 another producer is ahead (reload pos).
AfterDiff(diff) ==
    IF diff = 0 THEN "cas" ELSE IF diff < 0 THEN "idle" ELSE "load"

ReadSeq(p) ==
    /\ pc[p] = "seq"
    /\ Goto(p, AfterDiff(seq[Slot(pos[p])] - pos[p]))
    /\ UNCHANGED <<closed, enqPos, seq, payload, pos, calls, log, consumerVars>>

\* Mutant: the position is claimed with a store instead of a compare-and-swap.
ClaimPos_Store(p) ==
    /\ pc[p] = "cas"
    /\ enqPos' = pos[p] + 1
    /\ log' = Append(log, ItemOf(p))
    /\ Goto(p, "write")
    /\ UNCHANGED <<closed, seq, payload, pos, calls, consumerVars>>

ClaimPos(p) ==
    /\ pc[p] = "cas" /\ enqPos = pos[p]
    /\ enqPos' = enqPos + 1
    /\ log' = Append(log, ItemOf(p))
    /\ Goto(p, "write")
    /\ UNCHANGED <<closed, seq, payload, pos, calls, consumerVars>>

\* The compare-and-swap is weak: it may fail although enqPos = pos.
ClaimFails(p) ==
    /\ pc[p] = "cas"
    /\ pos' = [pos EXCEPT ![p] = enqPos]
    /\ Goto(p, "seq")
    /\ UNCHANGED <<closed, enqPos, seq, payload, calls, log, consumerVars>>

WritePayload(p) ==
    /\ pc[p] = "write"
    /\ payload' = [payload EXCEPT ![Slot(pos[p])] = ItemOf(p)]
    /\ Goto(p, "publish")
    /\ UNCHANGED <<closed, enqPos, seq, pos, calls, log, consumerVars>>

\* Mutant: the slot is published with pos instead of pos + 1.
Publish_OffByOne(p) ==
    /\ pc[p] = "publish"
    /\ seq' = [seq EXCEPT ![Slot(pos[p])] = pos[p]]
    /\ Goto(p, "idle")
    /\ UNCHANGED <<closed, enqPos, payload, pos, calls, log, consumerVars>>

Publish(p) ==
    /\ pc[p] = "publish"
    /\ seq' = [seq EXCEPT ![Slot(pos[p])] = pos[p] + 1]
    /\ Goto(p, "idle")
    /\ UNCHANGED <<closed, enqPos, payload, pos, calls, log, consumerVars>>

Producer(p) ==
    \/ CheckClosed(p) \/ LoadPos(p) \/ ReadSeq(p)
    \/ ClaimPos(p) \/ ClaimFails(p) \/ WritePayload(p) \/ Publish(p)

-----------------------------------------------------------------------------
(* The owner thread: pollCell -> tryDequeue, and ring.close().             *)

\* Mutant: a slot that is merely free for this lap counts as published.
HeadPublished_OffByOne == seq[Slot(deqPos)] >= deqPos

HeadPublished == seq[Slot(deqPos)] = deqPos + 1

PollHit ==
    /\ cons = "poll" /\ HeadPublished
    /\ cons' = "take"
    /\ UNCHANGED <<closed, seq, payload, producerVars, deqPos, outItem, delivered>>

TakePayload ==
    /\ cons = "take"
    /\ outItem' = payload[Slot(deqPos)]
    /\ cons' = "free"
    /\ UNCHANGED <<closed, seq, payload, producerVars, deqPos, delivered>>

FreeSlot ==
    /\ cons = "free"
    /\ seq' = [seq EXCEPT ![Slot(deqPos)] = deqPos + Capacity]
    /\ deqPos' = deqPos + 1
    /\ delivered' = Append(delivered, outItem)
    /\ outItem' = None
    /\ cons' = "poll"
    /\ UNCHANGED <<closed, payload, producerVars>>

PollMiss ==
    /\ cons = "poll" /\ ~HeadPublished
    /\ cons' = "miss"
    /\ UNCHANGED <<closed, seq, payload, producerVars, deqPos, outItem, delivered>>

\* mpsClosed retires the poll fn; mpsEmpty leaves it registered.
TestClosed ==
    /\ cons = "miss"
    /\ cons' = IF closed THEN "retired" ELSE "poll"
    /\ UNCHANGED <<closed, seq, payload, producerVars, deqPos, outItem, delivered>>

\* clearProvider, dropSignalHandler and event shutdown close the ring on the
\* owner's thread, so never in the middle of a poll.
Close ==
    /\ ~closed /\ cons = "poll"
    /\ closed' = TRUE
    /\ UNCHANGED <<seq, payload, producerVars, consumerVars>>

Consumer == PollHit \/ TakePayload \/ FreeSlot \/ PollMiss \/ TestClosed

\* The owner has left and no producer has a call to make or to finish.
Quiescent ==
    /\ cons = "retired"
    /\ \A p \in Producers : pc[p] = "idle" /\ calls[p] = MaxCalls

Next ==
    \/ \E p \in Producers : Producer(p)
    \/ Consumer
    \/ Close
    \/ Quiescent /\ UNCHANGED vars

Spec == Init /\ [][Next]_vars

\* Threads inside tryEnqueue are scheduled; a compare-and-swap that is tried
\* again and again succeeds; the owner's dispatch loop keeps polling.  Nobody
\* has to call tryEnqueue and nobody has to close the ring.
Fairness ==
    /\ \A p \in Producers :
        /\ WF_vars(LoadPos(p) \/ ReadSeq(p) \/ ClaimFails(p))
        /\ SF_vars(ClaimPos(p))
        /\ WF_vars(WritePayload(p) \/ Publish(p))
    /\ WF_vars(Consumer)

FairSpec == Spec /\ Fairness

-----------------------------------------------------------------------------
(* Properties.                                                             *)

\* Every variable has its type: positions count up, every slot holds an item
\* or nothing, the histories are as long as the positions.
TypeOK ==
    /\ closed \in BOOLEAN
    /\ enqPos \in Nat /\ deqPos \in Nat
    /\ seq \in [Slots -> Nat]
    /\ payload \in [Slots -> Item \cup {None}]
    /\ pc \in [Producers -> {"idle", "load", "seq", "cas", "write", "publish"}]
    /\ pos \in [Producers -> Nat]
    /\ calls \in [Producers -> 0 .. MaxCalls]
    /\ cons \in {"poll", "take", "free", "miss", "retired"}
    /\ outItem \in Item \cup {None}
    /\ log \in Seq(Item) /\ Len(log) = enqPos
    /\ delivered \in Seq(Item \cup {None}) /\ Len(delivered) = deqPos

\* The plain (non-atomic) payload accesses of tryEnqueue and tryDequeue never
\* race: the slot a producer is about to write belongs to no other producer
\* and is not the slot the consumer is reading.
SlotExclusive ==
    \A p \in Producers : pc[p] \in {"write", "publish"} =>
        /\ \A q \in Producers \ {p} :
            pc[q] \in {"write", "publish"} => Slot(pos[q]) # Slot(pos[p])
        /\ cons \in {"take", "free"} => Slot(pos[p]) # Slot(deqPos)

\* The ring is a bounded FIFO queue: an item is accepted when its slot is
\* claimed and leaves when its slot is freed; what comes out is what went in,
\* in claim order, once, and a slot is never claimed over a waiting item.
Queue == INSTANCE MpscQueue WITH queue <- SubSeq(log, deqPos + 1, Len(log))
ImplementsQueue == Queue!Spec

\* tryEnqueue answers "full" only when the ring is full: every slot is claimed
\* and not yet freed ("Full: slot.seq lags pos", mt_queue.nim).
FullMeansFull ==
    [][\A p \in Producers :
        pc[p] = "seq" /\ pc'[p] = "idle" => enqPos - deqPos >= Capacity]_vars

\* While the ring stays open, every accepted item reaches the consumer.
AcceptedDelivered ==
    \A x \in Item : Has(log, x) ~> closed \/ Has(delivered, x)

\* "closed + empty is the definitive drained point" (mt_transport.nim): when
\* the poll fn retires, nothing accepted is left in the ring, nor ever will be.
DrainedWhenRetired == cons = "retired" => deqPos = enqPos
=============================================================================
