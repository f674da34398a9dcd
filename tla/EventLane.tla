------------------------------ MODULE EventLane ------------------------------
(***************************************************************************)
(* One event type and one context of the multi-thread EventBroker          *)
(* (mt_event_broker.nim): a listening thread has a bucket with a ring and  *)
(* a table of handlers; an emit looks up the buckets under the registry    *)
(* lock, leases their rings, and sends one cell of the global slab to all  *)
(* of them.                                                                *)
(*                                                                         *)
(* The ring is a sequence (VyukovRing says what it promises), whose        *)
(* tryEnqueue reads `closed` before it claims.  A handler does not suspend,*)
(* and a thread that ends without its shutdown is one that takes no more   *)
(* steps: teardownBrokerThread touches nothing of an event broker.         *)
(***************************************************************************)
EXTENDS Naturals, Sequences, FiniteSets

CONSTANTS
    Threads,
    Emitting, Listening, Dropping, \* threads that emit, listen, call dropAllListeners
    Nobody,       \* the owner of a bucket that was not made yet
    Cells,        \* of the slab
    Clear,        \* CtrlClearListeners
    Depth,        \* capacity of a ring
    MaxSends,     \* bound: calls of emit and dropAllListeners on each thread
    MaxListens,   \* bound: calls of listen
    MaxBuckets    \* bound: buckets made

ASSUME LaneAssumption ==
    /\ IsFiniteSet(Threads) /\ Nobody \notin Threads
    /\ Emitting \subseteq Threads /\ Listening \subseteq Threads /\ Dropping \subseteq Threads
    /\ IsFiniteSet(Cells) /\ Clear \notin Cells
    /\ Depth \in Nat \ {0}
    /\ MaxSends \in Nat /\ MaxListens \in Nat /\ MaxBuckets \in Nat

VARIABLES
    listed,       \* buckets in the registry; they are numbered as they are made
    made, owner, hasListeners, closed, ring,
    refs, freed,  \* of each ring, its lease
    free,         \* how often a cell is on the free list
    count, event, \* of each cell, its references and what was marshalled into it
    handlers,     \* of each thread, its table; handlers are numbered
    listens,
    loop, woken, pollers, todo, work, \* its dispatch loop, as in RequestLane
    closing,      \* buckets its shutdown waits for
    at, item, left, held, sent, \* where it is in emit or dropAllListeners, what it sends,
                  \* the rings that are left, the leases it holds, its calls of either
    heard,        \* history: the events a thread's handlers were called with, each with the
                  \* bucket it came through, 0 for its own events
    refused       \* history: threads whose ring did not take a control value

bucketVars == <<listed, made, owner, hasListeners, closed>>
leaseVars == <<refs, freed>>
slabVars == <<free, count, event>>
tableVars == <<handlers, listens>>
loopVars == <<loop, pollers, todo, work>>
sendVars == <<at, item, left, held, sent>>
vars == <<bucketVars, ring, leaseVars, slabVars, tableVars, loopVars, woken, closing,
          sendVars, heard, refused>>

Buckets == 1 .. MaxBuckets
Events == Emitting \X (1 .. MaxSends)
Least(S) == CHOOSE k \in S : \A j \in S : k <= j
Own(t) == {k \in listed : owner[k] = t}

\* Sync code of the thread runs: on its event loop, or inside a handler
UserCode(t) == at[t] = "free" /\ loop[t] \in {"off", "idle", "handler"}

\* fireBrokerSignal, for each of the threads
Fire(T) == woken' = [t \in Threads |-> woken[t] \/ (t \in T /\ loop[t] # "off")]

\* releaseLease, one reference of each
Release(K) ==
    /\ refs' = [k \in Buckets |-> IF k \in K THEN refs[k] - 1 ELSE refs[k]]
    /\ freed' = freed \cup {k \in K : refs[k] = 1}

Acquire(K) == refs' = [k \in Buckets |-> IF k \in K THEN refs[k] + 1 ELSE refs[k]]

\* releaseCellRef; what a free cell holds is of no use to anybody
ReleaseCell(c) ==
    /\ count' = [count EXCEPT ![c] = @ - 1]
    /\ IF count[c] = 1 THEN free' = [free EXCEPT ![c] = @ + 1] /\ event' = [event EXCEPT ![c] = <<>>]
                       ELSE UNCHANGED <<free, event>>

Init ==
    /\ listed = {} /\ made = 0 /\ owner = [k \in Buckets |-> Nobody]
    /\ hasListeners = [k \in Buckets |-> FALSE] /\ closed = [k \in Buckets |-> FALSE]
    /\ ring = [k \in Buckets |-> <<>>]
    /\ refs = [k \in Buckets |-> 0] /\ freed = {}
    /\ free = [c \in Cells |-> 1] /\ count = [c \in Cells |-> 0]
    /\ event = [c \in Cells |-> <<>>]
    /\ handlers = [t \in Threads |-> {}] /\ listens = 0
    /\ loop = [t \in Threads |-> "off"] /\ woken = [t \in Threads |-> FALSE]
    /\ pollers = [t \in Threads |-> {}] /\ todo = [t \in Threads |-> {}]
    /\ work = [t \in Threads |-> FALSE] /\ closing = [t \in Threads |-> {}]
    /\ at = [t \in Threads |-> "free"] /\ item = [t \in Threads |-> Clear]
    /\ left = [t \in Threads |-> {}] /\ held = [t \in Threads |-> {}]
    /\ sent = [t \in Threads |-> 0]
    /\ heard = [t \in Threads |-> <<>>] /\ refused = {}

-------------------------------------------------------------------------------
(* listen, dropListener *)

\* A bucket with its reference and the poll fn's; the first one starts the dispatch loop
MakeBucket(t) ==
    LET k == made + 1 IN
    /\ k \in Buckets
    /\ made' = k /\ listed' = listed \cup {k}
    /\ owner' = [owner EXCEPT ![k] = t]
    /\ hasListeners' = [hasListeners EXCEPT ![k] = TRUE]
    /\ refs' = [refs EXCEPT ![k] = 2]
    /\ pollers' = [pollers EXCEPT ![t] = @ \cup {k}]
    /\ IF loop[t] = "off"
         THEN loop' = [loop EXCEPT ![t] = "polling"] /\ todo' = [todo EXCEPT ![t] = {k}]
         ELSE /\ todo' = IF loop[t] = "handler" THEN [todo EXCEPT ![t] = @ \cup {k}] ELSE todo
              /\ UNCHANGED loop

Listen(t) ==
    /\ t \in Listening /\ UserCode(t) /\ listens < MaxListens
    /\ listens' = listens + 1
    /\ handlers' = [handlers EXCEPT ![t] = @ \cup {listens + 1}]
    /\ IF Own(t) # {}
         THEN /\ hasListeners' = [k \in Buckets |-> hasListeners[k] \/ k \in Own(t)]
              /\ UNCHANGED <<listed, made, owner, refs, loop, pollers, todo>>
         ELSE MakeBucket(t)
    /\ UNCHANGED <<closed, ring, freed, slabVars, work, woken, closing, sendVars, heard,
                   refused>>

DropListener(t, h) ==
    /\ UserCode(t) /\ h \in handlers[t]
    /\ handlers' = [handlers EXCEPT ![t] = @ \ {h}]
    /\ hasListeners' = [k \in Buckets |->
           hasListeners[k] /\ (k \in Own(t) => handlers[t] # {h})]
    /\ UNCHANGED <<listed, made, owner, closed, ring, leaseVars, slabVars, listens,
                   loopVars, woken, closing, sendVars, heard, refused>>

-------------------------------------------------------------------------------
(* emit and dropAllListeners *)

Targets == {k \in listed : hasListeners[k]}

\* Mutant: no leases are taken
Emit_NoLease(t) ==
    /\ t \in Emitting /\ UserCode(t) /\ sent[t] < MaxSends
    /\ sent' = [sent EXCEPT ![t] = @ + 1]
    /\ heard' = IF Targets \cap Own(t) # {} /\ handlers[t] # {}
                  THEN [heard EXCEPT ![t] = Append(@, <<0, <<t, sent[t] + 1>>>>)] ELSE heard
    /\ left' = [left EXCEPT ![t] = Targets \ Own(t)]
    /\ held' = [held EXCEPT ![t] = Targets \ Own(t)]
    /\ at' = IF Targets \ Own(t) = {} THEN at ELSE [at EXCEPT ![t] = "claim"]
    /\ UNCHANGED <<bucketVars, ring, leaseVars, slabVars, tableVars, loopVars, woken, closing,
                   item, refused>>

\* The lookup and the leases under the lock, then the handlers of this thread
Emit(t) ==
    /\ t \in Emitting /\ UserCode(t) /\ sent[t] < MaxSends
    /\ sent' = [sent EXCEPT ![t] = @ + 1]
    /\ heard' = IF Targets \cap Own(t) # {} /\ handlers[t] # {}
                  THEN [heard EXCEPT ![t] = Append(@, <<0, <<t, sent[t] + 1>>>>)] ELSE heard
    /\ left' = [left EXCEPT ![t] = Targets \ Own(t)]
    /\ held' = [held EXCEPT ![t] = Targets \ Own(t)]
    /\ Acquire(Targets \ Own(t))
    /\ at' = IF Targets \ Own(t) = {} THEN at ELSE [at EXCEPT ![t] = "claim"]
    /\ UNCHANGED <<bucketVars, ring, freed, slabVars, tableVars, loopVars, woken, closing,
                   item, refused>>

\* Mutant: one reference whatever the number of targets
ClaimCell_OneRef(t) ==
    /\ at[t] = "claim"
    /\ \E c \in Cells :
         /\ free[c] > 0
         /\ free' = [free EXCEPT ![c] = @ - 1]
         /\ count' = [count EXCEPT ![c] = 1]
         /\ event' = [event EXCEPT ![c] = <<t, sent[t]>>]
         /\ item' = [item EXCEPT ![t] = c] /\ at' = [at EXCEPT ![t] = "test"]
    /\ UNCHANGED <<bucketVars, ring, leaseVars, tableVars, loopVars, woken, closing, left,
                   held, sent, heard, refused>>

\* One cell with a reference for each target; it is private until it is enqueued.  The event is
\* dropped when the slab, which all contexts share, is exhausted, and when it does not fit
ClaimCell(t) ==
    /\ at[t] = "claim"
    /\ \/ \E c \in Cells :
            /\ free[c] > 0
            /\ free' = [free EXCEPT ![c] = @ - 1]
            /\ count' = [count EXCEPT ![c] = Cardinality(left[t])]
            /\ event' = [event EXCEPT ![c] = <<t, sent[t]>>]
            /\ item' = [item EXCEPT ![t] = c] /\ at' = [at EXCEPT ![t] = "test"]
            /\ UNCHANGED left
       \/ /\ at' = [at EXCEPT ![t] = "release"] /\ left' = [left EXCEPT ![t] = {}]
          /\ UNCHANGED <<slabVars, item>>
    /\ UNCHANGED <<bucketVars, ring, leaseVars, tableVars, loopVars, woken, closing, held,
                   sent, heard, refused>>

\* The flags and the leases under the lock, then the table of this thread
DropAllListeners(t) ==
    /\ t \in Dropping /\ UserCode(t) /\ sent[t] < MaxSends
    /\ sent' = [sent EXCEPT ![t] = @ + 1]
    /\ hasListeners' = [k \in Buckets |-> hasListeners[k] /\ k \notin listed]
    /\ handlers' = [handlers EXCEPT ![t] = {}]
    /\ left' = [left EXCEPT ![t] = Targets \ Own(t)]
    /\ held' = [held EXCEPT ![t] = Targets \ Own(t)]
    /\ Acquire(Targets \ Own(t))
    /\ item' = [item EXCEPT ![t] = Clear]
    /\ at' = IF Targets \ Own(t) = {} THEN at ELSE [at EXCEPT ![t] = "test"]
    /\ UNCHANGED <<listed, made, owner, closed, ring, freed, slabVars, listens, loopVars, woken,
                   closing, heard, refused>>

\* The next ring, in the order of the registry
To(t) == Least(left[t])
NextTarget(t) ==
    /\ left' = [left EXCEPT ![t] = @ \ {To(t)}]
    /\ at' = [at EXCEPT ![t] = IF left[t] = {To(t)} THEN "release" ELSE "test"]

\* An emit goes on to the next target and releases its leases when it returns;
\* dropAllListeners releases each one before it goes on
AfterWake(t) ==
    IF item[t] = Clear THEN at' = [at EXCEPT ![t] = "release"] /\ UNCHANGED left
                       ELSE NextTarget(t)

\* Mutant: a target that refuses keeps its reference
Refused_Kept(t) ==
    IF item[t] = Clear
      THEN /\ refused' = refused \cup {owner[To(t)]} /\ at' = [at EXCEPT ![t] = "wake"]
           /\ UNCHANGED <<left, slabVars>>
      ELSE NextTarget(t) /\ UNCHANGED <<slabVars, refused>>

\* A cell gives its reference back; a control value is gone, but the thread is woken
Refused(t) ==
    IF item[t] = Clear
      THEN /\ refused' = refused \cup {owner[To(t)]} /\ at' = [at EXCEPT ![t] = "wake"]
           /\ UNCHANGED <<left, slabVars>>
      ELSE ReleaseCell(item[t]) /\ NextTarget(t) /\ UNCHANGED refused

\* tryEnqueue: the test of `closed`, then the claim of a slot
TestClosed(t) ==
    /\ at[t] = "test"
    /\ IF closed[To(t)]
         THEN Refused(t)
         ELSE at' = [at EXCEPT ![t] = "put"] /\ UNCHANGED <<left, slabVars, refused>>
    /\ UNCHANGED <<bucketVars, ring, leaseVars, tableVars, loopVars, woken, closing, item,
                   held, sent, heard>>

Put(t) ==
    /\ at[t] = "put"
    /\ IF Len(ring[To(t)]) < Depth
         THEN /\ ring' = [ring EXCEPT ![To(t)] = Append(@, item[t])]
              /\ at' = [at EXCEPT ![t] = "wake"]
              /\ UNCHANGED <<left, slabVars, refused>>
         ELSE Refused(t) /\ UNCHANGED ring
    /\ UNCHANGED <<bucketVars, leaseVars, tableVars, loopVars, woken, closing, item,
                   held, sent, heard>>

\* Mutant: nobody is woken
Wake_Forgotten(t) ==
    /\ at[t] = "wake" /\ AfterWake(t)
    /\ UNCHANGED <<bucketVars, ring, leaseVars, slabVars, tableVars, loopVars, woken, closing,
                   item, held, sent, heard, refused>>

Wake(t) ==
    /\ at[t] = "wake" /\ AfterWake(t)
    /\ Fire({owner[To(t)]})
    /\ UNCHANGED <<bucketVars, ring, leaseVars, slabVars, tableVars, loopVars, closing,
                   item, held, sent, heard, refused>>

ReleaseLeases(t) ==
    /\ at[t] = "release"
    /\ LET K == IF left[t] = {} THEN held[t] ELSE {To(t)} IN
         /\ Release(K)
         /\ held' = [held EXCEPT ![t] = @ \ K] /\ left' = [left EXCEPT ![t] = @ \ K]
         /\ IF left[t] \subseteq K
              THEN at' = [at EXCEPT ![t] = "free"] /\ item' = [item EXCEPT ![t] = Clear]
              ELSE at' = [at EXCEPT ![t] = "test"] /\ UNCHANGED item
    /\ UNCHANGED <<bucketVars, ring, slabVars, tableVars, loopVars, woken, closing, sent,
                   heard, refused>>

Send(t) == ClaimCell(t) \/ TestClosed(t) \/ Put(t) \/ Wake(t) \/ ReleaseLeases(t)

-------------------------------------------------------------------------------
(* The dispatch loop of a listening thread *)

WakeUp(t) ==
    /\ at[t] = "free" /\ loop[t] = "idle" /\ woken[t]
    /\ woken' = [woken EXCEPT ![t] = FALSE]
    /\ loop' = [loop EXCEPT ![t] = "polling"]
    /\ todo' = [todo EXCEPT ![t] = pollers[t]] /\ work' = [work EXCEPT ![t] = FALSE]
    /\ UNCHANGED <<bucketVars, ring, leaseVars, slabVars, tableVars, pollers, closing,
                   sendVars, heard, refused>>

Polls(t, k) == loop[t] = "polling" /\ k \in todo[t] /\ todo' = [todo EXCEPT ![t] = @ \ {k}]

\* The value is copied, the cell released, and the handlers registered now are called
PollValue(t, k) ==
    /\ Polls(t, k) /\ ring[k] # <<>> /\ Head(ring[k]) # Clear
    /\ ring' = [ring EXCEPT ![k] = Tail(@)]
    /\ ReleaseCell(Head(ring[k]))
    /\ IF handlers[t] = {}
         THEN UNCHANGED <<heard, loop>>
         ELSE /\ heard' = [heard EXCEPT ![t] = Append(@, <<k, event[Head(ring[k])]>>)]
              /\ loop' = [loop EXCEPT ![t] = "handler"]
    /\ work' = [work EXCEPT ![t] = TRUE]
    /\ UNCHANGED <<bucketVars, leaseVars, tableVars, pollers, woken, closing, sendVars, refused>>

\* Mutant: the control value is taken for a cell that does not unmarshal
PollClear_Ignored(t, k) ==
    /\ Polls(t, k) /\ ring[k] # <<>> /\ Head(ring[k]) = Clear
    /\ ring' = [ring EXCEPT ![k] = Tail(@)]
    /\ work' = [work EXCEPT ![t] = TRUE]
    /\ UNCHANGED <<bucketVars, leaseVars, slabVars, tableVars, loop, pollers, woken, closing,
                   sendVars, heard, refused>>

PollClear(t, k) ==
    /\ Polls(t, k) /\ ring[k] # <<>> /\ Head(ring[k]) = Clear
    /\ ring' = [ring EXCEPT ![k] = Tail(@)]
    /\ handlers' = [handlers EXCEPT ![t] = {}]
    /\ work' = [work EXCEPT ![t] = TRUE]
    /\ UNCHANGED <<bucketVars, leaseVars, slabVars, listens, loop, pollers, woken, closing,
                   sendVars, heard, refused>>

PollEmpty(t, k) ==
    /\ Polls(t, k) /\ ring[k] = <<>> /\ ~closed[k]
    /\ UNCHANGED <<bucketVars, ring, leaseVars, slabVars, tableVars, loop, pollers, work,
                   woken, closing, sendVars, heard, refused>>

\* Closed and empty: the poll fn drops its reference and is removed
PollRetires(t, k) ==
    /\ Polls(t, k) /\ ring[k] = <<>> /\ closed[k]
    /\ Release({k})
    /\ pollers' = [pollers EXCEPT ![t] = @ \ {k}]
    /\ UNCHANGED <<bucketVars, ring, slabVars, tableVars, loop, work, woken, closing,
                   sendVars, heard, refused>>

HandlerYields(t) ==
    /\ at[t] = "free" /\ loop[t] = "handler"
    /\ loop' = [loop EXCEPT ![t] = "polling"]
    /\ UNCHANGED <<bucketVars, ring, leaseVars, slabVars, tableVars, pollers, todo, work,
                   woken, closing, sendVars, heard, refused>>

\* drainBrokerPollers makes passes until one finds no work
PassEnds(t) ==
    /\ loop[t] = "polling" /\ todo[t] = {}
    /\ IF work[t]
         THEN /\ todo' = [todo EXCEPT ![t] = pollers[t]] /\ work' = [work EXCEPT ![t] = FALSE]
              /\ UNCHANGED loop
         ELSE loop' = [loop EXCEPT ![t] = "idle"] /\ UNCHANGED <<todo, work>>
    /\ UNCHANGED <<bucketVars, ring, leaseVars, slabVars, tableVars, pollers, woken, closing,
                   sendVars, heard, refused>>

Dispatch(t) ==
    \/ WakeUp(t) \/ HandlerYields(t) \/ PassEnds(t)
    \/ \E k \in Buckets : PollValue(t, k) \/ PollClear(t, k) \/ PollEmpty(t, k) \/ PollRetires(t, k)

-------------------------------------------------------------------------------
(* shutdownProcessLoopsForCtx *)

\* The bucket leaves the registry, the ring is closed; the handlers stay in the table
StartShutdown(t) ==
    /\ UserCode(t) /\ Own(t) # {}
    /\ listed' = listed \ Own(t)
    /\ closed' = [k \in Buckets |-> closed[k] \/ k \in Own(t)]
    /\ closing' = [closing EXCEPT ![t] = @ \cup Own(t)]
    /\ Fire({t})
    /\ UNCHANGED <<made, owner, hasListeners, ring, leaseVars, slabVars, tableVars, loopVars,
                   sendVars, heard, refused>>

\* The poll fn has completed the future of the shutdown
Retired(t, k) == k \notin pollers[t]

LeaveShutdown(t, k) ==
    /\ at[t] = "free" /\ loop[t] = "idle" /\ k \in closing[t]
    /\ closing' = [closing EXCEPT ![t] = @ \ {k}]
    /\ Release({k})
    /\ UNCHANGED <<bucketVars, ring, slabVars, tableVars, loopVars, woken, sendVars, heard,
                   refused>>

EndShutdown(t) == \E k \in closing[t] : Retired(t, k) /\ LeaveShutdown(t, k)

\* ... or the five seconds are over
GiveUpShutdown(t) == \E k \in closing[t] : ~Retired(t, k) /\ LeaveShutdown(t, k)

-------------------------------------------------------------------------------

User(t) ==
    \/ Listen(t) \/ Emit(t) \/ DropAllListeners(t) \/ StartShutdown(t)
    \/ \E h \in handlers[t] : DropListener(t, h)

Next == \E t \in Threads : User(t) \/ Send(t) \/ Dispatch(t) \/ EndShutdown(t) \/ GiveUpShutdown(t)

Spec == Init /\ [][Next]_vars

-------------------------------------------------------------------------------
(* Properties *)

TypeOK ==
    /\ listed \subseteq 1 .. made /\ made \in 0 .. MaxBuckets
    /\ owner \in [Buckets -> Threads \cup {Nobody}]
    /\ hasListeners \in [Buckets -> BOOLEAN] /\ closed \in [Buckets -> BOOLEAN]
    /\ ring \in [Buckets -> Seq(Cells \cup {Clear})]
    /\ refs \in [Buckets -> Nat] /\ freed \subseteq Buckets
    /\ free \in [Cells -> 0 .. 1] /\ count \in [Cells -> Nat]
    /\ event \in [Cells -> Events \cup {<<>>}]
    /\ handlers \in [Threads -> SUBSET (1 .. MaxListens)]
    /\ listens \in 0 .. MaxListens
    /\ loop \in [Threads -> {"off", "idle", "polling", "handler"}]
    /\ woken \in [Threads -> BOOLEAN] /\ work \in [Threads -> BOOLEAN]
    /\ pollers \in [Threads -> SUBSET Buckets] /\ todo \in [Threads -> SUBSET Buckets]
    /\ closing \in [Threads -> SUBSET Buckets]
    /\ at \in [Threads -> {"free", "claim", "test", "put", "wake", "release"}]
    /\ item \in [Threads -> Cells \cup {Clear}]
    /\ left \in [Threads -> SUBSET Buckets] /\ held \in [Threads -> SUBSET Buckets]
    /\ sent \in [Threads -> 0 .. MaxSends]
    /\ heard \in [Threads -> Seq((0 .. MaxBuckets) \X Events)] /\ refused \subseteq Threads

\* Where x is, and the rings it has still to be tried on
Slots(x) == {w \in Buckets \X (1 .. Depth) :
               LET k == w[1] i == w[2] IN i <= Len(ring[k]) /\ ring[k][i] = x}
Due(x) == {w \in Threads \X Buckets :
             LET t == w[1] k == w[2] IN
               /\ at[t] # "claim" /\ item[t] = x
               /\ k \in left[t] /\ (at[t] \in {"wake", "release"} => k # To(t))}

\* One cell is shared by several rings: its count is exactly the number of those that still have
\* to consume it or be tried, and it is free, once, if and only if that is zero.  So none is
\* given out twice, and an event that some rings refuse leaks none (emit, pollCell)
CellsCounted ==
    \A c \in Cells :
        /\ count[c] = Cardinality(Slots(c)) + Cardinality(Due(c))
        /\ free[c] = IF count[c] = 0 THEN 1 ELSE 0

\* A ring is held by its bucket, or the shutdown that removed it, by its poll fn, and by each
\* emit and dropAllListeners under way; it is freed by the last one of them on whatever thread,
\* and by nobody before (BrokerRingLease)
RingsCounted ==
    \A k \in 1 .. made :
        /\ refs[k] = (IF k \in listed \cup closing[owner[k]] THEN 1 ELSE 0)
                     + (IF k \in pollers[owner[k]] THEN 1 ELSE 0)
                     + Cardinality({t \in Threads : k \in held[t]})
        /\ k \in freed <=> refs[k] = 0

\* A thread hears only events that were emitted, never what is left in a freed cell, none twice, and
\* those of one emitter in the order of the emits.  Only if it listens again while its shutdown
\* waits for the old ring may that be the order of each ring
InOrder ==
    \A t \in Threads : \A j \in 1 .. Len(heard[t]) :
        /\ heard[t][j][2] \in Events
        /\ \A i \in 1 .. j - 1 :
              LET before == heard[t][i] now == heard[t][j] IN
                before[2][1] = now[2][1] =>
                  IF before[1] = now[1] THEN before[2][2] < now[2][2] ELSE before[2][2] # now[2][2]

\* Handlers of a bucket without listeners, as dropAllListeners leaves them on another thread, will
\* be cleared: a control value is in the ring or about to be tried, unless a ring refused one
DropReaches ==
    \A k \in listed : LET t == owner[k] IN
        handlers[t] # {} /\ ~hasListeners[k] =>
            \/ t \in refused
            \/ \E i \in 1 .. Depth : <<k, i>> \in Slots(Clear)
            \/ \E s \in Threads : <<s, k>> \in Due(Clear)

\* No wake-up is lost: a thread that sleeps with an event in one of its rings, or with a ring that
\* was closed for its shutdown to wait for, has been woken or is about to be
WakeNotLost ==
    \A t \in Threads : \A k \in pollers[t] :
        loop[t] = "idle" /\ (ring[k] # <<>> \/ closed[k]) =>
            woken[t] \/ \E s \in Threads : at[s] = "wake" /\ To(s) = k

===============================================================================
