----------------------------- MODULE RequestLane -----------------------------
(***************************************************************************)
(* The life of the transport behind one request broker context: registry,  *)
(* lease, dispatch loop and teardown (mt_transport.nim, mt_broker_common   *)
(* .nim, mt_request_broker.nim).                                           *)
(*                                                                         *)
(* A provider thread registers a bucket; senders look it up under the      *)
(* registry lock and use its ring and pool after they let go of the lock;  *)
(* the owner clears it, its poll fn retires once the ring is closed and    *)
(* empty, and teardown drops the owner's reference.  Whoever drops the     *)
(* last reference frees ring, slab and pool.                               *)
(*                                                                         *)
(* clearProvider's lock section and the ring.close() after it are one      *)
(* action: what a sender that already holds a lease does in between does   *)
(* not depend on the registry.                                             *)
(***************************************************************************)
EXTENDS Naturals, Sequences, FiniteSets

CONSTANTS
    Owners,     \* threads that provide, each with a chronos loop of its own
    Senders,    \* threads that send requests
    Nobody,     \* the owner of a bucket that was not made yet
    Depth,      \* capacity of a ring
    MaxBuckets, \* bound: buckets made
    MaxSends,   \* bound: requests per sender
    LivesOn     \* is a thread's loop driven, and used, after teardownBrokerThread?

ASSUME LaneAssumption ==
    /\ IsFiniteSet(Senders) /\ Nobody \notin Owners
    /\ Depth \in Nat \ {0} /\ MaxBuckets \in Nat /\ MaxSends \in Nat
    /\ LivesOn \in BOOLEAN

VARIABLES
    registry,   \* the registered bucket, 0 if there is none
    made,       \* buckets made so far: 1 .. made
    owner, closed, ring, \* of each bucket
    refs, freed,         \* its lease: reference count, and whether it was freed
    loop,       \* where thread t is (see TypeOK)
    leaving,    \* is it inside teardownBrokerThread?
    woken,      \* its dispatch signal is set
    pollers,    \* buckets whose poll fn is registered with its dispatcher
    todo, work, \* drainBrokerPollers: left to poll in this pass, did one find work?
    pending,    \* its gPendingRingFrees
    installed,  \* bucket whose handler is in its threadvars, 0 if none
    running,    \* requests whose handler is suspended, with their bucket
    pc, lease, sent, \* sender s: where it is, the bucket it leases, its requests
    abandoned,  \* requests given up while still queued on an open bucket
    handled, autoCleared \* history: requests taken off a ring; buckets cleared by teardown

bucketVars == <<owner, closed, ring>>
leaseVars == <<refs, freed>>
dispatchVars == <<loop, leaving, pollers, todo, work, pending>>
handlerVars == <<installed, running>>
senderVars == <<pc, lease, sent, abandoned>>
history == <<handled, autoCleared>>
vars == <<registry, made, bucketVars, leaseVars, dispatchVars, woken, handlerVars,
          senderVars, history>>

Buckets == 1 .. MaxBuckets
Requests == Senders \X (1 .. MaxSends)
RequestOf(s) == <<s, sent[s]>>

Init ==
    /\ registry = 0 /\ made = 0
    /\ owner = [k \in Buckets |-> Nobody]
    /\ closed = [k \in Buckets |-> FALSE]
    /\ ring = [k \in Buckets |-> <<>>]
    /\ refs = [k \in Buckets |-> 0] /\ freed = {}
    /\ loop = [t \in Owners |-> "off"]
    /\ leaving = [t \in Owners |-> FALSE]
    /\ woken = [t \in Owners |-> FALSE]
    /\ pollers = [t \in Owners |-> {}]
    /\ todo = [t \in Owners |-> {}] /\ work = [t \in Owners |-> FALSE]
    /\ pending = [t \in Owners |-> {}]
    /\ installed = [t \in Owners |-> 0]
    /\ running = [t \in Owners |-> {}]
    /\ pc = [s \in Senders |-> "idle"]
    /\ lease = [s \in Senders |-> 0]
    /\ sent = [s \in Senders |-> 0]
    /\ abandoned = {}
    /\ handled = {} /\ autoCleared = {}

Set(f, x, v) == [f EXCEPT ![x] = v]

\* fireBrokerSignal: a closed signal is left alone.
Fire(t) == woken' = IF loop[t] \in {"off", "down"} THEN woken ELSE Set(woken, t, TRUE)

-----------------------------------------------------------------------------
(* A sender: snapshot, sendCell, the wait for the reply, releaseLease.     *)

\* Mutant: the lookup takes no reference.
Snapshot_NoLease(s) ==
    /\ pc[s] = "idle" /\ sent[s] < MaxSends /\ registry # 0
    /\ lease' = Set(lease, s, registry)
    /\ sent' = [sent EXCEPT ![s] = @ + 1]
    /\ pc' = Set(pc, s, "found")
    /\ UNCHANGED <<registry, made, bucketVars, refs, freed, dispatchVars, woken,
                   handlerVars, abandoned, history>>

\* The bucket is found and leased in one section of the registry lock.
Snapshot(s) ==
    /\ pc[s] = "idle" /\ sent[s] < MaxSends /\ registry # 0
    /\ refs' = [refs EXCEPT ![registry] = @ + 1]
    /\ lease' = Set(lease, s, registry)
    /\ sent' = [sent EXCEPT ![s] = @ + 1]
    /\ pc' = Set(pc, s, "found")
    /\ UNCHANGED <<registry, made, bucketVars, freed, dispatchVars, woken,
                   handlerVars, abandoned, history>>

\* tryEnqueue: the test of `closed`, then the claim of a slot (which fails on a
\* full ring).
TestClosed(s) ==
    /\ pc[s] = "found"
    /\ pc' = Set(pc, s, IF closed[lease[s]] THEN "finished" ELSE "open")
    /\ UNCHANGED <<registry, made, bucketVars, leaseVars, dispatchVars, woken,
                   handlerVars, lease, sent, abandoned, history>>

Enqueue(s) ==
    /\ pc[s] = "open"
    /\ IF Len(ring[lease[s]]) < Depth
       THEN /\ ring' = [ring EXCEPT ![lease[s]] = Append(@, RequestOf(s))]
            /\ pc' = Set(pc, s, "enqueued")
       ELSE pc' = Set(pc, s, "finished") /\ UNCHANGED ring
    /\ UNCHANGED <<registry, made, owner, closed, leaseVars, dispatchVars, woken,
                   handlerVars, lease, sent, abandoned, history>>

\* Mutant: nobody is woken.
WakeProvider_Forgotten(s) ==
    /\ pc[s] = "enqueued"
    /\ pc' = Set(pc, s, "waiting")
    /\ UNCHANGED <<registry, made, bucketVars, leaseVars, dispatchVars, woken,
                   handlerVars, lease, sent, abandoned, history>>

WakeProvider(s) ==
    /\ pc[s] = "enqueued"
    /\ Fire(owner[lease[s]])
    /\ pc' = Set(pc, s, "waiting")
    /\ UNCHANGED <<registry, made, bucketVars, leaseVars, dispatchVars,
                   handlerVars, lease, sent, abandoned, history>>

\* The wait ends: with the reply, a cancel, a timeout, or because the provider
\* was cleared, which fails the requests it finds in the bucket.  One that is
\* given up in the queue before that leaves a tombstone there.
StopWaiting(s) ==
    /\ pc[s] = "waiting"
    /\ pc' = Set(pc, s, "finished")
    /\ \/ /\ RequestOf(s) \in handled \/ closed[lease[s]]
          /\ UNCHANGED abandoned
       \/ /\ RequestOf(s) \notin handled
          /\ abandoned' = abandoned \cup {RequestOf(s)}
    /\ UNCHANGED <<registry, made, bucketVars, leaseVars, dispatchVars, woken,
                   handlerVars, lease, sent, history>>

\* releaseLease: the last reference frees the transport.
ReleaseLease(s) ==
    /\ pc[s] = "finished"
    /\ refs' = [refs EXCEPT ![lease[s]] = @ - 1]
    /\ freed' = IF refs[lease[s]] = 1 THEN freed \cup {lease[s]} ELSE freed
    /\ lease' = Set(lease, s, 0)
    /\ pc' = Set(pc, s, "idle")
    /\ UNCHANGED <<registry, made, bucketVars, dispatchVars, woken, handlerVars,
                   sent, abandoned, history>>

Sender(s) ==
    \/ Snapshot(s) \/ TestClosed(s) \/ Enqueue(s) \/ WakeProvider(s)
    \/ StopWaiting(s) \/ ReleaseLease(s)

-----------------------------------------------------------------------------
(* An owner thread: user code that provides and clears, on its event loop  *)
(* ("idle") or inside a handler that a poll fn has just called.            *)

Startable(t) == loop[t] = "off" \/ (loop[t] = "down" /\ LivesOn)
UserCode(t) == loop[t] \in {"idle", "handler"}

\* setupBucket: the bucket and the owner's reference; the first one on a thread
\* starts the dispatch loop, which polls before it waits.
Provide(t) ==
    /\ UserCode(t) \/ Startable(t)
    /\ registry = 0 /\ made < MaxBuckets
    /\ LET k == made + 1 IN
        /\ made' = k /\ registry' = k
        /\ owner' = Set(owner, k, t)
        /\ refs' = Set(refs, k, 1)
        /\ installed' = Set(installed, t, k)
        /\ pollers' = [pollers EXCEPT ![t] = @ \cup {k}]
        /\ IF Startable(t)
           THEN loop' = Set(loop, t, "polling") /\ todo' = Set(todo, t, pollers[t] \cup {k})
           ELSE /\ todo' = IF loop[t] = "handler" THEN [todo EXCEPT ![t] = @ \cup {k}] ELSE todo
                /\ UNCHANGED loop
    /\ UNCHANGED <<closed, ring, freed, leaving, work, pending, woken, running,
                   senderVars, history>>

\* What clearProvider does when t owns the bucket: unregister it, fail its
\* requests, forget the handler, close the ring.
Retire(t) ==
    /\ registry' = 0
    /\ installed' = Set(installed, t, 0)
    /\ closed' = Set(closed, registry, TRUE)

Owns(t) == registry # 0 /\ owner[registry] = t

\* Mutant: clearProvider does not fire the owner's signal after the close.
Clear_NoWake(t) ==
    /\ UserCode(t) /\ Owns(t)
    /\ Retire(t)
    /\ UNCHANGED <<made, owner, ring, leaseVars, dispatchVars, woken, running,
                   senderVars, history>>

Clear(t) ==
    /\ UserCode(t) /\ Owns(t)
    /\ Retire(t) /\ Fire(t)
    /\ UNCHANGED <<made, owner, ring, leaseVars, dispatchVars, running,
                   senderVars, history>>

-----------------------------------------------------------------------------
(* Its dispatch loop.                                                      *)

WakeUp(t) ==
    /\ loop[t] = "idle" /\ woken[t]
    /\ woken' = Set(woken, t, FALSE)
    /\ loop' = Set(loop, t, "polling")
    /\ todo' = Set(todo, t, pollers[t]) /\ work' = Set(work, t, FALSE)
    /\ UNCHANGED <<registry, made, bucketVars, leaseVars, leaving, pollers, pending,
                   handlerVars, senderVars, history>>

Polls(t, k) == loop[t] = "polling" /\ k \in todo[t] /\ todo' = [todo EXCEPT ![t] = @ \ {k}]

\* The poll fn takes a request off the ring.  It drops one that was abandoned,
\* answers at once when the thread has no handler, else calls the handler that
\* is installed now and leaves it suspended.
PollHit(t, k) ==
    /\ Polls(t, k) /\ ring[k] # <<>>
    /\ LET q == Head(ring[k]) IN
        /\ ring' = [ring EXCEPT ![k] = Tail(@)]
        /\ handled' = handled \cup {q}
        /\ IF q \in abandoned \/ installed[t] = 0
           THEN UNCHANGED <<loop, running>>
           ELSE /\ loop' = Set(loop, t, "handler")
                /\ running' = [running EXCEPT ![t] = @ \cup {<<q, k>>}]
    /\ work' = Set(work, t, TRUE)
    /\ UNCHANGED <<registry, made, owner, closed, leaseVars, leaving, pollers,
                   pending, woken, installed, senderVars, autoCleared>>

HandlerYields(t) ==
    /\ loop[t] = "handler"
    /\ loop' = Set(loop, t, "polling")
    /\ UNCHANGED <<registry, made, bucketVars, leaseVars, leaving, pollers, todo, work,
                   pending, woken, handlerVars, senderVars, history>>

PollEmpty(t, k) ==
    /\ Polls(t, k) /\ ring[k] = <<>> /\ ~closed[k]
    /\ UNCHANGED <<registry, made, bucketVars, leaseVars, loop, leaving, pollers, work,
                   pending, woken, handlerVars, senderVars, history>>

\* Mutant: the retired poll fn releases the owner's reference but keeps it queued.
PollRetires_ReleasesToo(t, k) ==
    /\ Polls(t, k) /\ ring[k] = <<>> /\ closed[k]
    /\ pollers' = [pollers EXCEPT ![t] = @ \ {k}]
    /\ pending' = [pending EXCEPT ![t] = @ \cup {k}]
    /\ refs' = [refs EXCEPT ![k] = @ - 1]
    /\ freed' = IF refs[k] = 1 THEN freed \cup {k} ELSE freed
    /\ UNCHANGED <<registry, made, bucketVars, loop, leaving, work, woken,
                   handlerVars, senderVars, history>>

\* Closed and empty: the poll fn hands the lease over and is removed.
PollRetires(t, k) ==
    /\ Polls(t, k) /\ ring[k] = <<>> /\ closed[k]
    /\ pollers' = [pollers EXCEPT ![t] = @ \ {k}]
    /\ pending' = [pending EXCEPT ![t] = @ \cup {k}]
    /\ UNCHANGED <<registry, made, bucketVars, leaseVars, loop, leaving, work, woken,
                   handlerVars, senderVars, history>>

\* Mutant: the flag is not cleared for the next pass.
PassEnds_WorkKept(t) ==
    /\ loop[t] = "polling" /\ todo[t] = {}
    /\ IF work[t]
       THEN todo' = Set(todo, t, pollers[t]) /\ UNCHANGED <<loop, work>>
       ELSE /\ loop' = Set(loop, t, IF leaving[t] THEN "stopping" ELSE "idle")
            /\ UNCHANGED <<todo, work>>
    /\ UNCHANGED <<registry, made, bucketVars, leaseVars, leaving, pollers,
                   pending, woken, handlerVars, senderVars, history>>

\* Mutant: the signal is taken after the passes, not before them.
PassEnds_WakeTaken(t) ==
    /\ loop[t] = "polling" /\ todo[t] = {}
    /\ IF work[t]
       THEN /\ todo' = Set(todo, t, pollers[t]) /\ work' = Set(work, t, FALSE)
            /\ UNCHANGED <<loop, woken>>
       ELSE /\ loop' = Set(loop, t, IF leaving[t] THEN "stopping" ELSE "idle")
            /\ woken' = Set(woken, t, FALSE)
            /\ UNCHANGED <<todo, work>>
    /\ UNCHANGED <<registry, made, bucketVars, leaseVars, leaving, pollers,
                   pending, handlerVars, senderVars, history>>

\* drainBrokerPollers makes passes until one finds no work.
PassEnds(t) ==
    /\ loop[t] = "polling" /\ todo[t] = {}
    /\ IF work[t]
       THEN todo' = Set(todo, t, pollers[t]) /\ work' = Set(work, t, FALSE) /\ UNCHANGED loop
       ELSE /\ loop' = Set(loop, t, IF leaving[t] THEN "stopping" ELSE "idle")
            /\ UNCHANGED <<todo, work>>
    /\ UNCHANGED <<registry, made, bucketVars, leaseVars, leaving, pollers,
                   pending, woken, handlerVars, senderVars, history>>

\* A suspended handler returns and sendReply uses the pool: whenever chronos
\* runs on its thread.
HandlerReplies(t, q, k) ==
    /\ <<q, k>> \in running[t]
    /\ loop[t] \in {"idle", "stopping"} \/ (loop[t] = "down" /\ LivesOn)
    /\ running' = [running EXCEPT ![t] = @ \ {<<q, k>>}]
    /\ UNCHANGED <<registry, made, bucketVars, leaseVars, dispatchVars, woken,
                   installed, senderVars, history>>

Dispatch(t) ==
    \/ WakeUp(t) \/ HandlerYields(t) \/ PassEnds(t)
    \/ \E k \in Buckets : PollHit(t, k) \/ PollEmpty(t, k) \/ PollRetires(t, k)
    \/ \E q \in Requests, k \in Buckets : HandlerReplies(t, q, k)

-----------------------------------------------------------------------------
(* teardownBrokerThread, from sync code of the thread.                     *)

\* Mutant: no poll pass after the automatic clear.
Teardown_NoDrain(t) ==
    /\ loop[t] = "idle"
    /\ leaving' = Set(leaving, t, TRUE)
    /\ IF Owns(t)
       THEN Retire(t) /\ autoCleared' = autoCleared \cup {registry}
       ELSE UNCHANGED <<registry, installed, closed, autoCleared>>
    /\ loop' = Set(loop, t, "stopping")
    /\ UNCHANGED <<made, owner, ring, leaseVars, pollers, todo, work, pending, woken, running,
                   senderVars, handled>>

\* Clear what the thread still owns; if there was anything, poll until the
\* rings are empty; then ask the loop to exit, which it does without polling.
Teardown(t) ==
    /\ loop[t] = "idle"
    /\ leaving' = Set(leaving, t, TRUE)
    /\ IF Owns(t)
       THEN /\ Retire(t)
            /\ autoCleared' = autoCleared \cup {registry}
            /\ loop' = Set(loop, t, "polling")
            /\ todo' = Set(todo, t, pollers[t]) /\ work' = Set(work, t, FALSE)
       ELSE /\ loop' = Set(loop, t, "stopping")
            /\ UNCHANGED <<registry, installed, closed, todo, work, autoCleared>>
    /\ UNCHANGED <<made, owner, ring, leaseVars, pollers, pending, woken, running,
                   senderVars, handled>>

\* The loop has exited and closed the signal; drainPendingRingFrees drops the
\* owner's references.
FinishTeardown(t) ==
    /\ loop[t] = "stopping"
    /\ refs' = [k \in Buckets |-> IF k \in pending[t] THEN refs[k] - 1 ELSE refs[k]]
    /\ freed' = freed \cup {k \in pending[t] : refs[k] = 1}
    /\ pending' = Set(pending, t, {})
    /\ loop' = Set(loop, t, "down")
    /\ leaving' = Set(leaving, t, FALSE)
    /\ woken' = Set(woken, t, FALSE)
    /\ UNCHANGED <<registry, made, bucketVars, pollers, todo, work, handlerVars,
                   senderVars, history>>

Owner(t) == Provide(t) \/ Clear(t) \/ Dispatch(t) \/ Teardown(t) \/ FinishTeardown(t)

\* Every request was sent and every thread is done.
Over ==
    /\ \A s \in Senders : pc[s] = "idle"
    /\ \A t \in Owners : loop[t] \in {"off", "down", "idle"} /\ ~woken[t]

Next ==
    \/ \E s \in Senders : Sender(s)
    \/ \E t \in Owners : Owner(t)
    \/ Over /\ UNCHANGED vars

Spec == Init /\ [][Next]_vars

\* A sender that has found a bucket goes on; a thread that has entered its
\* dispatch loop, a handler's synchronous part or its teardown goes on.  Nobody
\* has to send, provide, clear or leave, and no request has to time out.
Fairness ==
    /\ \A s \in Senders :
        WF_vars(TestClosed(s) \/ Enqueue(s) \/ WakeProvider(s) \/ ReleaseLease(s))
    /\ \A t \in Owners :
        /\ WF_vars(WakeUp(t) \/ HandlerYields(t) \/ PassEnds(t) \/ FinishTeardown(t))
        /\ \A k \in Buckets : WF_vars(PollHit(t, k) \/ PollEmpty(t, k) \/ PollRetires(t, k))

FairSpec == Spec /\ Fairness

-----------------------------------------------------------------------------
(* Properties.                                                             *)

\* Every variable has its type.
TypeOK ==
    /\ registry \in 0 .. made /\ made \in 0 .. MaxBuckets
    /\ owner \in [Buckets -> Owners \cup {Nobody}]
    /\ closed \in [Buckets -> BOOLEAN]
    /\ ring \in [Buckets -> Seq(Requests)]
    /\ refs \in [Buckets -> Nat] /\ freed \subseteq Buckets
    /\ loop \in [Owners -> {"off", "idle", "polling", "handler", "stopping", "down"}]
    /\ leaving \in [Owners -> BOOLEAN] /\ woken \in [Owners -> BOOLEAN]
    /\ pollers \in [Owners -> SUBSET Buckets]
    /\ todo \in [Owners -> SUBSET Buckets] /\ work \in [Owners -> BOOLEAN]
    /\ pending \in [Owners -> SUBSET Buckets]
    /\ installed \in [Owners -> 0 .. MaxBuckets]
    /\ running \in [Owners -> SUBSET (Requests \X Buckets)]
    /\ pc \in [Senders -> {"idle", "found", "open", "enqueued", "waiting", "finished"}]
    /\ lease \in [Senders -> 0 .. MaxBuckets]
    /\ sent \in [Senders -> 0 .. MaxSends]
    /\ abandoned \subseteq Requests /\ handled \subseteq Requests
    /\ autoCleared \subseteq Buckets

Holders(k) == {s \in Senders : lease[s] = k}

\* The owner's reference is with the registered poll fn, or queued for teardown.
OwnerHolds(k) ==
    \E t \in Owners : owner[k] = t /\ (k \in pollers[t] \/ k \in pending[t])

\* A transport is freed exactly when its last holder lets go: the count of a
\* lease is the senders that hold it plus the owner's reference.
LeaseCounts ==
    \A k \in 1 .. made :
        /\ refs[k] = Cardinality(Holders(k)) + (IF OwnerHolds(k) THEN 1 ELSE 0)
        /\ k \in freed <=> refs[k] = 0

\* Nobody who may still touch a bucket's ring or pool finds it freed: not a
\* sender with a lease, a thread that polls it, a lookup, or a handler that is
\* still suspended on a thread that runs its loop.
NoUseAfterFree ==
    /\ registry \notin freed
    /\ \A s \in Senders : lease[s] \notin freed
    /\ \A t \in Owners :
        /\ pollers[t] \cap freed = {}
        /\ loop[t] # "down" => \A w \in running[t] : w[2] \notin freed

\* There is nothing on bucket k's ring to wake its owner for, or a sender is about to.
Quiet(k) ==
    ~closed[k] /\ (ring[k] # <<>> => \E s \in Senders : pc[s] = "enqueued" /\ lease[s] = k)

\* A thread does not sleep, with no wake-up on its way, over a request or over a ring that was
\* closed for its poll fn to retire: the loop takes its wake-up before it polls, and a request
\* that comes after its ring was polled brings another.
SleepsWhenQuiet ==
    \A t \in Owners : loop[t] = "idle" /\ ~woken[t] => \A k \in pollers[t] : Quiet(k)

\* A provider that was left to teardown is freed by the time its owner is down
\* and no sender is using it.
AutoClearedFreed ==
    \A k \in autoCleared :
        loop[owner[k]] \in {"off", "down"} /\ Holders(k) = {} => k \in freed

\* "drops this thread's owner reference on the ring leases of brokers cleared
\* here" (teardownBrokerThread): the same for every bucket that was cleared.
ClearedFreed ==
    \A k \in 1 .. made :
        loop[owner[k]] = "down" /\ k # registry /\ Holders(k) = {} => k \in freed

\* No wake-up is lost: a request on the ring of an open bucket is taken off it.
AcceptedIsServed ==
    \A k \in Buckets : \A q \in Requests :
        (\E n \in DOMAIN ring[k] : ring[k][n] = q) ~> (q \in handled \/ closed[k])

\* While its thread lives, a closed ring's poll fn retires.
ClosedRetires ==
    \A t \in Owners : \A k \in Buckets :
        (k \in pollers[t] /\ closed[k]) ~> (k \notin pollers[t] \/ loop[t] = "down")

\* Teardown ends, however busy the senders are.
TeardownEnds == \A t \in Owners : leaving[t] ~> loop[t] = "down"

-----------------------------------------------------------------------------
(* The inductive invariant.                                                *)

\* What a thread polls, or will drop at teardown, are buckets of its own, each
\* in one place; a pass visits only what is registered.
OwnedInv ==
    \A t \in Owners :
        /\ \A k \in pollers[t] \cup pending[t] : k <= made /\ owner[k] = t
        /\ pollers[t] \cap pending[t] = {} /\ todo[t] \subseteq pollers[t]

\* The registered bucket is open and polled by its owner.
RegisteredInv ==
    /\ registry # 0 => /\ ~closed[registry] /\ owner[registry] \in Owners
                       /\ registry \in pollers[owner[registry]]
    /\ \A k \in Buckets : k > made => ~closed[k] /\ k \notin freed

\* A sender that is under way holds a lease for a request.
LeasedInv ==
    \A s \in Senders :
        /\ lease[s] <= made /\ (lease[s] # 0 <=> pc[s] # "idle")
        /\ pc[s] # "idle" => sent[s] > 0

LeaseInv == OwnedInv /\ RegisteredInv /\ LeasedInv /\ LeaseCounts

\* For threads that end with their teardown (~LivesOn): the bucket of a suspended
\* handler still has its owner's reference.
RunningInv ==
    \A t \in Owners :
        /\ loop[t] = "off" => running[t] = {}
        /\ loop[t] # "down" => \A w \in running[t] : w[2] \in pollers[t] \cup pending[t]

\* What teardown has cleared is polled once more, and not held afterwards.
LeavingInv ==
    /\ \A t \in Owners :
        /\ leaving[t] => loop[t] \in {"polling", "handler", "stopping"}
        /\ \A k \in autoCleared \cap pollers[t] :
            loop[t] \in {"polling", "handler"} /\ (k \in todo[t] \/ work[t])
    /\ \A k \in autoCleared :
        /\ k <= made /\ closed[k] /\ owner[k] \in Owners
        /\ leaving[owner[k]] \/ k \notin pollers[owner[k]] \cup pending[owner[k]]

\* In the passes of an awake thread, what is not quiet is still to be polled.
WakeFor(t) ==
    loop[t] \in {"idle", "polling", "handler"} /\ ~woken[t] =>
        \A k \in pollers[t] : Quiet(k) \/ (loop[t] # "idle" /\ (k \in todo[t] \/ work[t]))

WakeInv ==
    /\ \A t \in Owners : WakeFor(t)
    /\ \A k \in Buckets : k > made => ring[k] = <<>>
==============================================================================
