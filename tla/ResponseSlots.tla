---------------------------- MODULE ResponseSlots ----------------------------
(***************************************************************************)
(* ResponseSlotPool (brokers/internal/mt_queue.nim) and the four parties   *)
(* that use one provider's pool: requesters that claim a slot and wait for *)
(* it, the provider thread that answers, cancellers on any thread, and the *)
(* owner clearing its provider (mt_request_broker.nim).                    *)
(*                                                                         *)
(* A slot's control word is one atomic (generation, state) pair.  A        *)
(* request is named by its handle: the slot and the generation under which *)
(* it claimed it.  One action per atomic access to a control word, except  *)
(* that a retry loop around a compare-and-swap is the one access that ends *)
(* it, and plain code that only its own thread can see is merged into the  *)
(* access before it.                                                       *)
(***************************************************************************)
EXTENDS Integers

CONSTANTS
    Requesters,
    Blocking,   \* those that use blockingRequest, the others await a future
    Timed,      \* those whose request timeout is finite
    Capacity,   \* slots of the pool
    MaxGen      \* bound: generations per slot (the code's counter is 32 bits)

ASSUME RequestersAssumption == Blocking \subseteq Requesters /\ Timed \subseteq Requesters
ASSUME SizeAssumption == Capacity \in Nat /\ MaxGen \in Nat

VARIABLES
    control,    \* the slots' control words
    bytes,      \* whose response a slot's payload bytes hold
    free,       \* how often each slot is on the free list: 0 or 1 if all is well
    pc, handle, \* where requester r is, and the request it is making
    task,       \* what the provider thread has done with each request
    phase,      \* the bucket: "open", "marking" (clearProvider), "cleared", "closed"
    scan, seen, \* markProviderGone: next slot, generation it saw Empty there (-1 none)
    answered, cancelled, \* history: requests that got a response / whose cancel won
    twice       \* history: requests whose slot the requester released twice

vars ==
    <<control, bytes, free, pc, handle, task, phase, scan, seen, answered, cancelled, twice>>

Slots == 0 .. Capacity - 1
Gens == 1 .. MaxGen
Handles == Slots \X Gens
NoHandle == <<-1, 0>>

State == {"Empty", "Writing", "Ready", "Abandoned", "AbandonedWriting", "ProviderGone"}
Word(g, s) == [gen |-> g, state |-> s]
GivenUp == {"Abandoned", "AbandonedWriting"}

SlotOf(h) == h[1]
GenOf(h) == h[2]
WordOf(h) == control[SlotOf(h)]
Current(h) == WordOf(h).gen = GenOf(h)
\* Mutant: the generation is not compared.
Is_AnyGeneration(h, s) == WordOf(h).state = s
Is(h, s) == WordOf(h) = Word(GenOf(h), s)

\* compareExchange(control[h], (gen, old) -> (gen, new)), when it succeeds.
Swap(h, old, new) ==
    /\ Is(h, old)
    /\ control' = [control EXCEPT ![SlotOf(h)] = Word(GenOf(h), new)]

\* release: push the slot on the free list; its control word stays as it is.
Release(h) == free' = [free EXCEPT ![SlotOf(h)] = @ + 1]

Goto(r, label) == pc' = [pc EXCEPT ![r] = label]
Became(h, label) == task' = [task EXCEPT ![h] = label]

Init ==
    /\ control = [i \in Slots |-> Word(0, "Empty")]
    /\ bytes = [i \in Slots |-> NoHandle]
    /\ free = [i \in Slots |-> 1]
    /\ pc = [r \in Requesters |-> "idle"]
    /\ handle = [r \in Requesters |-> NoHandle]
    /\ task = [h \in Handles |-> "none"]
    /\ phase = "open" /\ scan = 0 /\ seen = -1
    /\ answered = {} /\ cancelled = {} /\ twice = {}

providerVars == <<task, phase, scan, seen>>
history == <<answered, cancelled, twice>>

\* No slot was pushed on the free list while it was there or in use.  The list
\* is linked through the slots' indices: a second push of one makes a cycle, or
\* cuts off what was below it, so from then on nothing is known of the pool.
Intact == twice = {}

-----------------------------------------------------------------------------
(* A requester: sendPrologue.  claim pops a slot, then stores the next     *)
(* generation; the request is enqueued, or fails and hands the slot back.  *)

\* Bound: no new request is followed once a slot was released twice.
Pop(r) ==
    /\ pc[r] = "idle" /\ Intact
    /\ \E i \in Slots :
        /\ free[i] > 0 /\ control[i].gen < MaxGen
        /\ free' = [free EXCEPT ![i] = @ - 1]
        /\ handle' = [handle EXCEPT ![r] = <<i, control[i].gen + 1>>]
    /\ Goto(r, "popped")
    /\ UNCHANGED <<control, bytes, providerVars, history>>

Arm(r) ==
    /\ pc[r] = "popped"
    /\ control' = [control EXCEPT ![SlotOf(handle[r])] = Word(GenOf(handle[r]), "Empty")]
    /\ Goto(r, "armed")
    /\ UNCHANGED <<bytes, free, handle, providerVars, history>>

Send(r) ==
    /\ pc[r] = "armed" /\ phase # "closed"
    /\ Became(handle[r], "queued")
    /\ Goto(r, "waiting")
    /\ UNCHANGED <<control, bytes, free, handle, phase, scan, seen, history>>

\* The slab is exhausted, or the ring is full or closed.
SendFails(r) ==
    /\ pc[r] = "armed"
    /\ Release(handle[r])
    /\ Goto(r, "idle")
    /\ UNCHANGED <<control, bytes, handle, providerVars, history>>

-----------------------------------------------------------------------------
(* A requester: awaitReply's poller, or blockingWait's loop.  An async     *)
(* request whose timer fired is "expired" until its continuation runs on   *)
(* the event loop; its poller is still registered and may run before that: *)
(* the request is then "late", its poller gone.                            *)

MayReceive(r) == pc[r] \in {"waiting", "expired"}

Resolved(label) == IF label \in {"expired", "lateReading"} THEN "late" ELSE "idle"

StartRead(r) ==
    /\ MayReceive(r) /\ Is(handle[r], "Ready")
    /\ Goto(r, IF pc[r] = "expired" THEN "lateReading" ELSE "reading")
    /\ UNCHANGED <<control, bytes, free, handle, providerVars, history>>

FinishRead(r) ==
    /\ pc[r] \in {"reading", "lateReading"}
    /\ answered' = IF pc[r] = "reading" THEN answered \cup {bytes[SlotOf(handle[r])]}
                                        ELSE answered
    /\ Release(handle[r])
    /\ Goto(r, Resolved(pc[r]))
    /\ UNCHANGED <<control, bytes, handle, providerVars, cancelled, twice>>

SeeProviderGone(r) ==
    /\ MayReceive(r) /\ Is(handle[r], "ProviderGone")
    /\ Release(handle[r])
    /\ Goto(r, Resolved(pc[r]))
    /\ UNCHANGED <<control, bytes, handle, providerVars, history>>

SeeCancelled(r) ==
    /\ MayReceive(r) /\ Is(handle[r], "Abandoned")
    /\ Goto(r, Resolved(pc[r]))
    /\ UNCHANGED <<control, bytes, free, handle, providerVars, history>>

\* withTimeout resolves on the event loop: the wait is over, the continuation
\* that calls giveUp has yet to run.
Expire(r) ==
    /\ r \in Timed \ Blocking /\ pc[r] = "waiting"
    /\ Goto(r, "expired")
    /\ UNCHANGED <<control, bytes, free, handle, providerVars, history>>

MayGiveUp(r) ==
    \/ pc[r] \in {"expired", "late"}
    \/ r \in Timed \cap Blocking /\ pc[r] = "waiting"

\* Mutant: giving up waits until the provider is not writing.
GiveUp_WaitsForWriter(r) ==
    /\ MayGiveUp(r) /\ ~Is(handle[r], "Writing")
    /\ \/ Swap(handle[r], "Empty", "Abandoned") /\ UNCHANGED <<free, twice>>
       \/ /\ Is(handle[r], "Ready") \/ Is(handle[r], "ProviderGone")
          /\ Release(handle[r])
          /\ twice' = IF pc[r] = "late" THEN twice \cup {handle[r]} ELSE twice
          /\ UNCHANGED control
       \/ /\ ~Current(handle[r]) \/ WordOf(handle[r]).state \in GivenUp
          /\ UNCHANGED <<control, free, twice>>
    /\ Goto(r, "idle")
    /\ UNCHANGED <<bytes, handle, providerVars, answered, cancelled>>

\* giveUpSlot, and the release it asks for: of a slot that the late poller of
\* this very request released already, if it is still of the same generation.
GiveUp(r) ==
    /\ MayGiveUp(r)
    /\ \/ /\ \/ Swap(handle[r], "Empty", "Abandoned")
             \/ Swap(handle[r], "Writing", "AbandonedWriting")
          /\ UNCHANGED <<free, twice>>
       \/ /\ Is(handle[r], "Ready") \/ Is(handle[r], "ProviderGone")
          /\ Release(handle[r])
          /\ twice' = IF pc[r] = "late" THEN twice \cup {handle[r]} ELSE twice
          /\ UNCHANGED control
       \/ /\ ~Current(handle[r]) \/ WordOf(handle[r]).state \in GivenUp
          /\ UNCHANGED <<control, free, twice>>
    /\ Goto(r, "idle")
    /\ UNCHANGED <<bytes, handle, providerVars, answered, cancelled>>

Receive(r) == StartRead(r) \/ FinishRead(r) \/ SeeProviderGone(r) \/ SeeCancelled(r)

Requester(r) ==
    Pop(r) \/ Arm(r) \/ Send(r) \/ SendFails(r) \/ Receive(r) \/ Expire(r) \/ GiveUp(r)

-----------------------------------------------------------------------------
(* The provider thread: the poll fn, handleMsg and sendReply.  sendReply   *)
(* and markProviderGone do not yield, so neither runs inside the other.    *)

ProviderFree == phase # "marking" /\ \A h \in Handles : task[h] # "writing"

\* The poll fn drops a request that was abandoned in the queue, else starts it.
\* Left out: a payload that does not unmarshal is dropped with neither a reply
\* nor a release (what send marshalled does, unless a user codec disagrees).
Poll(h) ==
    /\ ProviderFree /\ task[h] = "queued"
    /\ IF Is(h, "Abandoned")
       THEN Release(h) /\ Became(h, "done")
       ELSE Became(h, "running") /\ UNCHANGED free
    /\ UNCHANGED <<control, bytes, pc, handle, phase, scan, seen, history>>

\* Mutant: a stale reply releases the slot as an abandoned one does.
BeginWrite_StaleReleases(h) ==
    /\ ProviderFree /\ task[h] = "running"
    /\ \/ Swap(h, "Empty", "Writing") /\ Became(h, "writing") /\ UNCHANGED free
       \/ ~Is(h, "Empty") /\ Release(h) /\ Became(h, "done") /\ UNCHANGED control
    /\ UNCHANGED <<bytes, pc, handle, phase, scan, seen, history>>

\* The handler returned (or there is none any more): sendReply -> beginWrite.
BeginWrite(h) ==
    /\ ProviderFree /\ task[h] = "running"
    /\ \/ Swap(h, "Empty", "Writing") /\ Became(h, "writing") /\ UNCHANGED free
       \/ Is(h, "Abandoned") /\ Release(h) /\ Became(h, "done") /\ UNCHANGED control
       \/ /\ ~Is(h, "Empty") /\ ~Is(h, "Abandoned")
          /\ Became(h, "done") /\ UNCHANGED <<control, free>>
    /\ UNCHANGED <<bytes, pc, handle, phase, scan, seen, history>>

\* Mutant: the result of commitWrite is ignored.
CommitWrite_ResultIgnored(h) ==
    /\ task[h] = "writing"
    /\ bytes' = [bytes EXCEPT ![SlotOf(h)] = h]
    /\ \/ Swap(h, "Writing", "Ready")
       \/ ~Is(h, "Writing") /\ UNCHANGED control
    /\ Became(h, "done")
    /\ UNCHANGED <<free, pc, handle, phase, scan, seen, history>>

\* The response is marshalled into the slot and committed.
CommitWrite(h) ==
    /\ task[h] = "writing"
    /\ bytes' = [bytes EXCEPT ![SlotOf(h)] = h]
    /\ \/ Swap(h, "Writing", "Ready") /\ UNCHANGED free
       \/ ~Is(h, "Writing") /\ Release(h) /\ UNCHANGED control
    /\ Became(h, "done")
    /\ UNCHANGED <<pc, handle, phase, scan, seen, history>>

\* clearProvider: the bucket leaves the registry and the pool is scanned under
\* the registry lock, then the ring is closed.
StartClear ==
    /\ ProviderFree /\ phase = "open"
    /\ phase' = "marking"
    /\ UNCHANGED <<control, bytes, free, pc, handle, task, scan, seen, history>>

MarkLoad ==
    /\ phase = "marking" /\ scan < Capacity /\ seen = -1
    /\ IF control[scan].state = "Empty"
       THEN seen' = control[scan].gen /\ UNCHANGED scan
       ELSE scan' = scan + 1 /\ UNCHANGED seen
    /\ UNCHANGED <<control, bytes, free, pc, handle, task, phase, history>>

MarkSwap ==
    /\ phase = "marking" /\ seen # -1
    /\ \/ Swap(<<scan, seen>>, "Empty", "ProviderGone")
       \/ ~Is(<<scan, seen>>, "Empty") /\ UNCHANGED control
    /\ scan' = scan + 1 /\ seen' = -1
    /\ UNCHANGED <<bytes, free, pc, handle, task, phase, history>>

EndClear ==
    /\ phase = "marking" /\ scan = Capacity
    /\ phase' = "cleared"
    /\ UNCHANGED <<control, bytes, free, pc, handle, task, scan, seen, history>>

CloseRing ==
    /\ phase = "cleared" /\ ProviderFree
    /\ phase' = "closed"
    /\ UNCHANGED <<control, bytes, free, pc, handle, task, scan, seen, history>>

Clear == StartClear \/ MarkLoad \/ MarkSwap \/ EndClear \/ CloseRing

\* Mutant: a cancel also takes effect on a response that is being published.
Cancel_AnyState(h) ==
    /\ phase = "open" /\ task[h] # "none" /\ Current(h)
    /\ control' = [control EXCEPT ![SlotOf(h)] = Word(GenOf(h), "Abandoned")]
    /\ cancelled' = cancelled \cup {h}
    /\ UNCHANGED <<bytes, free, pc, handle, providerVars, answered, twice>>

\* cancelRequest, on any thread that got the id of a request that was sent.
\* It looks the bucket up under the registry lock.
Cancel(h) ==
    /\ phase = "open" /\ task[h] # "none"
    /\ Swap(h, "Empty", "Abandoned")
    /\ cancelled' = cancelled \cup {h}
    /\ UNCHANGED <<bytes, free, pc, handle, providerVars, answered, twice>>

-----------------------------------------------------------------------------

\* Nobody is waiting and nothing is left for the provider to answer.
Quiet ==
    /\ \A r \in Requesters : pc[r] = "idle"
    /\ \A h \in Handles : task[h] \in {"none", "done"}

Next ==
    \/ \E r \in Requesters : Requester(r)
    \/ \E h \in Handles : Poll(h) \/ BeginWrite(h) \/ CommitWrite(h) \/ Cancel(h)
    \/ Clear
    \/ Quiet /\ UNCHANGED vars

Spec == Init /\ [][Next]_vars

\* A requester that waits polls its slot and its timer fires.  The provider
\* may be slow for ever: nothing is assumed of it.
RequesterFairness ==
    \A r \in Requesters :
        WF_vars(Receive(r)) /\ WF_vars(Expire(r)) /\ WF_vars(GiveUp(r))

\* Handlers return, and the provider thread keeps polling.
ProviderFairness ==
    \A h \in Handles : SF_vars(Poll(h)) /\ SF_vars(BeginWrite(h)) /\ WF_vars(CommitWrite(h))

TimeoutSpec == Spec /\ RequesterFairness
FairSpec == Spec /\ RequesterFairness /\ ProviderFairness

-----------------------------------------------------------------------------
(* Properties.                                                             *)

\* Every variable has its type.
TypeOK ==
    /\ control \in [Slots -> [gen : 0 .. MaxGen, state : State]]
    /\ bytes \in [Slots -> Handles \cup {NoHandle}]
    /\ free \in [Slots -> Nat]
    /\ pc \in [Requesters -> {"idle", "popped", "armed", "waiting", "reading",
                              "expired", "lateReading", "late"}]
    /\ handle \in [Requesters -> Handles \cup {NoHandle}]
    /\ task \in [Handles -> {"none", "queued", "running", "writing", "done"}]
    /\ phase \in {"open", "marking", "cleared", "closed"}
    /\ scan \in 0 .. Capacity /\ seen \in -1 .. MaxGen
    /\ answered \subseteq Handles \cup {NoHandle} /\ cancelled \subseteq Handles
    /\ twice \subseteq Handles

\* Who must give slot i back: the requester of its current request, until that
\* request is given up; from then on the provider.
RequesterHolds(r, i) ==
    /\ SlotOf(handle[r]) = i
    /\ \/ pc[r] \in {"popped", "armed"}
       \/ /\ pc[r] \in {"waiting", "reading", "expired", "lateReading"}
          /\ Current(handle[r]) /\ control[i].state \notin GivenUp

ProviderHolds(i) ==
    /\ control[i].state \in GivenUp
    /\ \E h \in Handles : SlotOf(h) = i /\ Current(h) /\ task[h] \in {"queued", "running", "writing"}

HeldOnce ==
    \A i \in Slots :
        /\ free[i] <= 1
        /\ free[i] = 1 => ~ProviderHolds(i) /\ \A r \in Requesters : ~RequesterHolds(r, i)
        /\ ProviderHolds(i) => \A r \in Requesters : ~RequesterHolds(r, i)
        /\ \A r, q \in Requesters : RequesterHolds(r, i) /\ RequesterHolds(q, i) => r = q

Accounted ==
    \A i \in Slots :
        free[i] > 0 \/ ProviderHolds(i) \/ \E r \in Requesters : RequesterHolds(r, i)

\* A slot has at most one holder, and while it is on the free list (once) it
\* has none: a late poller and giveUp both releasing a slot is the only way in
\* which one is released twice or handed to two requests.
OneHolder == Intact => HeldOnce

\* No slot leaks: one that is not on the free list has somebody who will still
\* release it.
NoLeak == Intact => Accounted

\* A requester decodes the response to its own request, and the provider does
\* not write to the slot meanwhile.
OwnResponse ==
    Intact => \A r \in Requesters : pc[r] \in {"reading", "lateReading"} =>
        /\ bytes[SlotOf(handle[r])] = handle[r]
        /\ \A h \in Handles : SlotOf(h) = SlotOf(handle[r]) => task[h] # "writing"

Settled == cancelled \cap answered = {}

\* A cancel that reported success sticks: that request gets no response.
CancelSticks == Intact => Settled

\* A request with a finite timeout ends, whatever the provider does.
TimedRequestEnds == \A r \in Timed : pc[r] = "waiting" ~> pc[r] = "idle"

\* "the slot returns to the pool's free-list exactly once" (mt_queue.nim).
ReleasedOnce == \A i \in Slots : free[i] <= 1

-----------------------------------------------------------------------------
(* The inductive invariant of an intact pool.                              *)

\* A request under way has a handle: of the generation claim is about to store
\* while its slot is popped, of that or an earlier one from then on.  A late
\* request is resolved: giveUp finds it given up, published, or recycled.
HandleInv ==
    \A r \in Requesters :
        /\ pc[r] # "idle" => handle[r] \in Handles
        /\ pc[r] = "popped" => GenOf(handle[r]) = WordOf(handle[r]).gen + 1
        /\ pc[r] = "armed" => /\ task[handle[r]] = "none"
                              /\ Is(handle[r], "Empty") \/ Is(handle[r], "ProviderGone")
        /\ pc[r] \in {"waiting", "expired"} =>
            GenOf(handle[r]) <= WordOf(handle[r]).gen /\ task[handle[r]] # "none"
        /\ pc[r] \in {"reading", "lateReading"} => Is(handle[r], "Ready")
        /\ pc[r] = "late" => /\ GenOf(handle[r]) <= WordOf(handle[r]).gen
                             /\ ~Is(handle[r], "Empty") /\ ~Is(handle[r], "Writing")

\* The provider knows no request of a generation to come, and writes only to a
\* slot whose control word says so.
TaskInv ==
    \A h \in Handles :
        /\ GenOf(h) > WordOf(h).gen => task[h] = "none"
        /\ task[h] = "writing" => Is(h, "Writing") \/ Is(h, "AbandonedWriting")
        /\ Is(h, "Writing") => task[h] = "writing"
        /\ Is(h, "AbandonedWriting") => task[h] \in {"writing", "done"}
        /\ Is(h, "Ready") => bytes[SlotOf(h)] = h

\* A request the provider still has to answer is one its requester waits for.
Due(h) == (Is(h, "Empty") /\ task[h] # "none") \/ Is(h, "Writing")

AwaitedInv ==
    \A h \in Handles : Due(h) =>
        /\ task[h] \in {"queued", "running", "writing"}
        /\ \E r \in Requesters : pc[r] \in {"waiting", "expired"} /\ handle[r] = h

\* No slot is being written, or given up, before its first request.
FreshInv ==
    \A i \in Slots : control[i].gen = 0 => control[i].state \in {"Empty", "ProviderGone"}

\* How a slot came to its state is final for the request that used it.
HistoryInv ==
    /\ \A h \in cancelled : GenOf(h) <= WordOf(h).gen /\ (Current(h) => Is(h, "Abandoned"))
    /\ \A h \in answered :
        h \in Handles /\ GenOf(h) <= WordOf(h).gen /\ (Current(h) => Is(h, "Ready"))

IInv ==
    /\ HandleInv /\ TaskInv /\ AwaitedInv /\ FreshInv /\ HistoryInv
    /\ HeldOnce /\ Accounted /\ Settled

IntactInv == Intact => IInv
==============================================================================
