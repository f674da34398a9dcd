------------------------ MODULE ResponseSlots_proofs ------------------------
(***************************************************************************)
(* Proofs about ResponseSlots, with response pollers that may run between  *)
(* a timer and its continuation.  The ownership properties hold as long as *)
(* no such poller and giveUp have both released a slot (Intact): that is   *)
(* the one way to break them, and run slots_race shows that it is real.    *)
(* Where no request with a finite timeout is awaited as a future it cannot *)
(* happen, and every slot is released once.                                *)
(***************************************************************************)
EXTENDS ResponseSlots, TLAPS

\* What type correctness needs besides the types: a slot under a half-done
\* compare-and-swap is a slot of the pool, a request under way has a handle.
TypeInv ==
    /\ TypeOK
    /\ seen # -1 => scan < Capacity
    /\ \A r \in Requesters : pc[r] # "idle" => handle[r] \in Handles

LEMMA HandleParts ==
    ASSUME NEW h \in Handles
    PROVE  SlotOf(h) \in Slots /\ GenOf(h) \in Gens /\ h = <<SlotOf(h), GenOf(h)>>
BY DEF Handles, SlotOf, GenOf

LEMMA TypeInit == Init => TypeInv
BY SizeAssumption DEF Init, TypeInv, TypeOK, Slots, Gens, Handles, Word, State, NoHandle

\* What a successful compare-and-swap, and a release, leave behind.
LEMMA SwapTyped ==
    ASSUME TypeOK, NEW h \in Handles, NEW old, NEW new \in State, Swap(h, old, new)
    PROVE  control' \in [Slots -> [gen : 0 .. MaxGen, state : State]]
<1>1. Word(GenOf(h), new) \in [gen : 0 .. MaxGen, state : State]
    BY HandleParts, SizeAssumption DEF Word, Gens
<1> QED BY <1>1 DEF TypeOK, Swap

LEMMA ReleaseTyped ==
    ASSUME TypeOK, NEW h, Release(h)
    PROVE  free' \in [Slots -> Nat]
<1> DEFINE i == SlotOf(h)
<1>1. free' = [free EXCEPT ![i] = @ + 1] BY DEF Release
<1>2. free \in [Slots -> Nat] BY DEF TypeOK
<1> HIDE DEF i
<1>3. CASE i \in Slots
  <2>1. free[i] + 1 \in Nat BY <1>2, <1>3
  <2> QED BY <1>1, <1>2, <2>1
<1>4. CASE i \notin Slots BY <1>1, <1>2, <1>4
<1> QED BY <1>3, <1>4

LEMMA StateNames ==
    /\ "Empty" \in State /\ "Writing" \in State /\ "Ready" \in State
    /\ "Abandoned" \in State /\ "AbandonedWriting" \in State /\ "ProviderGone" \in State
BY DEF State

LEMMA TypeStep == TypeInv /\ [Next]_vars => TypeInv'
<1> SUFFICES ASSUME TypeInv, [Next]_vars PROVE TypeInv'
    OBVIOUS
<1> USE SizeAssumption, StateNames DEF TypeInv, providerVars, history, Goto
<1>1. ASSUME NEW r \in Requesters, Requester(r) PROVE TypeInv'
  <2>1. CASE Pop(r)
    <3>1. PICK i \in Slots :
            /\ free[i] > 0 /\ control[i].gen < MaxGen
            /\ free' = [free EXCEPT ![i] = @ - 1]
            /\ handle' = [handle EXCEPT ![r] = <<i, control[i].gen + 1>>]
      BY <2>1 DEF Pop
    <3>2. <<i, control[i].gen + 1>> \in Handles
      BY <3>1 DEF TypeOK, Handles, Gens
    <3>3. free' \in [Slots -> Nat] BY <3>1 DEF TypeOK
    <3> QED BY <2>1, <3>1, <3>2, <3>3 DEF Pop, TypeOK
  <2>2. CASE Arm(r)
    <3>1. Word(GenOf(handle[r]), "Empty") \in [gen : 0 .. MaxGen, state : State]
      BY <2>2, HandleParts DEF Arm, Word, Gens
    <3> QED BY <2>2, <3>1 DEF Arm, TypeOK
  <2>3. CASE Send(r) BY <2>3 DEF Send, Became, TypeOK
  <2>4. CASE SendFails(r) BY <2>4, ReleaseTyped DEF SendFails, TypeOK
  <2>5. CASE Receive(r)
    <3>1. CASE StartRead(r) BY <3>1 DEF StartRead, MayReceive, TypeOK
    <3>2. CASE FinishRead(r)
      <4>1. bytes[SlotOf(handle[r])] \in Handles \cup {NoHandle}
        BY <3>2, HandleParts DEF FinishRead, TypeOK
      <4> QED BY <3>2, <4>1, ReleaseTyped DEF FinishRead, Resolved, TypeOK
    <3>3. CASE SeeProviderGone(r)
      BY <3>3, ReleaseTyped DEF SeeProviderGone, MayReceive, Resolved, TypeOK
    <3>4. CASE SeeCancelled(r)
      BY <3>4 DEF SeeCancelled, MayReceive, Resolved, TypeOK
    <3> QED BY <2>5, <3>1, <3>2, <3>3, <3>4 DEF Receive
  <2>6. CASE Expire(r) BY <2>6 DEF Expire, TypeOK
  <2>7. CASE GiveUp(r)
    <3>1. handle[r] \in Handles BY <2>7 DEF GiveUp, MayGiveUp
    <3>2. control' \in [Slots -> [gen : 0 .. MaxGen, state : State]]
      BY <2>7, <3>1, SwapTyped DEF GiveUp, TypeOK
    <3>3. free' \in [Slots -> Nat] BY <2>7, ReleaseTyped DEF GiveUp, TypeOK
    <3> QED BY <2>7, <3>2, <3>3 DEF GiveUp, TypeOK
  <2> QED BY <1>1, <2>1, <2>2, <2>3, <2>4, <2>5, <2>6, <2>7 DEF Requester
<1>2. ASSUME NEW h \in Handles, Poll(h) PROVE TypeInv'
  BY <1>2, ReleaseTyped DEF Poll, Became, TypeOK
<1>3. ASSUME NEW h \in Handles, BeginWrite(h) PROVE TypeInv'
  <2>1. control' \in [Slots -> [gen : 0 .. MaxGen, state : State]]
    BY <1>3, SwapTyped DEF BeginWrite, TypeOK
  <2>2. free' \in [Slots -> Nat] BY <1>3, ReleaseTyped DEF BeginWrite, TypeOK
  <2> QED BY <1>3, <2>1, <2>2 DEF BeginWrite, Became, TypeOK
<1>4. ASSUME NEW h \in Handles, CommitWrite(h) PROVE TypeInv'
  <2>1. control' \in [Slots -> [gen : 0 .. MaxGen, state : State]]
    BY <1>4, SwapTyped DEF CommitWrite, TypeOK
  <2>2. free' \in [Slots -> Nat] BY <1>4, ReleaseTyped DEF CommitWrite, TypeOK
  <2> QED BY <1>4, <2>1, <2>2 DEF CommitWrite, Became, TypeOK
<1>5. ASSUME NEW h \in Handles, Cancel(h) PROVE TypeInv'
  BY <1>5, SwapTyped DEF Cancel, TypeOK
<1>6. CASE Clear
  <2>1. CASE StartClear \/ EndClear \/ CloseRing
    BY <2>1 DEF StartClear, EndClear, CloseRing, TypeOK
  <2>2. CASE MarkLoad
    <3>1. scan \in Slots BY <2>2 DEF MarkLoad, Slots, TypeOK
    <3>2. control[scan].gen \in 0 .. MaxGen BY <3>1 DEF TypeOK
    <3> QED BY <2>2, <3>1, <3>2 DEF MarkLoad, TypeOK
  <2>3. CASE MarkSwap
    <3>1. Word(seen, "ProviderGone") \in [gen : 0 .. MaxGen, state : State]
      BY <2>3 DEF MarkSwap, TypeOK, Word
    <3>2. control' \in [Slots -> [gen : 0 .. MaxGen, state : State]]
      BY <2>3, <3>1 DEF MarkSwap, TypeOK, Swap, SlotOf, GenOf
    <3> QED BY <2>3, <3>2 DEF MarkSwap, TypeOK
  <2> QED BY <1>6, <2>1, <2>2, <2>3 DEF Clear
<1>7. CASE UNCHANGED vars BY <1>7 DEF vars, TypeOK
<1> QED BY <1>1, <1>2, <1>3, <1>4, <1>5, <1>6, <1>7 DEF Next

LEMMA TypeInvariant == Spec => []TypeInv
BY TypeInit, TypeStep, PTL DEF Spec

\* Every variable of the pool keeps its type, for any number of requesters and
\* slots: control words, free-list counts and handles are always well formed.
THEOREM TypeCorrect == Spec => []TypeOK
<1>1. TypeInv => TypeOK BY DEF TypeInv
<1> QED BY TypeInvariant, <1>1, PTL

-----------------------------------------------------------------------------
(* Ownership.  IInv is inductive; each kind of step either leaves the      *)
(* holders as they are, or hands one slot from one holder to the next.     *)

G(h) == control[SlotOf(h)].gen
S(h) == control[SlotOf(h)].state

LEMMA IsFields ==
    ASSUME TypeOK
    PROVE  \A h \in Handles : \A s : Is(h, s) <=> G(h) = GenOf(h) /\ S(h) = s
BY HandleParts DEF TypeOK, Is, WordOf, Word, G, S

LEMMA IsFieldsNext ==
    ASSUME TypeOK'
    PROVE  \A h \in Handles : \A s : Is(h, s)' <=> G(h)' = GenOf(h) /\ S(h)' = s
BY HandleParts DEF TypeOK, Is, WordOf, Word, G, S

LEMMA SameHandle ==
    ASSUME NEW h \in Handles, NEW k \in Handles,
           SlotOf(h) = SlotOf(k), GenOf(h) = GenOf(k)
    PROVE  h = k
BY HandleParts

LEMMA SwapFields ==
    ASSUME TypeInv, NEW h \in Handles, NEW old, NEW new \in State, Swap(h, old, new)
    PROVE  /\ G(h) = GenOf(h) /\ S(h) = old
           /\ \A i \in Slots :
                /\ control'[i].gen = control[i].gen
                /\ control'[i].state = IF i = SlotOf(h) THEN new ELSE control[i].state
<1>1. G(h) = GenOf(h) /\ S(h) = old
  BY HandleParts DEF TypeInv, TypeOK, Swap, Is, WordOf, Word, G, S
<1>2. control' = [control EXCEPT ![SlotOf(h)] = Word(GenOf(h), new)] BY DEF Swap
<1>3. control \in [Slots -> [gen : 0 .. MaxGen, state : State]] BY DEF TypeInv, TypeOK
<1>4. SlotOf(h) \in Slots BY HandleParts
<1> QED BY <1>1, <1>2, <1>3, <1>4 DEF Word, G

\* So no other request notices.
LEMMA SwapIs ==
    ASSUME TypeInv, TypeInv', NEW h \in Handles, NEW old, NEW new \in State, Swap(h, old, new)
    PROVE  /\ \A k \in Handles : k # h => \A w : Is(k, w)' <=> Is(k, w)
           /\ Is(h, old) /\ \A w : Is(h, w)' <=> w = new
<1>1. control \in [Slots -> [gen : 0 .. MaxGen, state : State]] BY DEF TypeInv, TypeOK
<1>2. Is(h, old) BY DEF Swap
<1>3. control' = [control EXCEPT ![SlotOf(h)] = Word(GenOf(h), new)] BY DEF Swap
<1>4. \A w : Is(h, w)' <=> w = new
  BY <1>1, <1>3, HandleParts DEF Is, WordOf, Word
<1>5. ASSUME NEW k \in Handles, k # h, NEW w PROVE Is(k, w)' <=> Is(k, w)
  <2>1. CASE SlotOf(k) = SlotOf(h)
    <3>1. GenOf(k) # GenOf(h) BY <1>5, <2>1, SameHandle
    <3> QED BY <1>1, <1>2, <1>3, <2>1, <3>1, HandleParts DEF Is, WordOf, Word
  <2>2. CASE SlotOf(k) # SlotOf(h) BY <1>1, <1>3, <2>2, HandleParts DEF Is, WordOf
  <2> QED BY <2>1, <2>2
<1> QED BY <1>2, <1>4, <1>5

\* The request whose abandoned slot the provider still holds.
Left(k, i) ==
    /\ SlotOf(k) = i /\ task[k] \in {"queued", "running", "writing"}
    /\ Is(k, "Abandoned") \/ Is(k, "AbandonedWriting")

LEMMA ProviderHoldsLeft ==
    ASSUME TypeInv
    PROVE  \A i \in Slots : ProviderHolds(i) <=> \E k \in Handles : Left(k, i)
BY IsFields DEF TypeInv, ProviderHolds, Left, Current, WordOf, G, S, GivenUp

LEMMA ProviderHoldsLeftNext ==
    ASSUME TypeInv'
    PROVE  \A i \in Slots : ProviderHolds(i)' <=> \E k \in Handles : Left(k, i)'
BY IsFieldsNext DEF TypeInv, ProviderHolds, Left, Current, WordOf, G, S, GivenUp

\* A request of the same slot that is current too is the same request.
LEMMA OneCurrent ==
    ASSUME TypeInv, NEW h \in Handles, NEW k \in Handles, SlotOf(h) = SlotOf(k),
           NEW v, NEW w, Is(h, v), Is(k, w)
    PROVE  h = k
BY IsFields, SameHandle DEF TypeInv, G

\* The provider is done with an abandoned request: it holds its slot no more.
LEMMA ProviderLeaves ==
    ASSUME TypeInv, TypeInv', NEW h \in Handles,
           Is(h, "Abandoned") \/ Is(h, "AbandonedWriting"),
           UNCHANGED control, task' = [task EXCEPT ![h] = "done"]
    PROVE  \A i \in Slots : ProviderHolds(i)' <=> ProviderHolds(i) /\ i # SlotOf(h)
<1>1. ASSUME NEW k \in Handles, NEW i \in Slots
      PROVE  Left(k, i)' <=> Left(k, i) /\ i # SlotOf(h)
  <2>1. \A w : Is(k, w)' <=> Is(k, w) BY DEF Is, WordOf
  <2>2. SlotOf(k) = SlotOf(h) /\ (Is(k, "Abandoned") \/ Is(k, "AbandonedWriting")) => k = h
    BY OneCurrent
  <2>3. /\ task'[k] = IF k = h THEN "done" ELSE task[k]
        /\ Left(k, i) => SlotOf(k) = i /\ (Is(k, "Abandoned") \/ Is(k, "AbandonedWriting"))
    BY DEF TypeInv, TypeOK, Left
  <2> QED BY <2>1, <2>2, <2>3 DEF Left
<1> QED BY <1>1, ProviderHoldsLeft, ProviderHoldsLeftNext

\* The four things a step can do to who holds which slot.
LEMMA SameHolders ==
    ASSUME HeldOnce, Accounted, UNCHANGED free,
           \A i \in Slots : ProviderHolds(i)' <=> ProviderHolds(i),
           \A q \in Requesters, i \in Slots : RequesterHolds(q, i)' <=> RequesterHolds(q, i)
    PROVE  HeldOnce' /\ Accounted'
BY DEF HeldOnce, Accounted

LEMMA RequesterReleases ==
    ASSUME TypeInv, HeldOnce, Accounted, NEW r \in Requesters, NEW s \in Slots,
           RequesterHolds(r, s), free' = [free EXCEPT ![s] = @ + 1],
           \A i \in Slots : ProviderHolds(i)' <=> ProviderHolds(i),
           \A q \in Requesters, i \in Slots :
                RequesterHolds(q, i)' <=> RequesterHolds(q, i) /\ ~(q = r /\ i = s)
    PROVE  HeldOnce' /\ Accounted'
<1>1. free \in [Slots -> Nat] BY DEF TypeInv, TypeOK
<1>2. free[s] = 0 /\ ~ProviderHolds(s) BY <1>1 DEF HeldOnce
<1>3. free'[s] = 1 /\ \A i \in Slots : i # s => free'[i] = free[i] BY <1>1, <1>2
<1>4. HeldOnce' BY <1>2, <1>3 DEF HeldOnce
<1>5. Accounted' BY <1>2, <1>3 DEF Accounted
<1> QED BY <1>4, <1>5

LEMMA ProviderReleases ==
    ASSUME TypeInv, HeldOnce, Accounted, NEW s \in Slots,
           ProviderHolds(s), free' = [free EXCEPT ![s] = @ + 1],
           \A i \in Slots : ProviderHolds(i)' <=> ProviderHolds(i) /\ i # s,
           \A q \in Requesters, i \in Slots : RequesterHolds(q, i)' <=> RequesterHolds(q, i)
    PROVE  HeldOnce' /\ Accounted'
<1>1. free \in [Slots -> Nat] BY DEF TypeInv, TypeOK
<1>2. free[s] = 0 /\ \A q \in Requesters : ~RequesterHolds(q, s) BY <1>1 DEF HeldOnce
<1>3. free'[s] = 1 /\ \A i \in Slots : i # s => free'[i] = free[i] BY <1>1, <1>2
<1>4. HeldOnce' BY <1>2, <1>3 DEF HeldOnce
<1>5. Accounted' BY <1>2, <1>3 DEF Accounted
<1> QED BY <1>4, <1>5

LEMMA HandedToProvider ==
    ASSUME HeldOnce, Accounted, UNCHANGED free, NEW r \in Requesters, NEW s \in Slots,
           RequesterHolds(r, s),
           \A i \in Slots : ProviderHolds(i)' <=> ProviderHolds(i) \/ i = s,
           \A q \in Requesters, i \in Slots :
                RequesterHolds(q, i)' <=> RequesterHolds(q, i) /\ i # s
    PROVE  HeldOnce' /\ Accounted'
<1>1. HeldOnce' BY DEF HeldOnce
<1>2. Accounted' BY DEF Accounted
<1> QED BY <1>1, <1>2

\* AwaitedInv survives a step that leaves the requests that are still due, and
\* those who wait for them, alone; only request h may change hands.
LEMMA AwaitedKept ==
    ASSUME AwaitedInv, NEW h,
           \A k \in Handles : Due(k)' => Due(k) /\ k # h,
           \A k \in Handles : k # h => task'[k] = task[k],
           \A q \in Requesters : pc[q] \in {"waiting", "expired"} /\ handle[q] # h =>
                pc'[q] \in {"waiting", "expired"} /\ handle'[q] = handle[q]
    PROVE  AwaitedInv'
BY DEF AwaitedInv

\* So it does one after which the same requests are due and waited for.
LEMMA AwaitedSame ==
    ASSUME AwaitedInv,
           \A k \in Handles : Due(k)' => Due(k) /\ task'[k] \in {"queued", "running", "writing"},
           \A q \in Requesters : pc[q] \in {"waiting", "expired"} =>
                pc'[q] \in {"waiting", "expired"} /\ handle'[q] = handle[q]
    PROVE  AwaitedInv'
BY DEF AwaitedInv

\* A requester whose request is not due leaves its wait, or starts to read: what
\* is left to prove is who holds which slot.
LEMMA RequesterMoves ==
    ASSUME TypeInv, TypeInv', IInv, NEW r \in Requesters, pc[r] # "popped",
           NEW label \in {"idle", "reading", "lateReading", "late"},
           pc' = [pc EXCEPT ![r] = label], pc[r] # "idle", ~Due(handle[r]),
           label \in {"reading", "lateReading"} => Is(handle[r], "Ready"),
           label = "late" => pc[r] \in {"expired", "lateReading"},
           UNCHANGED <<control, bytes, handle, task, cancelled>>,
           answered' = answered \/ (Is(handle[r], "Ready") /\ answered' = answered \cup {handle[r]}),
           HeldOnce', Accounted'
    PROVE  IInv'
<1>1. \A k : \A w : Is(k, w)' <=> Is(k, w) BY DEF Is, WordOf
<1>handle. HandleInv'
  <2> SUFFICES ASSUME NEW q \in Requesters PROVE HandleInv!(q)'
      BY DEF HandleInv
  <2>1. HandleInv!(q) BY DEF IInv, HandleInv
  <2>2. CASE q # r BY <1>1, <2>1, <2>2 DEF TypeInv, TypeOK, WordOf
  <2>3. CASE q = r /\ label # "late" BY <1>1, <2>1, <2>3 DEF TypeInv, TypeOK
  <2>4. CASE q = r /\ label = "late"
    <3>1. handle[r] \in Handles BY DEF TypeInv
    <3>2. Is(handle[r], "Ready") => GenOf(handle[r]) <= WordOf(handle[r]).gen
      BY <3>1, IsFields, HandleParts, SizeAssumption DEF TypeInv, TypeOK, WordOf, G, Gens
    <3>3. ~Is(handle[r], "Empty") /\ ~Is(handle[r], "Writing")
      BY <2>1, <2>4, <3>1, IsFields DEF TypeInv, Due
    <3>4. pc'[r] = "late" BY <2>4 DEF TypeInv, TypeOK
    <3> QED BY <1>1, <2>1, <2>4, <3>1, <3>2, <3>3, <3>4 DEF WordOf
  <2> QED BY <2>2, <2>3, <2>4
<1>task. TaskInv' BY <1>1 DEF IInv, TaskInv, WordOf
<1>awaited. AwaitedInv'
  <2>1. \A k \in Handles : Due(k)' => Due(k) /\ k # handle[r] BY <1>1 DEF Due
  <2>2. \A q \in Requesters : pc[q] \in {"waiting", "expired"} /\ handle[q] # handle[r] =>
            pc'[q] \in {"waiting", "expired"} /\ handle'[q] = handle[q]
    BY DEF TypeInv, TypeOK
  <2> QED BY <2>1, <2>2, AwaitedKept DEF IInv
<1>fresh. FreshInv' BY DEF IInv, FreshInv
<1>history. HistoryInv'
  <2>1. handle[r] \in Handles BY DEF TypeInv
  <2>2. Is(handle[r], "Ready") => GenOf(handle[r]) <= WordOf(handle[r]).gen
    BY <2>1, IsFields, HandleParts, SizeAssumption DEF TypeInv, TypeOK, WordOf, G, Gens
  <2> QED BY <1>1, <2>1, <2>2 DEF IInv, HistoryInv, Current, WordOf
<1>cancel. Settled'
  <2>1. ASSUME handle[r] \in cancelled, Is(handle[r], "Ready") PROVE FALSE
    <3>1. handle[r] \in Handles BY DEF TypeInv
    <3>2. Is(handle[r], "Abandoned")
      BY <2>1, <3>1, IsFields DEF TypeInv, IInv, HistoryInv, Current, WordOf, G
    <3> QED BY <2>1, <3>1, <3>2, IsFields DEF TypeInv
  <2> QED BY <2>1 DEF IInv, Settled
<1> QED
  BY <1>handle, <1>task, <1>awaited, <1>fresh, <1>history, <1>cancel DEF IInv

\* The provider drops a request that was given up, and releases its slot.
LEMMA ProviderDrops ==
    ASSUME TypeInv, TypeInv', IInv, NEW h \in Handles,
           \/ Is(h, "Abandoned") /\ task[h] \in {"queued", "running"}
           \/ Is(h, "AbandonedWriting") /\ task[h] = "writing",
           bytes' = bytes \/ bytes' = [bytes EXCEPT ![SlotOf(h)] = h],
           task' = [task EXCEPT ![h] = "done"],
           free' = [free EXCEPT ![SlotOf(h)] = @ + 1],
           UNCHANGED <<control, pc, handle, answered, cancelled>>
    PROVE  IInv'
<1>1. \A k : \A w : Is(k, w)' <=> Is(k, w) BY DEF Is, WordOf
<1>2. /\ SlotOf(h) \in Slots /\ G(h) = GenOf(h) /\ S(h) \in GivenUp
      /\ \A i \in Slots \ {SlotOf(h)} : bytes'[i] = bytes[i]
      /\ \A k \in Handles : task'[k] = IF k = h THEN "done" ELSE task[k]
  BY IsFields, HandleParts DEF TypeInv, TypeOK, GivenUp
<1>handle. HandleInv'
  <2>1. task[h] # "none" OBVIOUS
  <2> QED BY <1>1, <1>2, <2>1 DEF TypeInv, TypeOK, IInv, HandleInv, WordOf
<1>task. TaskInv'
  <2> SUFFICES ASSUME NEW k \in Handles PROVE TaskInv!(k)'
      BY DEF TaskInv
  <2>1. TaskInv!(k) BY DEF IInv, TaskInv
  <2>2. CASE k = h BY <1>1, <1>2, <2>1, <2>2, IsFields DEF TypeInv, WordOf, GivenUp
  <2>3. CASE k # h
    <3>1. Is(k, "Ready") => SlotOf(k) # SlotOf(h)
      BY <1>2, IsFields DEF TypeInv, G, S, GivenUp
    <3> QED BY <1>1, <1>2, <2>1, <2>3, <3>1, HandleParts DEF WordOf
  <2> QED BY <2>2, <2>3
<1>awaited. AwaitedInv'
  <2>1. ~Due(h) BY <1>2, IsFields DEF TypeInv, Due, GivenUp
  <2>2. \A k \in Handles : Due(k)' => Due(k) /\ k # h BY <1>1, <1>2, <2>1 DEF Due
  <2> QED BY <1>2, <2>2, AwaitedKept DEF IInv
<1>fresh. FreshInv' BY DEF IInv, FreshInv
<1>history. HistoryInv' BY DEF IInv, HistoryInv, Current, Is, WordOf
<1>holders. HeldOnce' /\ Accounted'
  <2>1. ProviderHolds(SlotOf(h)) BY <1>2 DEF ProviderHolds, Current, WordOf, G, S
  <2>2. \A q \in Requesters, i \in Slots : RequesterHolds(q, i)' <=> RequesterHolds(q, i)
    BY DEF RequesterHolds, Current, WordOf
  <2> QED BY <1>2, <2>1, <2>2, ProviderLeaves, ProviderReleases DEF IInv
<1>cancel. Settled' BY DEF IInv, Settled
<1> QED
  BY <1>handle, <1>task, <1>awaited, <1>fresh, <1>history, <1>holders, <1>cancel DEF IInv

\* A request that is due is given up, by its requester or by a canceller: the
\* provider holds its slot from then on.
LEMMA GivenUpStep ==
    ASSUME TypeInv, TypeInv', IInv, NEW h \in Handles, NEW r \in Requesters,
           pc[r] \in {"waiting", "expired"}, handle[r] = h,
           pc' = pc \/ pc' = [pc EXCEPT ![r] = "idle"],
           NEW old, NEW new, Swap(h, old, new),
           \/ old = "Empty" /\ new = "Abandoned"
           \/ old = "Writing" /\ new = "AbandonedWriting",
           cancelled' = cancelled \/ (new = "Abandoned" /\ cancelled' = cancelled \cup {h}),
           UNCHANGED <<bytes, free, handle, task, answered>>
    PROVE  IInv'
<1>1. new \in GivenUp BY DEF GivenUp
<1>2. /\ new \in State /\ old \notin GivenUp
      /\ SlotOf(h) \in Slots /\ GenOf(h) \in Nat
  BY <1>1, HandleParts DEF State, GivenUp, Gens
<1>3. /\ G(h) = GenOf(h) /\ S(h) = old
      /\ \A i \in Slots :
            /\ control'[i].gen = control[i].gen
            /\ control'[i].state = IF i = SlotOf(h) THEN new ELSE control[i].state
  BY <1>1, <1>2, SwapFields
<1>4. /\ \A k \in Handles : k # h => \A w : Is(k, w)' <=> Is(k, w)
      /\ Is(h, old) /\ \A w : Is(h, w)' <=> w = new
  BY <1>1, <1>2, SwapIs
<1>5. \A k \in Handles : WordOf(k).gen' = WordOf(k).gen /\ (Current(k)' <=> Current(k))
  BY <1>3, HandleParts DEF WordOf, Current
<1>6. task[h] \in IF old = "Empty" THEN {"queued", "running"} ELSE {"writing"}
  BY <1>1, <1>4, IsFields DEF TypeInv, IInv, HandleInv, AwaitedInv, Due, TaskInv
<1>handle. HandleInv'
  <2> SUFFICES ASSUME NEW q \in Requesters PROVE HandleInv!(q)'
      BY DEF HandleInv
  <2>1. HandleInv!(q) BY DEF IInv, HandleInv
  <2>2. pc[q] # "idle" => handle[q] \in Handles BY DEF TypeInv
  <2>3. WordOf(handle[q]).gen' = WordOf(handle[q]).gen \/ pc[q] = "idle"
    BY <1>5, <2>2 DEF WordOf
  <2> DEFINE firm == {"armed", "reading", "lateReading", "late"}
  <2>4. pc[q] \in firm => handle[q] # h
    BY <1>1, <1>3, <1>4, <1>6, <2>1, <2>2, IsFields DEF TypeInv
  <2>5. pc[q] \in firm => \A w : Is(handle[q], w)' <=> Is(handle[q], w)
    BY <1>4, <2>2, <2>4 DEF Is, WordOf
  <2>6. pc'[q] = pc[q] \/ pc'[q] = "idle" BY DEF TypeInv, TypeOK
  <2> QED BY <2>1, <2>2, <2>3, <2>5, <2>6 DEF WordOf
<1>task. TaskInv' BY <1>1, <1>4, <1>5, <1>6 DEF IInv, TaskInv
<1>awaited. AwaitedInv'
  <2>1. \A k \in Handles : Due(k)' => Due(k) /\ k # h BY <1>1, <1>4 DEF Due
  <2>2. \A q \in Requesters : pc[q] \in {"waiting", "expired"} /\ handle[q] # h =>
            pc'[q] \in {"waiting", "expired"} /\ handle'[q] = handle[q]
    BY DEF TypeInv, TypeOK
  <2> QED BY <2>1, <2>2, AwaitedKept DEF IInv
<1>fresh. FreshInv'
  <2>1. control[SlotOf(h)].gen # 0 BY <1>3, HandleParts DEF G, Gens
  <2> QED BY <1>2, <1>3, <2>1 DEF IInv, FreshInv
<1>history. HistoryInv'
  <2>1. h \notin answered
    BY <1>1, <1>3, <1>4, IsFields
    DEF TypeInv, IInv, HistoryInv, Current, WordOf, G
  <2>2. h \notin cancelled
    BY <1>1, <1>3, <1>4, IsFields
    DEF TypeInv, IInv, HistoryInv, Current, WordOf, G
  <2>3. GenOf(h) <= WordOf(h).gen BY <1>2, <1>3 DEF WordOf, G
  <2> QED BY <1>1, <1>4, <1>5, <2>1, <2>2, <2>3 DEF TypeInv, TypeOK, IInv, HistoryInv
<1>holders. HeldOnce' /\ Accounted'
  <2>1. RequesterHolds(r, SlotOf(h))
    BY <1>2, <1>3 DEF RequesterHolds, Current, WordOf, G, S
  <2>2. \A i \in Slots : ProviderHolds(i)' <=> ProviderHolds(i) \/ i = SlotOf(h)
    BY <1>1, <1>2, <1>3, <1>6 DEF TypeInv, TypeOK, ProviderHolds, Current, WordOf, G
  <2>3. \A q \in Requesters, i \in Slots :
          RequesterHolds(q, i)' <=> RequesterHolds(q, i) /\ i # SlotOf(h)
    <3>1. \A q \in Requesters : RequesterHolds(q, SlotOf(h)) => q = r
      BY <1>2, <2>1 DEF IInv, HeldOnce
    <3> QED
      BY <1>1, <1>3, <2>1, <3>1 DEF TypeInv, TypeOK, RequesterHolds, Current, WordOf, G
  <2> QED BY <1>2, <2>1, <2>2, <2>3, HandedToProvider DEF IInv
<1>cancel. Settled'
  <2>1. h \notin answered
    BY <1>1, <1>3, <1>4, IsFields
    DEF TypeInv, IInv, HistoryInv, Current, WordOf, G
  <2> QED BY <1>1, <2>1 DEF IInv, Settled
<1> QED
  BY <1>handle, <1>task, <1>awaited, <1>fresh, <1>history, <1>holders, <1>cancel DEF IInv

\* Nobody else notices that a requester leaves, with or without the slot it held.
LEMMA OthersHold ==
    ASSUME TypeInv, NEW r \in Requesters,
           NEW label \in {"idle", "reading", "lateReading", "late"},
           pc' = [pc EXCEPT ![r] = label], UNCHANGED <<control, handle, task>>
    PROVE  /\ \A i \in Slots : ProviderHolds(i)' <=> ProviderHolds(i)
           /\ \A q \in Requesters, i \in Slots : q # r =>
                RequesterHolds(q, i)' <=> RequesterHolds(q, i)
           /\ label \in {"idle", "late"} => \A i \in Slots : ~RequesterHolds(r, i)'
BY DEF TypeInv, TypeOK, ProviderHolds, RequesterHolds, Current, WordOf

\* A requester that holds its slot leaves and releases it.
LEMMA LeaveAndRelease ==
    ASSUME TypeInv, TypeInv', IInv, NEW r \in Requesters,
           NEW label \in {"idle", "late"}, pc' = [pc EXCEPT ![r] = label],
           label = "late" => pc[r] \in {"expired", "lateReading"},
           \/ pc[r] = "armed"
           \/ /\ pc[r] \in {"waiting", "expired", "reading", "lateReading"}
              /\ Is(handle[r], "Ready") \/ Is(handle[r], "ProviderGone"),
           Release(handle[r]),
           UNCHANGED <<control, bytes, handle, task, cancelled>>,
           answered' = answered \/ (Is(handle[r], "Ready") /\ answered' = answered \cup {handle[r]})
    PROVE  IInv'
<1>1. handle[r] \in Handles /\ SlotOf(handle[r]) \in Slots BY HandleParts DEF TypeInv
<1>2. RequesterHolds(r, SlotOf(handle[r]))
  BY <1>1, IsFields DEF TypeInv, RequesterHolds, Current, WordOf, G, S, GivenUp
<1>3. ~Due(handle[r])
  <2>1. CASE pc[r] = "armed"
    BY <1>1, <2>1, IsFields DEF TypeInv, IInv, HandleInv, Due
  <2>2. CASE Is(handle[r], "Ready") \/ Is(handle[r], "ProviderGone")
    BY <1>1, <2>2, IsFields DEF TypeInv, Due
  <2> QED BY <2>1, <2>2
<1>4. \A i \in Slots : RequesterHolds(r, i) => i = SlotOf(handle[r]) BY DEF RequesterHolds
<1>5. HeldOnce' /\ Accounted'
  <2>1. \A i \in Slots : ProviderHolds(i)' <=> ProviderHolds(i) BY OthersHold
  <2>2. \A q \in Requesters, i \in Slots :
          RequesterHolds(q, i)' <=> RequesterHolds(q, i) /\ ~(q = r /\ i = SlotOf(handle[r]))
    BY <1>1, <1>4, OthersHold
  <2> QED BY <1>1, <1>2, <2>1, <2>2, RequesterReleases DEF Release, IInv
<1> QED BY <1>3, <1>5, RequesterMoves

\* A requester leaves a slot it does not hold.
LEMMA LeaveQuietly ==
    ASSUME TypeInv, TypeInv', IInv, NEW r \in Requesters,
           NEW label \in {"idle", "late"}, pc' = [pc EXCEPT ![r] = label],
           label = "late" => pc[r] = "expired",
           pc[r] \in {"waiting", "expired", "late"},
           ~Current(handle[r]) \/ WordOf(handle[r]).state \in GivenUp,
           UNCHANGED <<control, free, bytes, handle, task, answered, cancelled>>
    PROVE  IInv'
<1>1. \A i \in Slots : ~RequesterHolds(r, i) BY DEF RequesterHolds, WordOf
<1>2. ~Due(handle[r])
  BY IsFields DEF TypeInv, Due, Current, WordOf, G, S, GivenUp
<1>3. HeldOnce' /\ Accounted' BY <1>1, OthersHold, SameHolders DEF IInv
<1> QED BY <1>2, <1>3, RequesterMoves

LEMMA SendFailsStep ==
    ASSUME TypeInv, TypeInv', IInv, NEW r \in Requesters, SendFails(r)
    PROVE  IInv'
BY LeaveAndRelease DEF SendFails, Goto, providerVars, history

LEMMA StartReadStep ==
    ASSUME TypeInv, TypeInv', IInv, NEW r \in Requesters, StartRead(r)
    PROVE  IInv'
<1>0. PICK label \in {"reading", "lateReading"} : pc' = [pc EXCEPT ![r] = label]
  BY DEF StartRead, Goto
<1>1. /\ pc[r] \in {"waiting", "expired"} /\ Is(handle[r], "Ready")
      /\ UNCHANGED <<control, bytes, free, task, handle, answered, cancelled>>
  BY DEF StartRead, providerVars, history, MayReceive
<1>2. ~Due(handle[r]) BY <1>1, IsFields DEF TypeInv, Due
<1>3. \A i \in Slots : RequesterHolds(r, i)' <=> RequesterHolds(r, i)
  BY <1>0, <1>1 DEF TypeInv, TypeOK, RequesterHolds, Current, WordOf
<1>4. HeldOnce' /\ Accounted' BY <1>0, <1>1, <1>3, OthersHold, SameHolders DEF IInv
<1> QED BY <1>0, <1>1, <1>2, <1>4, RequesterMoves

LEMMA FinishReadStep ==
    ASSUME TypeInv, TypeInv', IInv, NEW r \in Requesters, FinishRead(r)
    PROVE  IInv'
<1>1. /\ pc[r] \in {"reading", "lateReading"}
      /\ pc' = [pc EXCEPT ![r] = Resolved(pc[r])]
      /\ answered' = answered \/ answered' = answered \cup {bytes[SlotOf(handle[r])]}
  BY DEF FinishRead, Goto
<1>2. /\ handle[r] \in Handles /\ Is(handle[r], "Ready")
      /\ bytes[SlotOf(handle[r])] = handle[r]
  BY <1>1 DEF TypeInv, IInv, HandleInv, TaskInv
<1>3. /\ Resolved(pc[r]) \in {"idle", "late"}
      /\ Resolved(pc[r]) = "late" => pc[r] \in {"expired", "lateReading"}
  BY DEF Resolved
<1> QED BY <1>1, <1>2, <1>3, LeaveAndRelease DEF FinishRead, providerVars

LEMMA SeeProviderGoneStep ==
    ASSUME TypeInv, TypeInv', IInv, NEW r \in Requesters, SeeProviderGone(r)
    PROVE  IInv'
<1>1. pc[r] \in {"waiting", "expired"} /\ pc' = [pc EXCEPT ![r] = Resolved(pc[r])]
  BY DEF SeeProviderGone, Goto, MayReceive
<1>2. /\ Resolved(pc[r]) \in {"idle", "late"}
      /\ Resolved(pc[r]) = "late" => pc[r] \in {"expired", "lateReading"}
  BY DEF Resolved
<1> QED BY <1>1, <1>2, LeaveAndRelease DEF SeeProviderGone, providerVars, history

LEMMA SeeCancelledStep ==
    ASSUME TypeInv, TypeInv', IInv, NEW r \in Requesters, SeeCancelled(r)
    PROVE  IInv'
<1>1. /\ pc[r] \in {"waiting", "expired"} /\ pc' = [pc EXCEPT ![r] = Resolved(pc[r])]
      /\ Is(handle[r], "Abandoned")
  BY DEF SeeCancelled, Goto, MayReceive
<1>2. /\ Resolved(pc[r]) \in {"idle", "late"}
      /\ Resolved(pc[r]) = "late" => pc[r] = "expired"
  BY <1>1 DEF Resolved
<1>3. WordOf(handle[r]).state \in GivenUp BY <1>1 DEF Is, Word, GivenUp
<1> QED BY <1>1, <1>2, <1>3, LeaveQuietly DEF SeeCancelled, providerVars, history

\* An expired request holds what it held, and is still due if it was.
LEMMA ExpireStep ==
    ASSUME TypeInv, TypeInv', IInv, NEW r \in Requesters, Expire(r)
    PROVE  IInv'
<1>1. /\ pc[r] = "waiting" /\ pc' = [pc EXCEPT ![r] = "expired"]
      /\ UNCHANGED <<control, bytes, free, handle, task, answered, cancelled>>
  BY DEF Expire, Goto, providerVars, history
<1>handle. HandleInv' BY <1>1 DEF TypeInv, TypeOK, IInv, HandleInv, Is, WordOf
<1>task. TaskInv' BY <1>1 DEF IInv, TaskInv, Is, WordOf
<1>awaited. AwaitedInv'
  <2>1. \A q \in Requesters : pc[q] \in {"waiting", "expired"} =>
            pc'[q] \in {"waiting", "expired"} /\ handle'[q] = handle[q]
    BY <1>1 DEF TypeInv, TypeOK
  <2>2. \A k \in Handles :
            Due(k)' => Due(k) /\ task'[k] \in {"queued", "running", "writing"}
    BY <1>1 DEF IInv, AwaitedInv, Due, Is, WordOf
  <2> QED BY <2>1, <2>2, AwaitedSame DEF IInv
<1>fresh. FreshInv' BY <1>1 DEF IInv, FreshInv
<1>history. HistoryInv' BY <1>1 DEF IInv, HistoryInv, Current, Is, WordOf
<1>holders. HeldOnce' /\ Accounted'
  <2>1. \A i \in Slots : ProviderHolds(i)' <=> ProviderHolds(i)
    BY <1>1 DEF ProviderHolds, Current, WordOf
  <2>2. \A q \in Requesters, i \in Slots : RequesterHolds(q, i)' <=> RequesterHolds(q, i)
    BY <1>1 DEF TypeInv, TypeOK, RequesterHolds, Current, WordOf
  <2> QED BY <1>1, <2>1, <2>2, SameHolders DEF IInv
<1>cancel. Settled' BY <1>1 DEF IInv, Settled
<1> QED
  BY <1>handle, <1>task, <1>awaited, <1>fresh, <1>history, <1>holders, <1>cancel DEF IInv

\* A late request that giveUp abandons is not one it could abandon; one whose
\* slot it releases is released twice, which an intact pool excludes.
LEMMA GiveUpStep ==
    ASSUME TypeInv, TypeInv', IInv, Intact', NEW r \in Requesters, GiveUp(r)
    PROVE  IInv'
<1>1. /\ pc[r] \in {"waiting", "expired", "late"} /\ pc' = [pc EXCEPT ![r] = "idle"]
      /\ handle[r] \in Handles
      /\ UNCHANGED <<bytes, task, handle, answered, cancelled>>
  BY DEF GiveUp, MayGiveUp, Goto, providerVars, TypeInv
<1>2. ASSUME \/ Swap(handle[r], "Empty", "Abandoned")
             \/ Swap(handle[r], "Writing", "AbandonedWriting"),
             UNCHANGED free
      PROVE  IInv'
  <2>0. pc[r] # "late" BY <1>2 DEF IInv, HandleInv, Swap
  <2>1. CASE Swap(handle[r], "Empty", "Abandoned") BY <1>1, <1>2, <2>0, <2>1, GivenUpStep
  <2>2. CASE Swap(handle[r], "Writing", "AbandonedWriting")
    BY <1>1, <1>2, <2>0, <2>2, GivenUpStep
  <2> QED BY <1>2, <2>1, <2>2
<1>3. ASSUME Is(handle[r], "Ready") \/ Is(handle[r], "ProviderGone"),
             Release(handle[r]), UNCHANGED control,
             twice' = IF pc[r] = "late" THEN twice \cup {handle[r]} ELSE twice
      PROVE  IInv'
  <2>1. pc[r] # "late" BY <1>3 DEF Intact
  <2> QED BY <1>1, <1>3, <2>1, LeaveAndRelease
<1>4. ASSUME ~Current(handle[r]) \/ WordOf(handle[r]).state \in GivenUp,
             UNCHANGED <<control, free>>
      PROVE  IInv'
  BY <1>1, <1>4, LeaveQuietly
<1> QED BY <1>2, <1>3, <1>4 DEF GiveUp

LEMMA CancelStep ==
    ASSUME TypeInv, TypeInv', IInv, NEW h \in Handles, Cancel(h)
    PROVE  IInv'
<1>1. Swap(h, "Empty", "Abandoned") /\ task[h] # "none" BY DEF Cancel
<1>2. PICK r \in Requesters : pc[r] \in {"waiting", "expired"} /\ handle[r] = h
  BY <1>1 DEF Swap, IInv, AwaitedInv, Due
<1>3. cancelled' = cancelled \cup {h} /\ UNCHANGED <<bytes, free, pc, handle, task, answered>>
  BY DEF Cancel, providerVars
<1> QED BY <1>1, <1>2, <1>3, GivenUpStep

LEMMA PollStep ==
    ASSUME TypeInv, TypeInv', IInv, NEW h \in Handles, Poll(h)
    PROVE  IInv'
<1>0. /\ SlotOf(h) \in Slots /\ task[h] = "queued"
      /\ UNCHANGED <<control, bytes, pc, handle, answered, cancelled>>
  BY HandleParts DEF Poll, history
<1>1. ASSUME Is(h, "Abandoned"), Release(h), Became(h, "done") PROVE IInv'
  BY <1>0, <1>1, ProviderDrops DEF Release, Became
<1>2. ASSUME ~Is(h, "Abandoned"), Became(h, "running"), UNCHANGED free PROVE IInv'
  <2>1. task' = [task EXCEPT ![h] = "running"] BY <1>2 DEF Became
  <2>handle. HandleInv'
    <3> SUFFICES ASSUME NEW q \in Requesters PROVE HandleInv!(q)'
        BY DEF HandleInv
    <3>1. HandleInv!(q) BY DEF IInv, HandleInv
    <3>2. pc[q] # "idle" => handle[q] \in Handles BY DEF TypeInv
    <3> QED
      BY <1>0, <1>2, <2>1, <3>1, <3>2, IsFields, IsFieldsNext, HandleParts, SameHandle
      DEF TypeInv, TypeOK, WordOf, G, S
  <2>task. TaskInv'
    BY <1>0, <1>2, <2>1, IsFields, IsFieldsNext, HandleParts, SameHandle
    DEF TypeInv, TypeOK, IInv, TaskInv, WordOf, G, S
  <2>awaited. AwaitedInv'
    <3>1. \A k \in Handles :
            Due(k)' => Due(k) /\ task'[k] \in {"queued", "running", "writing"}
      BY <1>0, <1>2, <2>1, IsFields, IsFieldsNext, HandleParts, SameHandle
      DEF TypeInv, TypeOK, IInv, AwaitedInv, Due, TaskInv, HandleInv, G, S
    <3>2. \A q \in Requesters : pc[q] \in {"waiting", "expired"} =>
            pc'[q] \in {"waiting", "expired"} /\ handle'[q] = handle[q]
      BY <1>0, <1>2, <2>1 DEF TypeInv, TypeOK
    <3> QED BY <3>1, <3>2, AwaitedSame DEF IInv
  <2>fresh. FreshInv' BY <1>0, <1>2, <2>1 DEF IInv, FreshInv
  <2>history. HistoryInv' BY <1>0, <1>2, <2>1 DEF IInv, HistoryInv, Current, Is, WordOf
  <2>holders. HeldOnce' /\ Accounted'
    <3>1. \A i \in Slots : ProviderHolds(i)' <=> ProviderHolds(i)
      BY <1>0, <1>2, <2>1, IsFields, IsFieldsNext, HandleParts, SameHandle
      DEF TypeInv, TypeOK, IInv, ProviderHolds, Current, WordOf, G, S, GivenUp
    <3>2. \A q \in Requesters, i \in Slots :
            RequesterHolds(q, i)' <=> RequesterHolds(q, i)
      BY <1>0, <1>2, <2>1, IsFields, IsFieldsNext, HandleParts, SameHandle
      DEF TypeInv, TypeOK, IInv, HeldOnce, RequesterHolds, Current, WordOf, G, S, GivenUp
    <3> QED BY <1>0, <1>2, <2>1, <3>1, <3>2, SameHolders DEF IInv
  <2>cancel. Settled' BY <1>0, <1>2, <2>1 DEF IInv, Settled
  <2> QED
    BY <2>handle, <2>task, <2>awaited, <2>fresh, <2>history, <2>holders, <2>cancel DEF IInv
<1> QED BY <1>1, <1>2 DEF Poll

\* A change between states in which nobody has given up moves no slot from one holder to another ...
LEMMA SwapHolders ==
    ASSUME TypeInv, TypeInv', NEW h \in Handles, NEW old, old \notin GivenUp,
           NEW new \in State, new \notin GivenUp, Swap(h, old, new),
           NEW t, task' = [task EXCEPT ![h] = t], UNCHANGED <<pc, handle>>
    PROVE  /\ \A i \in Slots : ProviderHolds(i)' <=> ProviderHolds(i)
           /\ \A q \in Requesters, i \in Slots : RequesterHolds(q, i)' <=> RequesterHolds(q, i)
<1>1. \A i \in Slots :
        /\ control'[i].gen = control[i].gen
        /\ control'[i].state = IF i = SlotOf(h) THEN new ELSE control[i].state
  BY SwapFields
<1>2. S(h) = old BY SwapFields
<1>3. \A i \in Slots : control'[i].state \in GivenUp <=> control[i].state \in GivenUp
  BY <1>1, <1>2 DEF S, WordOf
<1>4. ASSUME NEW k \in Handles, NEW i \in Slots PROVE Left(k, i)' <=> Left(k, i)
  <2>1. \A w \in GivenUp : Is(k, w)' <=> Is(k, w)
    <3>1. CASE k = h
      <4>1. \A w : Is(h, w) => w = old BY <1>2, IsFields DEF TypeInv
      <4> QED BY <3>1, <4>1, SwapIs
    <3>2. CASE k # h BY <3>2, SwapIs
    <3> QED BY <3>1, <3>2
  <2>2. CASE k = h
    <3>1. \A w \in GivenUp : ~Is(h, w) BY <1>2, IsFields DEF TypeInv
    <3> QED BY <2>1, <2>2, <3>1 DEF Left, GivenUp
  <2>3. CASE k # h
    <3>1. task'[k] = task[k] BY <2>3 DEF TypeInv, TypeOK
    <3> QED BY <2>1, <3>1 DEF Left, GivenUp
  <2> QED BY <2>2, <2>3
<1>5. \A i \in Slots : ProviderHolds(i)' <=> ProviderHolds(i)
  BY <1>4, ProviderHoldsLeft, ProviderHoldsLeftNext
<1>6. ASSUME NEW q \in Requesters, NEW i \in Slots
      PROVE  RequesterHolds(q, i)' <=> RequesterHolds(q, i)
  <2>1. CASE SlotOf(handle[q]) = i
    <3>1. Current(handle[q])' <=> Current(handle[q]) BY <1>1, <2>1 DEF Current, WordOf
    <3> QED BY <1>3, <2>1, <3>1 DEF RequesterHolds
  <2>2. CASE SlotOf(handle[q]) # i BY <2>2 DEF RequesterHolds
  <2> QED BY <2>1, <2>2
<1> QED BY <1>5, <1>6

\* ... and a change of a slot that is neither ready nor abandoned settles nothing again.
LEMMA SwapHistory ==
    ASSUME TypeInv, TypeInv', HistoryInv, NEW h \in Handles,
           NEW old, old \notin {"Abandoned", "Ready"}, NEW new \in State, Swap(h, old, new),
           UNCHANGED <<answered, cancelled>>
    PROVE  HistoryInv'
<1>1. Is(h, old) /\ \A k \in Handles : k # h => \A w : Is(k, w)' <=> Is(k, w) BY SwapIs
<1>2. \A w \in {"Abandoned", "Ready"} : ~Is(h, w)
  BY <1>1, IsFields DEF TypeInv
<1>3. \A i \in Slots : control'[i].gen = control[i].gen BY SwapFields
<1>4. \A k \in Handles : WordOf(k).gen' = WordOf(k).gen /\ (Current(k)' <=> Current(k))
  BY <1>3, HandleParts DEF Current, WordOf
<1>5. cancelled \subseteq Handles /\ answered \subseteq Handles
  BY DEF TypeInv, TypeOK, HistoryInv
<1>6. \A k \in Handles : \A w \in {"Abandoned", "Ready"} : Is(k, w) => Is(k, w)'
  BY <1>1, <1>2
<1> QED BY <1>4, <1>5, <1>6 DEF HistoryInv

LEMMA BeginWriteStep ==
    ASSUME TypeInv, TypeInv', IInv, NEW h \in Handles, BeginWrite(h)
    PROVE  IInv'
<1>0. /\ SlotOf(h) \in Slots /\ task[h] = "running"
      /\ UNCHANGED <<bytes, pc, handle, answered, cancelled>>
  BY HandleParts DEF BeginWrite, history
<1>1. ASSUME Swap(h, "Empty", "Writing"), Became(h, "writing"), UNCHANGED free PROVE IInv'
  <2>1. /\ \A i \in Slots :
             /\ control'[i].gen = control[i].gen
             /\ control'[i].state = IF i = SlotOf(h) THEN "Writing" ELSE control[i].state
        /\ G(h) = GenOf(h) /\ S(h) = "Empty"
        BY <1>1, SwapFields, StateNames
  <2>2. task' = [task EXCEPT ![h] = "writing"] BY <1>1 DEF Became
  <2>handle. HandleInv'
    <3> SUFFICES ASSUME NEW q \in Requesters PROVE HandleInv!(q)'
        BY DEF HandleInv
    <3>1. HandleInv!(q) BY DEF IInv, HandleInv
    <3>2. pc[q] # "idle" => handle[q] \in Handles BY DEF TypeInv
    <3> QED
      BY <1>0, <1>1, <2>1, <2>2, <3>1, <3>2, IsFields, IsFieldsNext, HandleParts, SameHandle
      DEF TypeInv, TypeOK, WordOf, G, S
  <2>task. TaskInv'
    BY <1>0, <1>1, <2>1, <2>2, IsFields, IsFieldsNext, HandleParts, SameHandle
    DEF TypeInv, TypeOK, IInv, TaskInv, WordOf, G, S
  <2>awaited. AwaitedInv'
    <3>1. \A k \in Handles :
            Due(k)' => Due(k) /\ task'[k] \in {"queued", "running", "writing"}
      <4> SUFFICES ASSUME NEW k \in Handles, Due(k)'
                   PROVE  Due(k) /\ task'[k] \in {"queued", "running", "writing"}
          OBVIOUS
      <4>1. CASE k = h
        <5>1. Is(h, "Empty") BY <1>1, SwapIs, StateNames
        <5> QED BY <1>0, <2>2, <4>1, <5>1 DEF TypeInv, TypeOK, Due
      <4>2. CASE k # h
        <5>1. \A w : Is(k, w)' <=> Is(k, w) BY <1>1, <4>2, SwapIs, StateNames
        <5>2. task'[k] = task[k] BY <2>2, <4>2 DEF TypeInv, TypeOK
        <5> QED BY <5>1, <5>2 DEF IInv, AwaitedInv, Due
      <4> QED BY <4>1, <4>2
    <3>2. \A q \in Requesters : pc[q] \in {"waiting", "expired"} =>
            pc'[q] \in {"waiting", "expired"} /\ handle'[q] = handle[q]
      BY <1>0, <1>1, <2>1, <2>2 DEF TypeInv, TypeOK
    <3> QED BY <3>1, <3>2, AwaitedSame DEF IInv
  <2>fresh. FreshInv'
    BY <1>0, <1>1, <2>1, <2>2, HandleParts, SizeAssumption
    DEF TypeInv, TypeOK, IInv, FreshInv, G, Gens
  <2>history. HistoryInv' BY <1>0, <1>1, StateNames, SwapHistory DEF IInv
  <2>holders. HeldOnce' /\ Accounted'
    <3>1. "Empty" \notin GivenUp /\ "Writing" \notin GivenUp BY DEF GivenUp
    <3>2. /\ \A i \in Slots : ProviderHolds(i)' <=> ProviderHolds(i)
          /\ \A q \in Requesters, i \in Slots : RequesterHolds(q, i)' <=> RequesterHolds(q, i)
      BY <1>0, <1>1, <2>2, <3>1, StateNames, SwapHolders
    <3> QED BY <1>1, <3>2, SameHolders DEF IInv
  <2>cancel. Settled' BY <1>0, <1>1, <2>1, <2>2 DEF IInv, Settled
  <2> QED
    BY <2>handle, <2>task, <2>awaited, <2>fresh, <2>history, <2>holders, <2>cancel DEF IInv
<1>2. ASSUME Is(h, "Abandoned"), Release(h), Became(h, "done"), UNCHANGED control
      PROVE  IInv'
  BY <1>0, <1>2, ProviderDrops DEF Release, Became
<1>3. ASSUME ~Is(h, "Empty"), ~Is(h, "Abandoned"), Became(h, "done"),
             UNCHANGED <<control, free>>
      PROVE  IInv'
  <2>1. task' = [task EXCEPT ![h] = "done"] BY <1>3 DEF Became
  <2>2. ~(G(h) = GenOf(h) /\ S(h) \in GivenUp)
    BY <1>0, <1>3, IsFields DEF TypeInv, IInv, TaskInv, GivenUp
  <2>handle. HandleInv'
    <3> SUFFICES ASSUME NEW q \in Requesters PROVE HandleInv!(q)'
        BY DEF HandleInv
    <3>1. HandleInv!(q) BY DEF IInv, HandleInv
    <3>2. pc[q] # "idle" => handle[q] \in Handles BY DEF TypeInv
    <3> QED
      BY <1>0, <1>3, <2>1, <2>2, <3>1, <3>2, IsFields, IsFieldsNext, HandleParts, SameHandle
      DEF TypeInv, TypeOK, WordOf, G, S
  <2>task. TaskInv'
    BY <1>0, <1>3, <2>1, <2>2, IsFields, IsFieldsNext, HandleParts, SameHandle
    DEF TypeInv, TypeOK, IInv, TaskInv, WordOf, G, S
  <2>awaited. AwaitedInv'
    <3>1. \A k \in Handles : Due(k)' => Due(k) /\ k # h
      BY <1>0, <1>3, <2>1, <2>2, IsFields, IsFieldsNext, HandleParts, SameHandle
      DEF TypeInv, TypeOK, IInv, Due, TaskInv, HandleInv, G, S
    <3>2. \A q \in Requesters : pc[q] \in {"waiting", "expired"} /\ handle[q] # h =>
            pc'[q] \in {"waiting", "expired"} /\ handle'[q] = handle[q]
      BY <1>0, <1>3, <2>1, <2>2 DEF TypeInv, TypeOK
    <3>3. \A k \in Handles : k # h => task'[k] = task[k]
      BY <1>0, <1>3, <2>1, <2>2 DEF TypeInv, TypeOK
    <3> QED BY <3>1, <3>2, <3>3, AwaitedKept DEF IInv
  <2>fresh. FreshInv' BY <1>0, <1>3, <2>1, <2>2 DEF IInv, FreshInv
  <2>history. HistoryInv'
    BY <1>0, <1>3, <2>1, <2>2
    DEF IInv, HistoryInv, Current, Is, WordOf
  <2>holders. HeldOnce' /\ Accounted'
    <3>1. \A i \in Slots : ProviderHolds(i)' <=> ProviderHolds(i)
      BY <1>0, <1>3, <2>1, <2>2, IsFields, IsFieldsNext, HandleParts, SameHandle
      DEF TypeInv, TypeOK, IInv, ProviderHolds, Current, WordOf, G, S, GivenUp
    <3>2. \A q \in Requesters, i \in Slots :
            RequesterHolds(q, i)' <=> RequesterHolds(q, i)
      BY <1>0, <1>3, <2>1, <2>2, IsFields, IsFieldsNext, HandleParts, SameHandle
      DEF TypeInv, TypeOK, IInv, HeldOnce, RequesterHolds, Current, WordOf, G, S, GivenUp
    <3> QED BY <1>0, <1>3, <2>1, <2>2, <3>1, <3>2, SameHolders DEF IInv
  <2>cancel. Settled' BY <1>0, <1>3, <2>1, <2>2 DEF IInv, Settled
  <2> QED
    BY <2>handle, <2>task, <2>awaited, <2>fresh, <2>history, <2>holders, <2>cancel DEF IInv
<1> QED BY <1>1, <1>2, <1>3 DEF BeginWrite

LEMMA CommitWriteStep ==
    ASSUME TypeInv, TypeInv', IInv, NEW h \in Handles, CommitWrite(h)
    PROVE  IInv'
<1>0. /\ SlotOf(h) \in Slots
      /\ task' = [task EXCEPT ![h] = "done"] /\ task[h] = "writing"
      /\ bytes' = [bytes EXCEPT ![SlotOf(h)] = h]
      /\ UNCHANGED <<pc, handle, answered, cancelled>>
  BY HandleParts DEF CommitWrite, Became, history
<1>1. ASSUME Swap(h, "Writing", "Ready"), UNCHANGED free PROVE IInv'
  <2>1. /\ \A i \in Slots :
             /\ control'[i].gen = control[i].gen
             /\ control'[i].state = IF i = SlotOf(h) THEN "Ready" ELSE control[i].state
        /\ G(h) = GenOf(h) /\ S(h) = "Writing"
        BY <1>1, SwapFields, StateNames
  <2>handle. HandleInv'
    <3> SUFFICES ASSUME NEW q \in Requesters PROVE HandleInv!(q)'
        BY DEF HandleInv
    <3>1. HandleInv!(q) BY DEF IInv, HandleInv
    <3>2. pc[q] # "idle" => handle[q] \in Handles BY DEF TypeInv
    <3> QED
      BY <1>0, <1>1, <2>1, <3>1, <3>2, IsFields, IsFieldsNext, HandleParts, SameHandle
      DEF TypeInv, TypeOK, WordOf, G, S
  <2>task. TaskInv'
    BY <1>0, <1>1, <2>1, IsFields, IsFieldsNext, HandleParts, SameHandle
    DEF TypeInv, TypeOK, IInv, TaskInv, WordOf, G, S
  <2>awaited. AwaitedInv'
    <3>1. \A k \in Handles : Due(k)' => Due(k) /\ k # h
      BY <1>0, <1>1, <2>1, IsFields, IsFieldsNext, HandleParts, SameHandle
      DEF TypeInv, TypeOK, IInv, Due, TaskInv, HandleInv, G, S
    <3>2. \A q \in Requesters : pc[q] \in {"waiting", "expired"} /\ handle[q] # h =>
            pc'[q] \in {"waiting", "expired"} /\ handle'[q] = handle[q]
      BY <1>0, <1>1, <2>1 DEF TypeInv, TypeOK
    <3>3. \A k \in Handles : k # h => task'[k] = task[k]
      BY <1>0, <1>1, <2>1 DEF TypeInv, TypeOK
    <3> QED BY <3>1, <3>2, <3>3, AwaitedKept DEF IInv
  <2>fresh. FreshInv'
    BY <1>0, <1>1, <2>1, HandleParts, SizeAssumption
    DEF TypeInv, TypeOK, IInv, FreshInv, G, Gens
  <2>history. HistoryInv' BY <1>0, <1>1, StateNames, SwapHistory DEF IInv
  <2>holders. HeldOnce' /\ Accounted'
    <3>1. "Writing" \notin GivenUp /\ "Ready" \notin GivenUp BY DEF GivenUp
    <3>2. /\ \A i \in Slots : ProviderHolds(i)' <=> ProviderHolds(i)
          /\ \A q \in Requesters, i \in Slots : RequesterHolds(q, i)' <=> RequesterHolds(q, i)
      BY <1>0, <1>1, <3>1, StateNames, SwapHolders
    <3> QED BY <1>1, <3>2, SameHolders DEF IInv
  <2>cancel. Settled' BY <1>0, <1>1, <2>1 DEF IInv, Settled
  <2> QED
    BY <2>handle, <2>task, <2>awaited, <2>fresh, <2>history, <2>holders, <2>cancel DEF IInv
<1>2. ASSUME ~Is(h, "Writing"), Release(h), UNCHANGED control PROVE IInv'
  <2>1. Is(h, "AbandonedWriting") BY <1>0, <1>2 DEF IInv, TaskInv
  <2> QED BY <1>0, <1>2, <2>1, ProviderDrops DEF Release
<1> QED BY <1>1, <1>2 DEF CommitWrite

LEMMA PopStep ==
    ASSUME TypeInv, TypeInv', IInv, NEW r \in Requesters, Pop(r)
    PROVE  IInv'
<1>1. PICK s \in Slots :
        /\ free[s] > 0 /\ control[s].gen < MaxGen
        /\ free' = [free EXCEPT ![s] = @ - 1]
        /\ handle' = [handle EXCEPT ![r] = <<s, control[s].gen + 1>>]
  BY DEF Pop
<1>2. /\ pc[r] = "idle" /\ pc' = [pc EXCEPT ![r] = "popped"]
      /\ UNCHANGED <<control, bytes, task, answered, cancelled>>
  BY DEF Pop, Goto, providerVars, history
<1>3. /\ handle'[r] \in Handles /\ SlotOf(handle'[r]) = s
      /\ GenOf(handle'[r]) = control[s].gen + 1
  BY <1>1, <1>2 DEF TypeInv, TypeOK, SlotOf, GenOf
<1>4. free[s] = 1 /\ free'[s] = 0 BY <1>1 DEF TypeInv, TypeOK, IInv, HeldOnce
<1>handle. HandleInv'
  <2> SUFFICES ASSUME NEW q \in Requesters PROVE HandleInv!(q)'
      BY DEF HandleInv
  <2>1. HandleInv!(q) BY DEF IInv, HandleInv
  <2>2. pc[q] # "idle" => handle[q] \in Handles BY DEF TypeInv
  <2> QED
    BY <1>1, <1>2, <1>3, <1>4, <2>1, <2>2, IsFields, IsFieldsNext, HandleParts, SameHandle
    DEF TypeInv, TypeOK, WordOf, G, S
<1>task. TaskInv' BY <1>1, <1>2, <1>3, <1>4 DEF IInv, TaskInv, Is, WordOf
<1>awaited. AwaitedInv'
  <2>1. \A k \in Handles :
          Due(k)' => Due(k) /\ task'[k] \in {"queued", "running", "writing"}
    BY <1>1, <1>2, <1>3, <1>4, IsFields, IsFieldsNext, HandleParts, SameHandle
    DEF TypeInv, TypeOK, IInv, AwaitedInv, Due, TaskInv, HandleInv, G, S
  <2>2. \A q \in Requesters : pc[q] \in {"waiting", "expired"} =>
          pc'[q] \in {"waiting", "expired"} /\ handle'[q] = handle[q]
    BY <1>1, <1>2, <1>3, <1>4 DEF TypeInv, TypeOK
  <2> QED BY <2>1, <2>2, AwaitedSame DEF IInv
<1>fresh. FreshInv' BY <1>1, <1>2, <1>3, <1>4 DEF IInv, FreshInv
<1>history. HistoryInv' BY <1>1, <1>2, <1>3, <1>4 DEF IInv, HistoryInv, Current, Is, WordOf
<1>holders. HeldOnce' /\ Accounted'
  <2>1. \A i \in Slots : ProviderHolds(i)' <=> ProviderHolds(i)
    BY <1>1, <1>2, <1>3, <1>4, IsFields, IsFieldsNext, HandleParts, SameHandle
    DEF TypeInv, TypeOK, IInv, ProviderHolds, Current, WordOf, G, S, GivenUp
  <2>2. \A q \in Requesters, i \in Slots :
          RequesterHolds(q, i)' <=> RequesterHolds(q, i) \/ (q = r /\ i = s)
    BY <1>1, <1>2, <1>3, <1>4, IsFields, IsFieldsNext, HandleParts, SameHandle
    DEF TypeInv, TypeOK, IInv, HeldOnce, RequesterHolds, Current, WordOf, G, S, GivenUp
  <2> QED BY <1>1, <1>2, <1>3, <1>4, <2>1, <2>2 DEF IInv, HeldOnce, Accounted, TypeInv, TypeOK
<1>cancel. Settled' BY <1>1, <1>2, <1>3, <1>4 DEF IInv, Settled
<1> QED
  BY <1>handle, <1>task, <1>awaited, <1>fresh, <1>history, <1>holders, <1>cancel DEF IInv

LEMMA ArmStep ==
    ASSUME TypeInv, TypeInv', IInv, NEW r \in Requesters, Arm(r)
    PROVE  IInv'
<1> PICK h : h = handle[r] OBVIOUS
<1> PICK s : s = SlotOf(h) OBVIOUS
<1>1. /\ pc[r] = "popped" /\ pc' = [pc EXCEPT ![r] = "armed"]
      /\ control' = [control EXCEPT ![s] = Word(GenOf(h), "Empty")]
      /\ UNCHANGED <<bytes, free, handle, task, answered, cancelled>>
  BY DEF Arm, Goto, providerVars, history
<1>2. h \in Handles /\ s \in Slots /\ GenOf(h) = G(h) + 1 /\ G(h) \in Nat
  BY <1>1, HandleParts DEF TypeInv, TypeOK, IInv, HandleInv, WordOf, G
<1>task0. task[h] = "none" BY <1>2 DEF IInv, TaskInv, WordOf, G
<1>3. /\ \A k \in Handles : G(k) \in Nat /\ GenOf(k) \in Nat
      /\ \A k \in Handles :
            IF SlotOf(k) = s THEN G(k) = G(h) /\ G(k)' = GenOf(h) /\ S(k)' = "Empty"
                             ELSE G(k)' = G(k) /\ S(k)' = S(k)
  BY <1>1, <1>2, HandleParts DEF TypeInv, TypeOK, Word, Gens, G, S
<1>4. RequesterHolds(r, s) BY <1>1 DEF RequesterHolds
<1>5. /\ free[s] = 0 /\ ~ProviderHolds(s)
      /\ \A q \in Requesters : RequesterHolds(q, s) => q = r
  <2>1. free[s] \in Nat BY <1>2 DEF TypeInv, TypeOK
  <2> QED BY <1>2, <1>4, <2>1 DEF IInv, HeldOnce
<1>6. \A k \in Handles : SlotOf(k) = s => task[k] # "writing"
  <2> SUFFICES ASSUME NEW k \in Handles, SlotOf(k) = s, task[k] = "writing" PROVE FALSE
      OBVIOUS
  <2>1. CASE Is(k, "Writing")
    <3>1. PICK q \in Requesters : pc[q] \in {"waiting", "expired"} /\ handle[q] = k
      BY <2>1 DEF IInv, AwaitedInv, Due
    <3>2. RequesterHolds(q, s)
      BY <2>1, <3>1 DEF RequesterHolds, Is, Current, WordOf, Word, GivenUp
    <3> QED BY <1>1, <1>5, <3>1, <3>2
  <2>2. CASE Is(k, "AbandonedWriting")
    BY <1>5, <2>2 DEF ProviderHolds, Is, Current, WordOf, Word, GivenUp
  <2> QED BY <2>1, <2>2 DEF IInv, TaskInv
<1>7. ASSUME NEW q \in Requesters, q # r, SlotOf(handle[q]) = s
      PROVE  /\ pc[q] \in {"idle", "waiting", "expired", "late"}
             /\ pc[q] # "idle" => handle[q] \in Handles /\ GenOf(handle[q]) <= G(h)
  <2>1. pc[q] \notin {"popped", "armed"} BY <1>5, <1>7 DEF RequesterHolds
  <2>2. ASSUME pc[q] \in {"reading", "lateReading"} PROVE FALSE
    <3>1. control[s] = Word(GenOf(handle[q]), "Ready")
      BY <1>7, <2>2 DEF IInv, HandleInv, Is, WordOf
    <3>2. RequesterHolds(q, s)
      BY <1>7, <2>2, <3>1 DEF RequesterHolds, Current, WordOf, Word, GivenUp
    <3> QED BY <1>5, <1>7, <3>2
  <2>3. pc[q] \in {"idle", "waiting", "expired", "late"}
    BY <2>1, <2>2 DEF TypeInv, TypeOK
  <2>4. pc[q] # "idle" => handle[q] \in Handles /\ GenOf(handle[q]) <= G(h)
    BY <1>7, <2>3 DEF IInv, HandleInv, WordOf, G
  <2> QED BY <2>3, <2>4
<1>handle. HandleInv'
  <2> SUFFICES ASSUME NEW q \in Requesters PROVE HandleInv!(q)'
      BY DEF HandleInv
  <2>1. HandleInv!(q) BY DEF IInv, HandleInv
  <2>2. pc[q] # "idle" => handle[q] \in Handles BY DEF TypeInv
  <2>3. CASE q = r
    BY <1>1, <1>2, <1>task0, <1>3, <2>3, IsFieldsNext DEF TypeInv, TypeOK
  <2>4. CASE q # r /\ SlotOf(handle[q]) = s
    <3>1. pc'[q] = pc[q] /\ handle'[q] = handle[q] /\ task' = task
      BY <1>1, <2>4 DEF TypeInv, TypeOK
    <3> PICK k : k = handle[q] OBVIOUS
    <3>2. pc[q] # "idle" => GenOf(k) < G(k)'
      BY <1>2, <1>3, <1>7, <2>2, <2>4
    <3>3. pc[q] # "idle" => GenOf(k) <= WordOf(k).gen' /\ \A w : ~Is(k, w)'
      BY <1>2, <1>3, <2>2, <3>2, IsFieldsNext DEF TypeInv, WordOf, G
    <3> QED BY <1>7, <2>1, <2>2, <2>4, <3>1, <3>3 DEF WordOf, Is
  <2>5. CASE q # r /\ SlotOf(handle[q]) # s
    BY <1>1, <2>1, <2>5 DEF TypeInv, TypeOK, WordOf, Is
  <2> QED BY <2>3, <2>4, <2>5
<1>task. TaskInv'
  <2> SUFFICES ASSUME NEW k \in Handles PROVE TaskInv!(k)'
      BY DEF TaskInv
  <2>1. TaskInv!(k) BY DEF IInv, TaskInv
  <2>2. CASE SlotOf(k) = s
    <3>1. \A w : Is(k, w)' => w = "Empty" BY <1>3, <2>2, IsFieldsNext DEF TypeInv
    <3>2. GenOf(k) > WordOf(k).gen' => GenOf(k) > WordOf(k).gen
      BY <1>2, <1>3, <2>2 DEF WordOf, G
    <3> QED BY <1>1, <1>6, <2>1, <2>2, <3>1, <3>2
  <2>3. CASE SlotOf(k) # s BY <1>1, <2>1, <2>3 DEF WordOf, Is
  <2> QED BY <2>2, <2>3
<1>awaited. AwaitedInv'
  <2>1. \A k \in Handles : Due(k)' =>
            Due(k) /\ task'[k] \in {"queued", "running", "writing"}
    <3> SUFFICES ASSUME NEW k \in Handles, Due(k)'
                 PROVE  Due(k) /\ task[k] \in {"queued", "running", "writing"}
        BY <1>1
    <3>1. SlotOf(k) # s
      BY <1>1, <1>2, <1>task0, <1>3, IsFieldsNext, SameHandle DEF TypeInv, Due
    <3>2. Due(k) BY <1>1, <3>1 DEF Due, Is, WordOf
    <3> QED BY <3>2 DEF IInv, AwaitedInv
  <2>2. \A q \in Requesters : pc[q] \in {"waiting", "expired"} =>
            pc'[q] \in {"waiting", "expired"} /\ handle'[q] = handle[q]
    BY <1>1 DEF TypeInv, TypeOK
  <2> QED BY <2>1, <2>2, AwaitedSame DEF IInv
<1>fresh. FreshInv'
  BY <1>1, <1>2 DEF TypeInv, TypeOK, IInv, FreshInv, Word, G
<1>history. HistoryInv'
  <2>1. ASSUME NEW k \in Handles, GenOf(k) <= WordOf(k).gen, SlotOf(k) = s
        PROVE  GenOf(k) <= WordOf(k).gen' /\ ~Current(k)'
    BY <1>2, <1>3, <2>1 DEF WordOf, Current, G
  <2>2. ASSUME NEW k \in Handles, SlotOf(k) # s
        PROVE  UNCHANGED WordOf(k)
    BY <1>1, <2>2 DEF WordOf
  <2> QED BY <1>1, <2>1, <2>2 DEF TypeInv, TypeOK, IInv, HistoryInv, Current, Is
<1>holders. HeldOnce' /\ Accounted'
  <2>1. \A i \in Slots : ProviderHolds(i)' <=> ProviderHolds(i)
    <3>1. ~ProviderHolds(s)' BY <1>1, <1>2 DEF TypeInv, TypeOK, ProviderHolds, Word, GivenUp
    <3>2. \A i \in Slots \ {s} : ProviderHolds(i)' <=> ProviderHolds(i)
      BY <1>1 DEF TypeInv, TypeOK, ProviderHolds, Current, WordOf
    <3> QED BY <1>5, <3>1, <3>2
  <2>2. \A q \in Requesters, i \in Slots :
          RequesterHolds(q, i)' <=> RequesterHolds(q, i)
    <3> SUFFICES ASSUME NEW q \in Requesters, NEW i \in Slots
                 PROVE  RequesterHolds(q, i)' <=> RequesterHolds(q, i)
        OBVIOUS
    <3>1. CASE i # s BY <1>1, <3>1 DEF TypeInv, TypeOK, RequesterHolds, Current, WordOf
    <3>2. CASE i = s /\ q = r BY <1>1, <1>4, <3>2 DEF TypeInv, TypeOK, RequesterHolds
    <3>3. CASE i = s /\ q # r
      <4>1. ~RequesterHolds(q, s) BY <1>5, <3>3
      <4>2. ~RequesterHolds(q, s)'
        BY <1>1, <1>2, <1>3, <1>7, <3>3
        DEF TypeInv, TypeOK, RequesterHolds, Current, WordOf, G
      <4> QED BY <3>3, <4>1, <4>2
    <3> QED BY <3>1, <3>2, <3>3
  <2> QED BY <1>1, <2>1, <2>2, SameHolders DEF IInv
<1>cancel. Settled' BY <1>1 DEF IInv, Settled
<1> QED
  BY <1>handle, <1>task, <1>awaited, <1>fresh, <1>history, <1>holders, <1>cancel DEF IInv

LEMMA SendStep ==
    ASSUME TypeInv, TypeInv', IInv, NEW r \in Requesters, Send(r)
    PROVE  IInv'
<1> PICK h : h = handle[r] OBVIOUS
<1>1. /\ pc[r] = "armed" /\ pc' = [pc EXCEPT ![r] = "waiting"]
      /\ task' = [task EXCEPT ![h] = "queued"]
      /\ UNCHANGED <<control, bytes, free, handle, answered, cancelled>>
  BY DEF Send, Goto, Became, history
<1>2. /\ h \in Handles /\ SlotOf(h) \in Slots /\ task[h] = "none"
      /\ G(h) = GenOf(h) /\ S(h) \in {"Empty", "ProviderGone"}
  BY <1>1, HandleParts, IsFields DEF TypeInv, IInv, HandleInv
<1>handle. HandleInv'
  <2> SUFFICES ASSUME NEW q \in Requesters PROVE HandleInv!(q)'
      BY DEF HandleInv
  <2>1. HandleInv!(q) BY DEF IInv, HandleInv
  <2>2. CASE q = r
    BY <1>1, <1>2, <2>2, HandleParts DEF TypeInv, TypeOK, WordOf, G, Gens
  <2>3. CASE q # r
    <3>1. pc[q] = "armed" => handle[q] # h
      BY <1>1, <1>2, <2>3 DEF IInv, HeldOnce, RequesterHolds
    <3>2. pc[q] # "idle" => handle[q] \in Handles BY DEF TypeInv
    <3> QED BY <1>1, <2>1, <2>3, <3>1, <3>2 DEF TypeInv, TypeOK, Is, WordOf
  <2> QED BY <2>2, <2>3
<1>task. TaskInv'
  BY <1>1, <1>2, IsFields, IsFieldsNext, HandleParts, SameHandle
  DEF TypeInv, TypeOK, IInv, TaskInv, WordOf, G, S
<1>awaited. AwaitedInv'
  <2>1. ASSUME NEW k \in Handles, Due(k)'
        PROVE  (task[k] \in {"queued", "running", "writing"} /\
                \E q \in Requesters : pc[q] \in {"waiting", "expired"} /\ handle[q] = k)'
    <3>1. CASE k = h BY <1>1, <1>2, <3>1 DEF TypeInv, TypeOK
    <3>2. CASE k # h
      <4>1. Due(k) /\ task'[k] = task[k]
        BY <1>1, <2>1, <3>2, IsFields, IsFieldsNext DEF TypeInv, TypeOK, Due, G, S
      <4>2. PICK q \in Requesters : pc[q] \in {"waiting", "expired"} /\ handle[q] = k
        BY <4>1 DEF IInv, AwaitedInv
      <4> QED BY <1>1, <4>1, <4>2 DEF IInv, AwaitedInv, TypeInv, TypeOK
    <3> QED BY <3>1, <3>2
  <2> QED BY <2>1 DEF AwaitedInv
<1>fresh. FreshInv' BY <1>1, <1>2 DEF IInv, FreshInv
<1>history. HistoryInv' BY <1>1, <1>2 DEF IInv, HistoryInv, Current, Is, WordOf
<1>holders. HeldOnce' /\ Accounted'
  <2>1. \A i \in Slots : ProviderHolds(i)' <=> ProviderHolds(i)
    BY <1>1, <1>2, IsFields, IsFieldsNext, HandleParts, SameHandle
    DEF TypeInv, TypeOK, IInv, ProviderHolds, Current, WordOf, G, S, GivenUp
  <2>2. \A q \in Requesters, i \in Slots :
          RequesterHolds(q, i)' <=> RequesterHolds(q, i)
    BY <1>1, <1>2, IsFields, IsFieldsNext, HandleParts, SameHandle
    DEF TypeInv, TypeOK, IInv, HeldOnce, RequesterHolds, Current, WordOf, G, S, GivenUp
  <2> QED BY <1>1, <1>2, <2>1, <2>2, SameHolders DEF IInv
<1>cancel. Settled' BY <1>1, <1>2 DEF IInv, Settled
<1> QED
  BY <1>handle, <1>task, <1>awaited, <1>fresh, <1>history, <1>holders, <1>cancel DEF IInv

LEMMA MarkSwapStep ==
    ASSUME TypeInv, TypeInv', IInv, MarkSwap
    PROVE  IInv'
<1>0. scan \in Slots /\ UNCHANGED <<bytes, free, pc, handle, task, answered, cancelled>>
  BY SizeAssumption DEF MarkSwap, TypeInv, TypeOK, Slots, history
<1>1. ASSUME Swap(<<scan, seen>>, "Empty", "ProviderGone") PROVE IInv'
  <2>1. /\ control[scan].gen = seen /\ control[scan].state = "Empty"
        /\ \A i \in Slots :
             control'[i] = IF i = scan THEN Word(seen, "ProviderGone") ELSE control[i]
    BY <1>0, <1>1 DEF TypeInv, TypeOK, Swap, Is, WordOf, Word, SlotOf, GenOf
  <2>2. \A k \in Handles :
          /\ G(k)' = G(k) /\ GenOf(k) \in Nat /\ G(k) \in Nat
          /\ S(k)' = S(k) \/ (S(k) = "Empty" /\ S(k)' = "ProviderGone")
    BY <2>1, HandleParts DEF TypeInv, TypeOK, Word, G, S, Gens
  <2>3. \A k \in Handles :
          /\ \A w : w # "ProviderGone" /\ Is(k, w)' => Is(k, w)
          /\ \A w : w # "Empty" /\ Is(k, w) => Is(k, w)'
          /\ Is(k, "Empty") => Is(k, "Empty")' \/ Is(k, "ProviderGone")'
    BY <2>2, IsFields, IsFieldsNext DEF TypeInv
  <2>4. \A k \in Handles : WordOf(k).gen' = WordOf(k).gen /\ (Current(k)' <=> Current(k))
    BY <2>2 DEF WordOf, Current, G
  <2>handle. HandleInv'
    <3> SUFFICES ASSUME NEW q \in Requesters PROVE HandleInv!(q)'
        BY DEF HandleInv
    <3>1. HandleInv!(q) BY DEF IInv, HandleInv
    <3>2. pc[q] # "idle" => handle[q] \in Handles BY DEF TypeInv
    <3>3. pc[q] # "idle" => WordOf(handle[q]).gen' = WordOf(handle[q]).gen
      BY <1>0, <2>4, <3>2 DEF WordOf
    <3>4. pc[q] = "armed" => (Is(handle[q], "Empty") \/ Is(handle[q], "ProviderGone"))'
      BY <1>0, <2>3, <3>1, <3>2 DEF Is, WordOf
    <3>5. pc[q] \in {"reading", "lateReading"} => Is(handle[q], "Ready")'
      BY <1>0, <2>3, <3>1, <3>2 DEF Is, WordOf
    <3>6. pc[q] = "late" => (~Is(handle[q], "Empty") /\ ~Is(handle[q], "Writing"))'
      BY <1>0, <2>3, <3>1, <3>2 DEF Is, WordOf
    <3> QED BY <1>0, <3>1, <3>2, <3>3, <3>4, <3>5, <3>6 DEF WordOf
  <2>task. TaskInv' BY <1>0, <2>3, <2>4 DEF IInv, TaskInv
  <2>awaited. AwaitedInv'
    BY <1>0, <2>3 DEF IInv, AwaitedInv, Due
  <2>fresh. FreshInv' BY <1>0, <2>1 DEF IInv, FreshInv, Word
  <2>history. HistoryInv' BY <1>0, <2>3, <2>4 DEF TypeInv, TypeOK, IInv, HistoryInv
  <2>holders. HeldOnce' /\ Accounted'
    <3>1. \A i \in Slots : ProviderHolds(i)' <=> ProviderHolds(i)
      BY <1>0, <2>1 DEF TypeInv, TypeOK, ProviderHolds, Current, WordOf, Word, GivenUp
    <3>2. \A q \in Requesters, i \in Slots :
            RequesterHolds(q, i)' <=> RequesterHolds(q, i)
      BY <1>0, <2>1 DEF TypeInv, TypeOK, RequesterHolds, Current, WordOf, Word, GivenUp
    <3> QED BY <1>0, <3>1, <3>2, SameHolders DEF IInv
  <2>cancel. Settled' BY <1>0 DEF IInv, Settled
  <2> QED
    BY <2>handle, <2>task, <2>awaited, <2>fresh, <2>history, <2>holders, <2>cancel DEF IInv
<1>2. ASSUME UNCHANGED control PROVE IInv'
  BY <1>0, <1>2
  DEF IInv, HandleInv, TaskInv, AwaitedInv, FreshInv, HistoryInv, HeldOnce, Accounted,
      Settled, Due, RequesterHolds, ProviderHolds, Current, Is, WordOf
<1> QED BY <1>1, <1>2 DEF MarkSwap

LEMMA FrameStep ==
    ASSUME IInv, UNCHANGED <<control, bytes, free, pc, handle, task, answered, cancelled>>
    PROVE  IInv'
BY DEF IInv, HandleInv, TaskInv, AwaitedInv, FreshInv, HistoryInv, HeldOnce, Accounted,
       Settled, Due, RequesterHolds, ProviderHolds, Current, Is, WordOf

LEMMA IInvInit == Init => IInv
BY SizeAssumption
   DEF Init, IInv, HandleInv, TaskInv, AwaitedInv, FreshInv, HistoryInv, HeldOnce, Accounted,
       Settled, Due, RequesterHolds, ProviderHolds, Current, Is, WordOf, Word, GivenUp,
       Slots, Gens, Handles, SlotOf, GenOf, NoHandle

\* What was released twice stays so: a pool that is intact always was.
LEMMA IntactBefore ==
    ASSUME [Next]_vars, Intact'
    PROVE  Intact
<1>1. ASSUME NEW r \in Requesters, Requester(r) PROVE Intact
  <2>1. CASE GiveUp(r) BY <2>1 DEF GiveUp, Intact
  <2>2. CASE Pop(r) \/ Arm(r) \/ Send(r) \/ SendFails(r) \/ Expire(r)
    BY <2>2 DEF Pop, Arm, Send, SendFails, Expire, Intact, history
  <2>3. CASE Receive(r)
    BY <2>3 DEF Receive, StartRead, FinishRead, SeeProviderGone, SeeCancelled, Intact, history
  <2> QED BY <1>1, <2>1, <2>2, <2>3 DEF Requester
<1>2. ASSUME NEW h \in Handles, Poll(h) \/ BeginWrite(h) \/ CommitWrite(h) \/ Cancel(h)
      PROVE  Intact
  BY <1>2 DEF Poll, BeginWrite, CommitWrite, Cancel, Intact, history
<1>3. CASE Clear
  BY <1>3 DEF Clear, StartClear, MarkLoad, MarkSwap, EndClear, CloseRing, Intact, history
<1>4. CASE UNCHANGED vars BY <1>4 DEF vars, Intact
<1> QED BY <1>1, <1>2, <1>3, <1>4 DEF Next

\* IInv is inductive while the pool is intact.
LEMMA IInvStep ==
    ASSUME TypeInv, TypeInv', IInv, Intact', [Next]_vars
    PROVE  IInv'
<1>1. ASSUME NEW r \in Requesters, Requester(r) PROVE IInv'
  <2>1. CASE Receive(r)
    BY <2>1, StartReadStep, FinishReadStep, SeeProviderGoneStep, SeeCancelledStep
    DEF Receive
  <2> QED BY <1>1, <2>1, PopStep, ArmStep, SendStep, SendFailsStep, ExpireStep, GiveUpStep
          DEF Requester
<1>2. CASE Clear
  <2>1. CASE MarkSwap BY <2>1, MarkSwapStep
  <2>2. CASE StartClear \/ MarkLoad \/ EndClear \/ CloseRing
    BY <2>2, FrameStep DEF StartClear, MarkLoad, EndClear, CloseRing, history
  <2> QED BY <1>2, <2>1, <2>2 DEF Clear
<1>3. CASE UNCHANGED vars BY <1>3, FrameStep DEF vars
<1> QED
  BY <1>1, <1>2, <1>3, PollStep, BeginWriteStep, CommitWriteStep, CancelStep DEF Next

LEMMA IntactInvariant == Spec => [](TypeInv /\ IntactInv)
<1>1. Init => TypeInv /\ IntactInv BY TypeInit, IInvInit DEF IntactInv
<1>2. (TypeInv /\ IntactInv) /\ [Next]_vars => (TypeInv /\ IntactInv)'
  <2> SUFFICES ASSUME TypeInv, IntactInv, [Next]_vars PROVE TypeInv' /\ IntactInv'
      OBVIOUS
  <2>1. TypeInv' BY TypeStep
  <2>2. ASSUME Intact' PROVE IInv' BY <2>1, <2>2, IntactBefore, IInvStep DEF IntactInv
  <2> QED BY <2>1, <2>2 DEF IntactInv
<1> QED BY <1>1, <1>2, PTL DEF Spec

\* A late poller and giveUp releasing the same request's slot is the only way a
\* slot gets on the free list twice, is free while somebody uses it, or is used
\* by two: whatever else times out late or early, is cancelled or cleared.
THEOREM SlotsHaveOneHolder == Spec => []OneHolder
<1>1. TypeInv /\ IntactInv => OneHolder BY DEF IntactInv, IInv, OneHolder
<1> QED BY IntactInvariant, <1>1, PTL

\* No slot of an intact pool is ever lost: somebody will release every slot that
\* is not free.
THEOREM SlotsDoNotLeak == Spec => []NoLeak
<1>1. TypeInv /\ IntactInv => NoLeak BY DEF IntactInv, IInv, NoLeak
<1> QED BY IntactInvariant, <1>1, PTL

\* A requester of an intact pool decodes the response to its own request, in
\* time or late, and nobody writes to the bytes it reads, however slots are
\* recycled.
THEOREM ResponsesAreOwn == Spec => []OwnResponse
<1>1. TypeInv /\ IntactInv => OwnResponse
  <2> SUFFICES ASSUME TypeInv, IInv, NEW r \in Requesters, pc[r] \in {"reading", "lateReading"}
               PROVE  /\ bytes[SlotOf(handle[r])] = handle[r]
                      /\ \A h \in Handles : SlotOf(h) = SlotOf(handle[r]) => task[h] # "writing"
      BY DEF OwnResponse, IntactInv
  <2>1. handle[r] \in Handles /\ Is(handle[r], "Ready") BY DEF TypeInv, IInv, HandleInv
  <2>2. bytes[SlotOf(handle[r])] = handle[r] BY <2>1 DEF IInv, TaskInv
  <2>3. ASSUME NEW h \in Handles, SlotOf(h) = SlotOf(handle[r]), task[h] = "writing"
        PROVE  FALSE
    <3>1. Is(h, "Writing") \/ Is(h, "AbandonedWriting") BY <2>3 DEF IInv, TaskInv
    <3>2. S(h) = S(handle[r]) BY <2>3 DEF S
    <3> QED BY <2>1, <3>1, <3>2, IsFields DEF TypeInv
  <2> QED BY <2>2, <2>3
<1> QED BY IntactInvariant, <1>1, PTL

\* In an intact pool a request whose cancel succeeded gets no response, whatever
\* the provider, the other requesters and a clear of the provider do meanwhile.
THEOREM CancelsStick == Spec => []CancelSticks
<1>1. TypeInv /\ IntactInv => CancelSticks BY DEF IntactInv, IInv, CancelSticks
<1> QED BY IntactInvariant, <1>1, PTL

-----------------------------------------------------------------------------
(* Where the pool stays intact: no future of a request times out.          *)

InTime == Intact /\ \A r \in Requesters : pc[r] \notin {"expired", "lateReading", "late"}

LEMMA InTimeStep ==
    ASSUME Timed \subseteq Blocking, TypeInv, InTime, [Next]_vars
    PROVE  InTime'
<1> USE DEF TypeInv, TypeOK, InTime, Intact, Goto, history, providerVars
<1>1. ASSUME NEW r \in Requesters, Requester(r) PROVE InTime'
  <2>1. CASE GiveUp(r) BY <2>1 DEF GiveUp
  <2>2. CASE Pop(r) \/ Arm(r) \/ Send(r) \/ SendFails(r)
    BY <2>2 DEF Pop, Arm, Send, SendFails
  <2>3. CASE Expire(r) BY <2>3 DEF Expire
  <2>4. CASE Receive(r)
    BY <2>4 DEF Receive, StartRead, FinishRead, SeeProviderGone, SeeCancelled, MayReceive,
                Resolved
  <2> QED BY <1>1, <2>1, <2>2, <2>3, <2>4 DEF Requester
<1>2. ASSUME NEW h \in Handles, Poll(h) \/ BeginWrite(h) \/ CommitWrite(h) \/ Cancel(h)
      PROVE  InTime'
  BY <1>2 DEF Poll, BeginWrite, CommitWrite, Cancel
<1>3. CASE Clear
  BY <1>3 DEF Clear, StartClear, MarkLoad, MarkSwap, EndClear, CloseRing
<1>4. CASE UNCHANGED vars BY <1>4 DEF vars
<1> QED BY <1>1, <1>2, <1>3, <1>4 DEF Next

\* When only blocking requests have finite timeouts no poller can be late, and
\* what mt_queue.nim promises holds: a slot returns to the free list once.
THEOREM BlockingTimeoutsReleaseOnce ==
    ASSUME Timed \subseteq Blocking
    PROVE  Spec => []ReleasedOnce
<1>1. Init => InTime BY DEF Init, InTime, Intact
<1>2. TypeInv /\ InTime /\ [Next]_vars => InTime' BY InTimeStep
<1>3. TypeInv /\ IntactInv /\ InTime => ReleasedOnce
  BY DEF InTime, IntactInv, IInv, HeldOnce, ReleasedOnce
<1> QED BY <1>1, <1>2, <1>3, TypeInvariant, IntactInvariant, PTL DEF Spec
==============================================================================
